----------------------------- MODULE FdtFormat -----------------------------
(***************************************************************************)
(* The flattened device tree: the blob of libfdt/fdt.h, and how its tags   *)
(* are walked (libfdt/fdt.c).                                              *)
(*                                                                         *)
(* A blob is a record of the header's fields and of mem, the bytes of the  *)
(* buffer by their offset; the bytes the header itself takes are not       *)
(* looked at.  A word is big-endian in FDT_TAGSIZE bytes.  A pointer into  *)
(* the structure block is the offset libfdt computes it from, and NULL is  *)
(* the error code libfdt returns beside it.                                *)
(***************************************************************************)
EXTENDS Integers, Sequences, FiniteSets

CONSTANT FDT_TAGSIZE  \* the bytes of a word: 4
ASSUME TagSizeAssumption == FDT_TAGSIZE \in Nat \ {0}

Base == 256
Byte == 0 .. Base - 1
Power[n \in Nat] == IF n = 0 THEN 1 ELSE Base * Power[n - 1]
WordBase == Power[FDT_TAGSIZE]
NUL == 0
AT == 64       \* '@'

HeaderSize == 10 * FDT_TAGSIZE
EntrySize == 4 * FDT_TAGSIZE       \* struct fdt_reserve_entry
PropSize == 3 * FDT_TAGSIZE        \* struct fdt_property: tag, len, nameoff

FDT_MAGIC == 1
FDT_SW_MAGIC == 2

FDT_BEGIN_NODE == 1
FDT_END_NODE == 2
FDT_PROP == 3
FDT_NOP == 4
FDT_END == 9

NOTFOUND == 1
EXISTS == 2
NOSPACE == 3
BADOFFSET == 4
BADPHANDLE == 6
BADSTATE == 7
TRUNCATED == 8
BADMAGIC == 9
BADVERSION == 10
BADSTRUCTURE == 11
BADLAYOUT == 12
INTERNAL == 13

FDT_ALIGN(x, a) == ((x + a - 1) \div a) * a
FDT_TAGALIGN(x) == FDT_ALIGN(x, FDT_TAGSIZE)

-----------------------------------------------------------------------------
(* Bytes in memory. *)
Bytes(m, p, n) == [i \in 1 .. n |-> m[p + i - 1]]

(* The value of bytes, and of the n bytes at p; fdt64_to_cpu is the same   *)
(* of two words.                                                           *)
Number(s) ==
  LET upto[i \in 0 .. Len(s)] == IF i = 0 THEN 0 ELSE upto[i - 1] * Base + s[i]
  IN upto[Len(s)]
BigEndian(m, p, n) == Number(Bytes(m, p, n))

fdt32_to_cpu(m, p) == BigEndian(m, p, FDT_TAGSIZE)

cpu_to_fdt(x, n) == [i \in 1 .. n |-> (x \div Power[n - i]) % Base]
cpu_to_fdt32(x) == cpu_to_fdt(x, FDT_TAGSIZE)

(* A result that is an error, or the rest of a function with it. *)
OrError(x, Rest(_)) == IF x < 0 THEN x ELSE Rest(x)

(* A word as the int it is assigned to. *)
Signed(w) == IF w < WordBase \div 2 THEN w ELSE w - WordBase

Least(S) == CHOOSE x \in S : \A y \in S : x <= y
Greatest(S) == CHOOSE x \in S : \A y \in S : x >= y

(* The end of the string at p: strlen is StringEnd(m, p) - p. *)
StringEnd(m, p) == Least({q \in DOMAIN m : q >= p /\ m[q] = NUL})
StringAt(m, p) == Bytes(m, p, StringEnd(m, p) - p)

-----------------------------------------------------------------------------
(* libfdt/fdt.c. *)
fdt_check_header(b) ==
  CASE b.magic = FDT_MAGIC ->
         IF b.version < 16 \/ b.last_comp_version > 17 THEN -BADVERSION ELSE 0
    [] b.magic = FDT_SW_MAGIC ->
         IF b.size_dt_struct = 0 THEN -BADSTATE ELSE 0
    [] OTHER -> -BADMAGIC

(* Whether the len bytes at offset may be read, that is, fdt_offset_ptr is *)
(* not NULL; of an old version the size of the block is not known.         *)
fdt_offset_ptr(b, offset, len) ==
  b.version >= 17 => offset + len <= b.size_dt_struct

ByteAt(b, offset) == b.mem[b.off_dt_struct + offset]
WordAt(b, offset) == fdt32_to_cpu(b.mem, b.off_dt_struct + offset)

(* Offsets into the structure block. *)
Offsets(b) == 0 .. Cardinality(DOMAIN b.mem)

(* The NUL of the name of a node, or -1 if the block ends before it: the   *)
(* loop stops at the first of the two.                                     *)
NameEnd(b, offset) ==
  LET Stops(q) == ~fdt_offset_ptr(b, q, 1) \/ ByteAt(b, q) = NUL
      first == offset + FDT_TAGSIZE
      end == CHOOSE q \in first .. Cardinality(DOMAIN b.mem) :
               Stops(q) /\ \A p \in first .. q - 1 : ~Stops(p)
  IN IF fdt_offset_ptr(b, end, 1) THEN end ELSE -1

(* The end of what belongs to the tag at an offset, or 0 for a name        *)
(* without an end.                                                         *)
TagEnd(b, offset, tag) ==
  CASE tag = FDT_BEGIN_NODE -> NameEnd(b, offset) + 1
    [] tag = FDT_PROP -> offset + PropSize + WordAt(b, offset + FDT_TAGSIZE)
    [] OTHER -> offset + FDT_TAGSIZE

TagUpTo(b, offset, tag, end) ==
  IF /\ tag \in {FDT_BEGIN_NODE, FDT_END_NODE, FDT_PROP, FDT_NOP, FDT_END}
     /\ tag = FDT_BEGIN_NODE => end > 0
     /\ tag = FDT_PROP => fdt_offset_ptr(b, offset + FDT_TAGSIZE, FDT_TAGSIZE)
     /\ fdt_offset_ptr(b, offset, end - offset)
  THEN [tag |-> tag, next |-> FDT_TAGALIGN(end)]
  ELSE [tag |-> FDT_END, next |-> -BADSTRUCTURE]

(* The tag at an offset, and the offset of the one after it or an error.   *)
fdt_next_tag(b, offset) ==
  IF fdt_offset_ptr(b, offset, FDT_TAGSIZE)
  THEN TagUpTo(b, offset, WordAt(b, offset),
               TagEnd(b, offset, WordAt(b, offset)))
  ELSE [tag |-> FDT_END, next |-> -TRUNCATED]

(* The offset after the tag at offset if it is the one asked for. *)
CheckTag(b, offset, tag) ==
  LET NextOf(t) == IF t.tag = tag THEN t.next ELSE -BADOFFSET IN
  IF offset < 0 \/ offset % FDT_TAGSIZE # 0 THEN -BADOFFSET
  ELSE NextOf(fdt_next_tag(b, offset))

fdt_check_node_offset(b, offset) == CheckTag(b, offset, FDT_BEGIN_NODE)
fdt_check_prop_offset(b, offset) == CheckTag(b, offset, FDT_PROP)

(* The next node after offset, and its depth when offset is at depth: an   *)
(* offset of -1 stands before the root, and a depth of Deep for no depth.  *)
(* The walk ends with a node, after the end of the one it began at, or     *)
(* with an error.                                                          *)
Deep == 99
NodeAt(off, d) == [offset |-> off, depth |-> d]
WalkEnd(at, t) ==
  CASE t.tag = FDT_BEGIN_NODE -> NodeAt(at.offset, at.depth + 1)
    [] t.tag = FDT_END_NODE -> NodeAt(t.next, -1)
    [] t.tag = FDT_END ->
         NodeAt(IF \/ t.next >= 0
                   \/ t.next = -TRUNCATED /\ at.depth >= Deep \div 2
                THEN -NOTFOUND ELSE t.next, at.depth)

fdt_next_node(b, offset, depth) ==
  LET walk[at \in [offset : Offsets(b), depth : Nat]] ==
        LET Go(t) ==
              IF t.tag \in {FDT_PROP, FDT_NOP} THEN walk[NodeAt(t.next, at.depth)]
              ELSE IF t.tag = FDT_END_NODE /\ at.depth > 0
                   THEN walk[NodeAt(t.next, at.depth - 1)]
                   ELSE WalkEnd(at, t)
        IN Go(fdt_next_tag(b, at.offset))
      From(start) == IF start < 0 THEN NodeAt(start, depth)
                     ELSE walk[NodeAt(start, depth)]
  IN From(IF offset >= 0 THEN fdt_check_node_offset(b, offset) ELSE 0)

(* The first place of the string s, with its NUL, in a block; or -1.  The  *)
(* end of a longer string will do.                                         *)
fdt_find_string(m, strtab, tabsize, s) ==
  LET with_nul == Append(s, NUL)
      places == {p \in strtab .. strtab + tabsize - Len(with_nul) :
                   Bytes(m, p, Len(with_nul)) = with_nul}
  IN IF places = {} THEN -1 ELSE Least(places) - strtab

=============================================================================
