------------------------------ MODULE FdtTree ------------------------------
(***************************************************************************)
(* What a reader makes of a blob, walking its tags once from the start:    *)
(* the tree as DeviceTree has it, and the reserved regions.  The           *)
(* properties compare what libfdt does with it.                            *)
(***************************************************************************)
EXTENDS FdtRead

(* The tags, by their offsets, up to FDT_END or an error. *)
TagOffsets(b) ==
  LET from[off \in Offsets(b)] ==
        LET t == fdt_next_tag(b, off) IN
        <<off>> \o (IF t.tag = FDT_END THEN << >> ELSE from[t.next])
  IN from[0]

(* What each tag says. *)
Item(b, off) ==
  LET tag == fdt_next_tag(b, off).tag IN
  [tag |-> tag,
   name |-> CASE tag = FDT_BEGIN_NODE -> fdt_get_name(b, off)
              [] tag = FDT_PROP -> PropName(b, off)
              [] OTHER -> << >>,
   val |-> IF tag = FDT_PROP THEN PropValue(b, off) ELSE << >>]

Items(b) == LET at == TagOffsets(b) IN [i \in DOMAIN at |-> Item(b, at[i])]

(* The tree the tags tell of: a property is of the last node begun. *)
Empty == [depth |-> 0, seq |-> << >>]
Grow(n, it) ==
  CASE it.tag = FDT_BEGIN_NODE ->
         [depth |-> n.depth + 1,
          seq |-> Append(n.seq, [depth |-> n.depth, name |-> it.name, props |-> << >>])]
    [] it.tag = FDT_END_NODE -> [n EXCEPT !.depth = @ - 1]
    [] it.tag = FDT_PROP ->
         [n EXCEPT !.seq[Len(n.seq)].props =
                     Append(@, [name |-> it.name, val |-> it.val])]
    [] OTHER -> n

Reading(items) ==
  LET after[i \in 0 .. Len(items)] ==
        IF i = 0 THEN Empty ELSE Grow(after[i - 1], items[i])
  IN after
TreeOf(items) == Reading(items)[Len(items)].seq

Tree(b) == TreeOf(Items(b))

ReserveMap(b) == [i \in 1 .. fdt_num_mem_rsv(b) |-> mem_rsv(b, i - 1)]

(* The offsets of the nodes, in order. *)
NodeOffsets(b) ==
  SelectSeq(TagOffsets(b), LAMBDA off : fdt_next_tag(b, off).tag = FDT_BEGIN_NODE)

(* The format, as those who write a blob keep it: each tag is whole and    *)
(* leads to the next one, up to FDT_END; properties come before the nodes  *)
(* below; and their names are in the strings block, each with its NUL.     *)
Whole(b, off, end) ==
  LET tag == WordAt(b, off)
      name == off + FDT_TAGSIZE IN
  \/ /\ tag = FDT_BEGIN_NODE
     /\ name < end /\ ByteAt(b, end - 1) = NUL
     /\ \A q \in name .. end - 2 : ByteAt(b, q) # NUL
  \/ tag = FDT_PROP /\ off + PropSize <= end /\ end = off + PropSize + PropLen(b, off)
  \/ tag \in {FDT_END_NODE, FDT_NOP, FDT_END} /\ end = off + FDT_TAGSIZE

Listed(b, size, at) ==
  /\ at \in Seq(Nat) /\ at # << >> /\ at[1] = 0
  /\ \A i \in DOMAIN at : \E end \in at[i] + 1 .. size :
       /\ Whole(b, at[i], end)
       /\ IF i = Len(at) THEN WordAt(b, at[i]) = FDT_END
          ELSE WordAt(b, at[i]) # FDT_END /\ at[i + 1] = FDT_TAGALIGN(end)

Orderly(items) ==
  \A i \in DOMAIN items : items[i].tag = FDT_PROP =>
    \E j \in 1 .. i - 1 :
      /\ items[j].tag = FDT_BEGIN_NODE
      /\ \A k \in j + 1 .. i - 1 : items[k].tag \in {FDT_PROP, FDT_NOP}

(* All nodes are in one, which the first tag begins, and only NOPs come    *)
(* after its end.                                                          *)
Rooted(items) ==
  LET Depth(i) == Reading(items)[i].depth IN
  \E end \in 2 .. Len(items) :
    /\ Depth(end) = 0 /\ \A i \in 1 .. end - 1 : Depth(i) > 0
    /\ \A i \in end + 1 .. Len(items) : items[i].tag \in {FDT_NOP, FDT_END}

Named(b, at) ==
  /\ \A i \in DOMAIN at :
       WordAt(b, at[i]) = FDT_PROP => PropNameOff(b, at[i]) \in 0 .. b.size_dt_strings - 1
  /\ b.size_dt_strings > 0 => b.mem[b.off_dt_strings + b.size_dt_strings - 1] = NUL

=============================================================================
