------------------------------- MODULE FdtRw -------------------------------
(***************************************************************************)
(* The edits libfdt makes to a blob: libfdt/fdt_rw.c, and those of         *)
(* libfdt/fdt_wip.c that leave the sizes alone.                            *)
(*                                                                         *)
(* An operator with the name of a function of libfdt returns what the      *)
(* function returns (ret: negative for an error) and the blob it leaves    *)
(* (fdt), also when it fails half way.                                     *)
(***************************************************************************)
EXTENDS FdtRead

Fail(b, e) == [ret |-> -e, fdt |-> b]
Done(b, r) == [ret |-> r, fdt |-> b]

(* The rest of a function after a call that has found an offset and left   *)
(* the blob, and after one that has changed the blob.                      *)
IfFound(b, offset, Rest(_)) == IF offset < 0 THEN Done(b, offset) ELSE Rest(offset)
AndThen(r, Rest(_)) == IF r.ret < 0 THEN r ELSE Rest(r.fdt)

(* memmove within m, and memmove or memcpy from another one. *)
CopyFrom(m, dst, from, src, n) ==
  [i \in DOMAIN m |-> IF i \in dst .. dst + n - 1 THEN from[src + i - dst] ELSE m[i]]
memmove(m, dst, src, n) == CopyFrom(m, dst, m, src, n)
memcpy(m, dst, s) ==
  [i \in DOMAIN m |-> IF i \in dst .. dst + Len(s) - 1 THEN s[i - dst + 1] ELSE m[i]]

(* Bytes of the structure block, and a word of it. *)
Write(b, offset, s) == [b EXCEPT !.mem = memcpy(@, b.off_dt_struct + offset, s)]

-----------------------------------------------------------------------------
blocks_misordered(b, mem_rsv_size, struct_size) ==
  \/ b.off_mem_rsvmap < FDT_ALIGN(HeaderSize, 2 * FDT_TAGSIZE)
  \/ b.off_dt_struct < b.off_mem_rsvmap + mem_rsv_size
  \/ b.off_dt_strings < b.off_dt_struct + struct_size
  \/ b.totalsize < b.off_dt_strings + b.size_dt_strings

rw_check_header(b) ==
  IfFound(b, fdt_check_header(b), LAMBDA zero :
    IF b.version < 17 THEN Fail(b, BADVERSION)
    ELSE IF blocks_misordered(b, EntrySize, b.size_dt_struct) THEN Fail(b, BADLAYOUT)
         ELSE Done([b EXCEPT !.version = 17], 0))

(* FDT_RW_CHECK_HEADER, and the rest of a function. *)
IfHeaderOk(b, Rest(_)) == AndThen(rw_check_header(b), Rest)

data_size(b) == b.off_dt_strings + b.size_dt_strings

splice(b, p, oldlen, newlen) ==
  LET end == data_size(b) IN
  CASE p + oldlen > end -> Fail(b, BADOFFSET)
    [] p + oldlen <= end /\ end - oldlen + newlen > b.totalsize -> Fail(b, NOSPACE)
    [] OTHER -> Done([b EXCEPT !.mem = memmove(@, p + newlen, p + oldlen,
                                               end - p - oldlen)], 0)

(* splice_mem_rsv_StructOnly moves the strings and not where they are said *)
(* to be.                                                                  *)
splice_mem_rsv_StructOnly(b, p, oldn, newn) ==
  AndThen(splice(b, p, oldn * EntrySize, newn * EntrySize), LAMBDA s :
    Done([s EXCEPT !.off_dt_struct = @ + (newn - oldn) * EntrySize], 0))
splice_mem_rsv(b, p, oldn, newn) ==
  LET delta == (newn - oldn) * EntrySize IN
  AndThen(splice(b, p, oldn * EntrySize, newn * EntrySize), LAMBDA s :
    Done([s EXCEPT !.off_dt_struct = @ + delta, !.off_dt_strings = @ + delta], 0))

(* offset is the place in the structure block.  The strings move with the  *)
(* end of it.                                                              *)
splice_struct(b, offset, oldlen, newlen) ==
  LET delta == newlen - oldlen IN
  AndThen(splice(b, b.off_dt_struct + offset, oldlen, newlen), LAMBDA s :
    Done([s EXCEPT !.size_dt_struct = @ + delta, !.off_dt_strings = @ + delta], 0))

splice_string(b, newlen) ==
  AndThen(splice(b, data_size(b), 0, newlen), LAMBDA s :
    Done([s EXCEPT !.size_dt_strings = @ + newlen], 0))

(* The offset of a name in the strings block, where it is added if it is   *)
(* not there, also as the end of another one.                              *)
find_add_string(b, s) ==
  LET Found(p) ==
        IF p >= 0 THEN Done(b, p)
        ELSE AndThen(splice_string(b, Len(s) + 1), LAMBDA r :
               Done([r EXCEPT !.mem = memcpy(@, data_size(b), Append(s, NUL))],
                    b.size_dt_strings))
  IN Found(fdt_find_string(b.mem, b.off_dt_strings, b.size_dt_strings, s))

-----------------------------------------------------------------------------
(* The reserve map. *)
fdt_add_mem_rsv(fdt, address, size) ==
  IfHeaderOk(fdt, LAMBDA b :
    LET entry == cpu_to_fdt(address, 2 * FDT_TAGSIZE)
                   \o cpu_to_fdt(size, 2 * FDT_TAGSIZE)
        AddAt(re) == AndThen(splice_mem_rsv(b, re, 0, 1), LAMBDA s :
                       Done([s EXCEPT !.mem = memcpy(@, re, entry)], 0))
    IN AddAt(b.off_mem_rsvmap + fdt_num_mem_rsv(b) * EntrySize))

fdt_del_mem_rsv(fdt, n) ==
  IfHeaderOk(fdt, LAMBDA b :
    IF n >= fdt_num_mem_rsv(b) THEN Fail(b, NOTFOUND)
    ELSE splice_mem_rsv(b, b.off_mem_rsvmap + n * EntrySize, 1, 0))

-----------------------------------------------------------------------------
(* Properties.  The first two return the offset of the property. *)
resize_property(b, node, name, len) ==
  IfFound(b, fdt_get_property(b, node, name), LAMBDA prop :
    AndThen(splice_struct(b, prop + PropSize, FDT_TAGALIGN(PropLen(b, prop)),
                          FDT_TAGALIGN(len)), LAMBDA s :
      Done(Write(s, prop + FDT_TAGSIZE, cpu_to_fdt32(len)), prop)))

add_property(b, node, name, len) ==
  LET Named(str, next) ==
        AndThen(str, LAMBDA n :
          AndThen(splice_struct(n, next, 0, PropSize + FDT_TAGALIGN(len)), LAMBDA s :
            Done(Write(s, next, cpu_to_fdt32(FDT_PROP) \o cpu_to_fdt32(len)
                                  \o cpu_to_fdt32(str.ret)), next)))
  IN IfFound(b, fdt_check_node_offset(b, node), LAMBDA next :
       Named(find_add_string(b, name), next))

(* The value goes after what is kept of the old one. *)
WriteValue(r, kept, val) ==
  IF r.ret < 0 THEN r ELSE Done(Write(r.fdt, r.ret + PropSize + kept, val), 0)

fdt_setprop(fdt, node, name, val) ==
  IfHeaderOk(fdt, LAMBDA b :
    LET OrAdd(r) == IF r.ret = -NOTFOUND THEN add_property(b, node, name, Len(val))
                    ELSE r
    IN WriteValue(OrAdd(resize_property(b, node, name, Len(val))), 0, val))

fdt_appendprop(fdt, node, name, val) ==
  IfHeaderOk(fdt, LAMBDA b :
    LET Grow(oldlen) ==
          WriteValue(resize_property(b, node, name, oldlen + Len(val)), oldlen, val)
        At(prop) ==
          IF prop >= 0 THEN Grow(PropLen(b, prop))
          ELSE WriteValue(add_property(b, node, name, Len(val)), 0, val)
    IN At(fdt_get_property(b, node, name)))

fdt_delprop(fdt, node, name) ==
  IfHeaderOk(fdt, LAMBDA b :
    IfFound(b, fdt_get_property(b, node, name), LAMBDA prop :
      splice_struct(b, prop, PropSize + FDT_TAGALIGN(PropLen(b, prop)), 0)))

fdt_setprop_inplace(b, node, name, val) ==
  IfFound(b, fdt_get_property(b, node, name), LAMBDA prop :
    IF PropLen(b, prop) # Len(val) THEN Fail(b, NOSPACE)
    ELSE Done(Write(b, prop + PropSize, val), 0))

-----------------------------------------------------------------------------
(* Nodes. *)
fdt_set_name(fdt, node, name) ==
  IfHeaderOk(fdt, LAMBDA b :
    IfFound(b, fdt_check_node_offset(b, node), LAMBDA next :
      AndThen(splice_struct(b, node + FDT_TAGSIZE,
                            FDT_TAGALIGN(Len(fdt_get_name(b, node)) + 1),
                            FDT_TAGALIGN(Len(name) + 1)), LAMBDA s :
        Done(Write(s, node + FDT_TAGSIZE, Append(name, NUL)), 0))))

(* The first tag after a node's own that is no property;                   *)
(* AfterProperties_First stops at the properties.                          *)
AfterProperties_First(b, node) == fdt_next_tag(b, node).next
AfterProperties(b, node) ==
  LET from[off \in Offsets(b)] ==
        LET Go(t) == IF t.tag \in {FDT_PROP, FDT_NOP} THEN from[t.next] ELSE off
        IN Go(fdt_next_tag(b, off))
  IN from[fdt_next_tag(b, node).next]

Padded(name) ==
  name \o [i \in 1 .. FDT_TAGALIGN(Len(name) + 1) - Len(name) |-> NUL]

fdt_add_subnode(fdt, parent, name) ==
  IfHeaderOk(fdt, LAMBDA b :
    LET node == cpu_to_fdt32(FDT_BEGIN_NODE) \o Padded(name)
                  \o cpu_to_fdt32(FDT_END_NODE)
        AddAt(offset) == AndThen(splice_struct(b, offset, 0, Len(node)), LAMBDA s :
                           Done(Write(s, offset, node), offset))
        Unless(found) == CASE found >= 0 -> Fail(b, EXISTS)
                           [] found = -NOTFOUND -> AddAt(AfterProperties(b, parent))
                           [] OTHER -> Done(b, found)
    IN Unless(fdt_subnode_offset(b, parent, name)))

fdt_del_node(fdt, node) ==
  IfHeaderOk(fdt, LAMBDA b :
    IfFound(b, fdt_node_end_offset(b, node), LAMBDA end :
      splice_struct(b, node, end - node, 0)))

-----------------------------------------------------------------------------
(* Words of NOP over the len bytes at an offset. *)
nop_region(b, offset, len) ==
  Write(b, offset,
        [i \in 1 .. FDT_TAGALIGN(len) |->
           cpu_to_fdt32(FDT_NOP)[((i - 1) % FDT_TAGSIZE) + 1]])

fdt_nop_property(b, node, name) ==
  IfFound(b, fdt_get_property(b, node, name), LAMBDA prop :
    Done(nop_region(b, prop, PropLen(b, prop) + PropSize), 0))

fdt_nop_node(b, node) ==
  IfFound(b, fdt_node_end_offset(b, node), LAMBDA end :
    Done(nop_region(b, node, end - node), 0))

-----------------------------------------------------------------------------
(* The blob as a whole.  The reserve map has a last entry, of size 0.      *)
whole_mem_rsv_size(b) == (fdt_num_mem_rsv(b) + 1) * EntrySize

(* The blocks of old are moved to the places after at in m, one after      *)
(* another; m is old's own memory or another.                              *)
packblocks(old, m, inplace, at, mem_rsv_size, struct_size) ==
  LET From(now) == IF inplace THEN now ELSE old.mem
      mem_rsv_off == FDT_ALIGN(HeaderSize, 2 * FDT_TAGSIZE)
      struct_off == mem_rsv_off + mem_rsv_size
      strings_off == struct_off + struct_size
      m1 == CopyFrom(m, at + mem_rsv_off, From(m), old.off_mem_rsvmap, mem_rsv_size)
      m2 == CopyFrom(m1, at + struct_off, From(m1), old.off_dt_struct, struct_size)
      m3 == CopyFrom(m2, at + strings_off, From(m2), old.off_dt_strings,
                     old.size_dt_strings)
  IN [old EXCEPT !.off_mem_rsvmap = mem_rsv_off, !.off_dt_struct = struct_off,
                 !.size_dt_struct = struct_size, !.off_dt_strings = strings_off,
                 !.mem = m3]

(* The size of the structure block of a version that does not say it. *)
StructEnd(b) ==
  LET from[off \in Offsets(b)] ==
        LET Go(t) == IF t.tag = FDT_END THEN t.next ELSE from[t.next]
        IN Go(fdt_next_tag(b, off))
  IN from[0]

(* buf is the memory of the buffer; the blob may be in it already, at its  *)
(* start.  A blob to be reordered in its own buffer is built after its end *)
(* first, and moved back.                                                  *)
fdt_open_into(b, buf, inplace) ==
  LET bufsize == Cardinality(DOMAIN buf)
      mem_rsv_size == whole_mem_rsv_size(b)
      struct_size == IF b.version >= 17 THEN b.size_dt_struct ELSE StructEnd(b)
      moved == [b EXCEPT !.mem = CopyFrom(buf, 0, b.mem, 0, b.totalsize)]
      newsize == FDT_ALIGN(HeaderSize, 2 * FDT_TAGSIZE) + mem_rsv_size
                   + struct_size + b.size_dt_strings
      tmp == IF inplace THEN b.totalsize ELSE 0
      packed == packblocks(b, buf, inplace, tmp, mem_rsv_size, struct_size)
      cpuid == IF inplace THEN fdt32_to_cpu(packed.mem, tmp + 7 * FDT_TAGSIZE)
               ELSE b.boot_cpuid_phys IN
  CASE fdt_check_header(b) # 0 -> Done(b, fdt_check_header(b))
    [] fdt_check_header(b) = 0 /\ struct_size < 0 -> Done(b, struct_size)
    [] OTHER ->
       IF ~blocks_misordered(b, mem_rsv_size, struct_size)
       THEN IF b.totalsize > bufsize THEN Fail(b, NOSPACE)
            ELSE Done([moved EXCEPT !.version = 17, !.size_dt_struct = struct_size,
                                    !.totalsize = bufsize], 0)
       ELSE IF tmp + newsize > bufsize THEN Fail(b, NOSPACE)
            ELSE Done([packed EXCEPT
                         !.mem = memmove(@, 0, tmp, newsize),
                         !.totalsize = bufsize, !.version = 17,
                         !.last_comp_version = 16, !.boot_cpuid_phys = cpuid], 0)

fdt_pack(fdt) ==
  IfHeaderOk(fdt, LAMBDA b :
    LET mem_rsv_size == whole_mem_rsv_size(b)
        p == packblocks(b, b.mem, TRUE, 0, mem_rsv_size, b.size_dt_struct)
    IN Done([p EXCEPT !.totalsize = data_size(p)], 0))

=============================================================================
