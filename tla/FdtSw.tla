------------------------------- MODULE FdtSw -------------------------------
(***************************************************************************)
(* How libfdt writes a blob from its start to its end: libfdt/fdt_sw.c,    *)
(* and fdt_create_empty_tree of libfdt/fdt_empty_tree.c.                   *)
(*                                                                         *)
(* Until fdt_finish the strings are at the end of the buffer and grow      *)
(* downwards, so that the offset of a name in the blob is negative.        *)
(***************************************************************************)
EXTENDS FdtRw

sw_check_header(b) == IF b.magic # FDT_SW_MAGIC THEN Fail(b, BADMAGIC) ELSE Done(b, 0)
IfUnfinished(b, Rest(_)) == AndThen(sw_check_header(b), Rest)

(* _fdt_grab_space, and s written there. *)
grab_space(b, s) ==
  LET offset == b.size_dt_struct
      spaceleft == b.totalsize - b.off_dt_struct - b.size_dt_strings IN
  IF offset + Len(s) > spaceleft THEN Fail(b, NOSPACE)
  ELSE Done([b EXCEPT !.size_dt_struct = offset + Len(s),
                      !.mem = memcpy(@, b.off_dt_struct + offset, s)], 0)

(* buf is the memory of the buffer. *)
fdt_create(buf) ==
  LET bufsize == Cardinality(DOMAIN buf)
      start == FDT_ALIGN(HeaderSize, EntrySize) IN
  [magic |-> FDT_SW_MAGIC, version |-> 17, last_comp_version |-> 16,
   totalsize |-> bufsize, boot_cpuid_phys |-> 0,
   off_mem_rsvmap |-> start, off_dt_struct |-> start,
   off_dt_strings |-> bufsize, size_dt_strings |-> 0, size_dt_struct |-> 0,
   mem |-> [i \in DOMAIN buf |-> 0]]

fdt_add_reservemap_entry(fdt, address, size) ==
  IfUnfinished(fdt, LAMBDA b :
    LET offset == b.off_dt_struct
        entry == cpu_to_fdt(address, 2 * FDT_TAGSIZE)
                   \o cpu_to_fdt(size, 2 * FDT_TAGSIZE) IN
    CASE b.size_dt_struct # 0 -> Fail(b, BADSTATE)
      [] b.size_dt_struct = 0 /\ offset + EntrySize > b.totalsize -> Fail(b, NOSPACE)
      [] OTHER -> Done([b EXCEPT !.mem = memcpy(@, offset, entry),
                                 !.off_dt_struct = offset + EntrySize], 0))

fdt_finish_reservemap(b) == fdt_add_reservemap_entry(b, 0, 0)

(* fdt_create has cleared the bytes between a NUL, or a value, and the    *)
(* next tag.                                                               *)
fdt_begin_node(fdt, name) ==
  IfUnfinished(fdt, LAMBDA b :
    grab_space(b, cpu_to_fdt32(FDT_BEGIN_NODE) \o Padded(name)))

fdt_end_node(fdt) ==
  IfUnfinished(fdt, LAMBDA b : grab_space(b, cpu_to_fdt32(FDT_END_NODE)))

(* The offset of a name from the end of the buffer, or 0 for no room. *)
sw_find_add_string(b, s) ==
  LET strtab == b.totalsize - b.size_dt_strings
      p == fdt_find_string(b.mem, strtab, b.size_dt_strings, s)
      at == strtab - (Len(s) + 1) IN
  CASE p >= 0 -> Done(b, p - b.size_dt_strings)
    [] p < 0 /\ at < b.off_dt_struct + b.size_dt_struct -> Done(b, 0)
    [] OTHER -> Done([b EXCEPT !.mem = memcpy(@, at, Append(s, NUL)),
                               !.size_dt_strings = @ + Len(s) + 1],
                     at - b.totalsize)

fdt_property(fdt, name, val) ==
  IfUnfinished(fdt, LAMBDA b :
    LET str == sw_find_add_string(b, name)
        pad == [i \in 1 .. FDT_TAGALIGN(Len(val)) - Len(val) |-> NUL] IN
    IF str.ret = 0 THEN Fail(b, NOSPACE)
    ELSE grab_space(str.fdt, cpu_to_fdt32(FDT_PROP) \o cpu_to_fdt32(Len(val))
                               \o cpu_to_fdt32(str.ret) \o val \o pad))

(* The offsets of the names, now that the strings have a place: by, the    *)
(* size of the strings, is added to each.                                  *)
Relocated(b, by) ==
  LET from[off \in Offsets(b)] ==
        LET t == fdt_next_tag(b, off) IN
        (IF t.tag = FDT_PROP THEN {off} ELSE {})
           \cup (IF t.tag = FDT_END THEN {} ELSE from[t.next])
      Place(off) == b.off_dt_struct + off + 2 * FDT_TAGSIZE
      places == {Place(off) : off \in from[0]}
      Word(p) == cpu_to_fdt32(fdt32_to_cpu(b.mem, p) + by)
      In(i) == {p \in places : i \in p .. p + FDT_TAGSIZE - 1}
  IN [b EXCEPT !.mem = [i \in DOMAIN @ |->
        IF In(i) = {} THEN @[i] ELSE LET p == Least(In(i)) IN Word(p)[i - p + 1]]]

fdt_finish(fdt) ==
  IfUnfinished(fdt, LAMBDA u :
    LET end == grab_space(u, cpu_to_fdt32(FDT_END))
        b == end.fdt
        newstroffset == b.off_dt_struct + b.size_dt_struct
        strings == b.size_dt_strings
        moved == [b EXCEPT !.mem = memmove(@, newstroffset, b.totalsize - strings,
                                           strings),
                           !.off_dt_strings = newstroffset] IN
    IF end.ret # 0 THEN end
    ELSE Done([Relocated(moved, strings) EXCEPT
                 !.totalsize = newstroffset + strings, !.magic = FDT_MAGIC], 0))

fdt_create_empty_tree(buf) ==
  AndThen(fdt_finish_reservemap(fdt_create(buf)), LAMBDA b1 :
  AndThen(fdt_begin_node(b1, << >>), LAMBDA b2 :
  AndThen(fdt_end_node(b2), LAMBDA b3 :
  AndThen(fdt_finish(b3), LAMBDA b4 : fdt_open_into(b4, b4.mem, TRUE)))))

=============================================================================
