------------------------------ MODULE FdtRead ------------------------------
(***************************************************************************)
(* What libfdt finds in a blob: libfdt/fdt_ro.c, and _fdt_node_end_offset  *)
(* of libfdt/fdt_wip.c.  A node or property is named by its offset, and a  *)
(* negative offset is an error.                                            *)
(***************************************************************************)
EXTENDS FdtFormat, SequencesExt

CONSTANTS PHANDLE, LINUX_PHANDLE  \* "phandle" and "linux,phandle"

-----------------------------------------------------------------------------
(* Names and strings. *)
nodename_eq_Exact(b, offset, s) ==
  StringAt(b.mem, b.off_dt_struct + offset + FDT_TAGSIZE) = s
nodename_eq(b, offset, s) ==
  LET p == offset + FDT_TAGSIZE
      after == ByteAt(b, p + Len(s)) IN
  /\ fdt_offset_ptr(b, p, Len(s) + 1)
  /\ \A i \in 1 .. Len(s) : ByteAt(b, p + i - 1) = s[i]
  /\ \/ after = NUL
     \/ after = AT /\ \A i \in 1 .. Len(s) : s[i] # AT

fdt_string(b, stroffset) == StringAt(b.mem, b.off_dt_strings + stroffset)

PropLen(b, prop) == WordAt(b, prop + FDT_TAGSIZE)
PropNameOff(b, prop) == Signed(WordAt(b, prop + 2 * FDT_TAGSIZE))
PropName(b, prop) == fdt_string(b, PropNameOff(b, prop))
PropValue(b, prop) ==
  Bytes(b.mem, b.off_dt_struct + prop + PropSize, PropLen(b, prop))

(* The reserve map: entries up to one of size 0. *)
mem_rsv(b, n) ==
  LET p == b.off_mem_rsvmap + n * EntrySize IN
  [address |-> BigEndian(b.mem, p, 2 * FDT_TAGSIZE),
   size |-> BigEndian(b.mem, p + 2 * FDT_TAGSIZE, 2 * FDT_TAGSIZE)]

(* How many there is memory for. *)
Entries(b) ==
  {i \in Offsets(b) :
     b.off_mem_rsvmap + (i + 1) * EntrySize <= Cardinality(DOMAIN b.mem)}

fdt_num_mem_rsv(b) ==
  CHOOSE i \in Entries(b) :
    mem_rsv(b, i).size = 0 /\ \A j \in 0 .. i - 1 : mem_rsv(b, j).size # 0

-----------------------------------------------------------------------------
(* Properties. *)
NoProp(t) ==
  CASE t.tag # FDT_END -> -NOTFOUND
    [] t.tag = FDT_END /\ t.next >= 0 -> -BADSTRUCTURE
    [] t.tag = FDT_END /\ t.next < 0 -> t.next

nextprop(b, offset) ==
  LET from[off \in Offsets(b)] ==
        LET Go(t) == IF t.tag = FDT_NOP THEN from[t.next]
                     ELSE IF t.tag = FDT_PROP THEN off ELSE NoProp(t)
        IN Go(fdt_next_tag(b, off))
  IN from[offset]

fdt_first_property_offset(b, node) ==
  OrError(fdt_check_node_offset(b, node), LAMBDA offset : nextprop(b, offset))

fdt_next_property_offset(b, prop) ==
  OrError(fdt_check_prop_offset(b, prop), LAMBDA offset : nextprop(b, offset))

fdt_get_property(b, node, name) ==
  LET search[off \in Int] ==
        IF off < 0 \/ PropName(b, off) = name THEN off
        ELSE search[fdt_next_property_offset(b, off)]
  IN search[fdt_first_property_offset(b, node)]

(* The value of a property, or << >> and the error. *)
fdt_getprop(b, node, name) ==
  LET At(prop) == IF prop < 0 THEN [val |-> << >>, len |-> prop]
                  ELSE [val |-> PropValue(b, prop), len |-> PropLen(b, prop)]
  IN At(fdt_get_property(b, node, name))

fdt_get_phandle(b, node) ==
  LET ValueOr(prop, other) ==
        IF prop.len = FDT_TAGSIZE THEN BigEndian(prop.val, 1, FDT_TAGSIZE) ELSE other
  IN ValueOr(fdt_getprop(b, node, PHANDLE),
             ValueOr(fdt_getprop(b, node, LINUX_PHANDLE), 0))

-----------------------------------------------------------------------------
(* Nodes.  A loop over fdt_next_node visits a sequence of offsets with     *)
(* their depths, up to an error or to the end of the node it began at.     *)
Visit(b, node, depth) ==
  LET from[n \in [offset : Int, depth : Int]] ==
        <<n>> \o (IF n.offset < 0 \/ n.depth < 0 THEN << >>
                  ELSE from[fdt_next_node(b, n.offset, n.depth)])
  IN from[[offset |-> node, depth |-> depth]]

Visited(v) == 1 .. Len(v) - 1

(* The offset of the first visited node with P, or what it ended with. *)
FirstOf(v, P(_), End(_)) ==
  LET First(I) == IF I = {} THEN End(Last(v)) ELSE v[Least(I)].offset
  IN First({i \in Visited(v) : P(v[i])})

fdt_node_end_offset(b, node) == Last(Visit(b, node, 0)).offset

fdt_subnode_offset(b, node, name) ==
  OrError(fdt_check_header(b), LAMBDA zero :
    FirstOf(Visit(b, node, 0),
            LAMBDA n : n.depth = 1 /\ nodename_eq(b, n.offset, name),
            LAMBDA end : IF end.depth < 0 THEN -NOTFOUND ELSE end.offset))

(* An absolute path, as the sequence of its components. *)
fdt_path_offset(b, path) ==
  LET down[i \in 0 .. Len(path)] ==
        IF i = 0 THEN fdt_check_header(b)
        ELSE OrError(down[i - 1], LAMBDA offset :
                                    fdt_subnode_offset(b, offset, path[i]))
  IN down[Len(path)]

(* The name of a node; the callers have checked that it is one. *)
fdt_get_name(b, node) == StringAt(b.mem, b.off_dt_struct + node + FDT_TAGSIZE)

(* A loop from the root as far as the node: what it visits, the node       *)
(* included, or nothing if it does not come by it; and the error then,     *)
(* when it has gone past the offset or has ended before it.                *)
UpTo(b, node) ==
  LET Cut(v) ==
        LET at == {i \in Visited(v) : v[i].offset = node}
        IN IF at = {} THEN << >> ELSE SubSeq(v, 1, Least(at))
  IN Cut(Visit(b, 0, 0))

Stray(b, node) ==
  LET Error(end, past) ==
        CASE past \/ end = -NOTFOUND -> -BADOFFSET
          [] ~past /\ end = node -> -NOTFOUND
          [] ~past /\ (end = -BADOFFSET \/ (end >= 0 /\ end # node)) -> -BADSTRUCTURE
          [] OTHER -> end
      At(v) == Error(Last(v).offset, \E i \in DOMAIN v : v[i].offset > node)
  IN At(Visit(b, 0, 0))

(* The last one visited at a depth up to that of the node encloses it;     *)
(* fdt_supernode_atdepth_offset_First takes the first one.                 *)
Supernode(b, node, depth, Pick(_)) ==
  LET AtDepth(v) ==
        CASE v = << >> -> Stray(b, node)
          [] v # << >> /\ depth > Last(v).depth -> -NOTFOUND
          [] OTHER -> v[Pick({i \in DOMAIN v : v[i].depth = depth})].offset
  IN OrError(fdt_check_header(b), LAMBDA zero :
       IF depth < 0 THEN -NOTFOUND ELSE AtDepth(UpTo(b, node)))

fdt_supernode_atdepth_offset_First(b, node, depth) ==
  Supernode(b, node, depth, Least)
fdt_supernode_atdepth_offset(b, node, depth) ==
  Supernode(b, node, depth, Greatest)

fdt_node_depth(b, node) ==
  OrError(fdt_supernode_atdepth_offset(b, node, 0), LAMBDA root :
    IF root = 0 THEN Last(UpTo(b, node)).depth ELSE -INTERNAL)

fdt_parent_offset(b, node) ==
  OrError(fdt_node_depth(b, node), LAMBDA depth :
    fdt_supernode_atdepth_offset(b, node, depth - 1))

(* The path of a node, as its components, when the buffer is large enough. *)
(* The components below a node are taken off when the next one is visited. *)
fdt_get_path(b, node) ==
  LET None(e) == [ret |-> e, path |-> << >>]
      Components(v) ==
        LET path[i \in 0 .. Len(v)] ==
              IF i = 0 THEN << >>
              ELSE Append(SubSeq(path[i - 1], 1, v[i].depth),
                          fdt_get_name(b, v[i].offset))
        IN path[Len(v)]
      Of(v) == IF v = << >> THEN None(Stray(b, node))
               ELSE [ret |-> 0, path |-> Tail(Components(v))]
  IN IF fdt_check_header(b) # 0 THEN None(fdt_check_header(b))
     ELSE Of(UpTo(b, node))

-----------------------------------------------------------------------------
(* Searches of the whole tree after a node, or from -1 on. *)
SearchAfter(b, start, P(_)) ==
  LET From(n) == FirstOf(Visit(b, n.offset, n.depth), LAMBDA m : P(m.offset),
                         LAMBDA end : end.offset)
  IN From(fdt_next_node(b, start, Deep))

fdt_node_offset_by_prop_value(b, start, name, val) ==
  OrError(fdt_check_header(b), LAMBDA zero :
    SearchAfter(b, start, LAMBDA n :
      fdt_getprop(b, n, name) = [val |-> val, len |-> Len(val)]))

fdt_node_offset_by_phandle(b, phandle) ==
  IF phandle = 0 \/ phandle = WordBase - 1 THEN -BADPHANDLE
  ELSE OrError(fdt_check_header(b), LAMBDA zero :
         SearchAfter(b, -1, LAMBDA n : fdt_get_phandle(b, n) = phandle))

=============================================================================
