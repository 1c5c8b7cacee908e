-------------------------------- MODULE Fdt --------------------------------
(***************************************************************************)
(* A program that writes a device tree with libfdt, or is given one, and   *)
(* edits it in a buffer: one action per function of libfdt/fdt_sw.c,       *)
(* libfdt/fdt_rw.c and libfdt/fdt_wip.c.                                   *)
(*                                                                         *)
(* Beside the blob the module keeps, as history, the tree the calls made   *)
(* so far promise: an action of DeviceTree is taken with each call that is *)
(* not refused.  The blob implements DeviceTree if it always holds that    *)
(* tree.                                                                   *)
(***************************************************************************)
EXTENDS FdtSw, FdtTree

CONSTANTS
  BufSize,          \* the bytes of the buffer
  Files,            \* the blobs the program can be given
  Names, PropNames, Values, Addresses, Sizes,  \* the arguments of the calls
  MaxRsv            \* bound: how many regions are reserved

ASSUME SizeAssumption == BufSize \in Nat /\ MaxRsv \in Nat
ASSUME NamesAssumption ==
  /\ \A n \in Names : \A i \in DOMAIN n : n[i] \in Byte \ {NUL}
  /\ \A p \in PropNames : \A i \in DOMAIN p : p[i] \in Byte \ {NUL}
  /\ \A v \in Values : \A i \in DOMAIN v : v[i] \in Byte

VARIABLES
  fdt,                          \* the blob
  phase, open, tree, reserve    \* history: the tree it should hold

promised == <<phase, open, tree, reserve>>
vars == <<fdt, phase, open, tree, reserve>>

DT == INSTANCE DeviceTree WITH UNIT <- AT

-----------------------------------------------------------------------------
(* Memory nobody has written to. *)
Garbage == 238
Stale == [i \in 0 .. BufSize - 1 |-> Garbage]

(* What an edit leaves after the last block is garbage.  While a blob is   *)
(* written the buffer is clear there, and libfdt counts on it.             *)
Forget(b) ==
  IF rw_check_header(b).ret # 0 THEN b
  ELSE [b EXCEPT !.mem = [i \in DOMAIN @ |-> IF i < data_size(b) THEN @[i]
                                             ELSE Garbage]]

(* A blob given is as it came, or in the buffer, or in the buffer after it *)
(* was opened in place and packed where there was room to reorder it.      *)
InBuffer(b) == [b EXCEPT !.mem = CopyFrom(Stale, 0, b.mem, 0, b.totalsize)]
Packed(f) ==
  LET large == [i \in 0 .. 2 * f.totalsize |-> Garbage]
      b == [f EXCEPT !.mem = CopyFrom(large, 0, f.mem, 0, f.totalsize)]
  IN fdt_pack(fdt_open_into(b, b.mem, TRUE).fdt).fdt
Given(f) == {f} \cup {InBuffer(b) : b \in {x \in {f, Packed(f)} : x.totalsize <= BufSize}}

Init ==
  \/ /\ fdt = fdt_create(Stale)
     /\ DT!Init
  \/ /\ phase = "complete" /\ open = 0
     /\ \/ /\ fdt = Forget(fdt_create_empty_tree(Stale).fdt)
           /\ tree = Tree(fdt)
        \/ \E f \in Files : fdt \in Given(f) /\ tree = Tree(f)
     /\ reserve = ReserveMap(fdt)

(* A call with its result: what it promises, unless it is refused. *)
Refused == {-NOSPACE, -BADVERSION, -BADLAYOUT, -BADOFFSET}
Call(r, Promise) ==
  /\ fdt' = Forget(r.fdt)
  /\ IF r.ret \in Refused THEN UNCHANGED promised ELSE Promise

-----------------------------------------------------------------------------
(* Writing a tree: the calls in an order that makes one.  libfdt does not  *)
(* look at the order ("FIXME: should check more details").                 *)
LastTag == LET t == Items(fdt) IN t[Len(t) - 1].tag

AddReservemapEntry ==
  /\ phase = "reserve" /\ Len(reserve) < MaxRsv
  /\ \E a \in Addresses, s \in Sizes :
       Call(fdt_add_reservemap_entry(fdt, a, s), DT!Reserve(a, s))

FinishReservemap ==
  /\ phase = "reserve"
  /\ Call(fdt_finish_reservemap(fdt), DT!ReserveDone)

BeginNode ==
  /\ phase = "nodes" /\ (tree = << >> \/ open > 0)
  /\ \E n \in IF tree = << >> THEN {<< >>} ELSE Names :
       Call(fdt_begin_node(fdt, n), DT!BeginNode(n))

Property ==
  /\ phase = "nodes" /\ open > 0
  /\ LastTag \in {FDT_BEGIN_NODE, FDT_PROP}
  /\ \E p \in PropNames, v \in Values :
       Call(fdt_property(fdt, p, v), DT!Property(p, v))

EndNode ==
  /\ phase = "nodes" /\ open > 0
  /\ Call(fdt_end_node(fdt), DT!EndNode)

Finish ==
  /\ phase = "nodes" /\ open = 0 /\ tree # << >>
  /\ Call(fdt_finish(fdt), DT!Finish)

-----------------------------------------------------------------------------
(* Editing: of a node, by its offset, or where there is none. *)
AtNode(Op(_, _)) ==
  LET offsets == NodeOffsets(fdt) IN
  \E i \in DOMAIN offsets : Op(offsets[i], i)

OpenInto ==
  /\ phase = "complete"
  /\ LET inplace == Cardinality(DOMAIN fdt.mem) = BufSize IN
     Call(fdt_open_into(fdt, IF inplace THEN fdt.mem ELSE Stale, inplace),
          UNCHANGED promised)

Pack ==
  /\ phase = "complete"
  /\ Call(fdt_pack(fdt), UNCHANGED promised)

AddMemRsv ==
  /\ phase = "complete" /\ Len(reserve) < MaxRsv
  /\ \E a \in Addresses, s \in Sizes :
       Call(fdt_add_mem_rsv(fdt, a, s), DT!AddMemRsv(a, s))

DelMemRsv ==
  /\ phase = "complete"
  /\ \E n \in 0 .. Len(reserve) : Call(fdt_del_mem_rsv(fdt, n), DT!DelMemRsv(n))

SetProp ==
  /\ phase = "complete"
  /\ AtNode(LAMBDA at, i : \E p \in PropNames, v \in Values :
       Call(fdt_setprop(fdt, at, p, v), DT!SetProp(i, p, v)))

AppendProp ==
  /\ phase = "complete"
  /\ AtNode(LAMBDA at, i : \E p \in PropNames, v \in Values :
       Call(fdt_appendprop(fdt, at, p, v), DT!AppendProp(i, p, v)))

SetPropInplace ==
  /\ phase = "complete"
  /\ AtNode(LAMBDA at, i : \E p \in PropNames, v \in Values :
       Call(fdt_setprop_inplace(fdt, at, p, v), DT!SetPropInplace(i, p, v)))

DelProp ==
  /\ phase = "complete"
  /\ AtNode(LAMBDA at, i : \E p \in PropNames :
       Call(fdt_delprop(fdt, at, p), DT!DelProp(i, p)))

NopProperty ==
  /\ phase = "complete"
  /\ AtNode(LAMBDA at, i : \E p \in PropNames :
       Call(fdt_nop_property(fdt, at, p), DT!DelProp(i, p)))

SetName ==
  /\ phase = "complete"
  /\ AtNode(LAMBDA at, i : \E n \in Names :
       i > 1 /\ Call(fdt_set_name(fdt, at, n), DT!SetName(i, n)))

AddSubnode ==
  /\ phase = "complete"
  /\ AtNode(LAMBDA at, i : \E n \in Names :
       Call(fdt_add_subnode(fdt, at, n), DT!AddSubnode(i, n)))

DelNode ==
  /\ phase = "complete"
  /\ AtNode(LAMBDA at, i : i > 1 /\ Call(fdt_del_node(fdt, at), DT!DelNode(i)))

NopNode ==
  /\ phase = "complete"
  /\ AtNode(LAMBDA at, i : i > 1 /\ Call(fdt_nop_node(fdt, at), DT!DelNode(i)))

Next ==
  \/ AddReservemapEntry \/ FinishReservemap
  \/ BeginNode \/ Property \/ EndNode \/ Finish
  \/ OpenInto \/ Pack \/ AddMemRsv \/ DelMemRsv
  \/ SetProp \/ AppendProp \/ SetPropInplace \/ DelProp \/ NopProperty
  \/ SetName \/ AddSubnode \/ DelNode \/ NopNode

Spec == Init /\ [][Next]_vars

-----------------------------------------------------------------------------
(* The blob always holds the tree the calls promise: also after a call     *)
(* that was refused half way, in another buffer, in a buffer that was      *)
(* packed and opened again, and while it is being written.                 *)
Faithful == Tree(fdt) = tree /\ ReserveMap(fdt) = reserve

(* The three blocks keep out of each other's way and end where the header  *)
(* says, within the buffer: the reserve map with its last entry, the       *)
(* structure with its FDT_END, and the strings with the name of every      *)
(* property.  Only a blob that was given can be laid out another way, and  *)
(* then it still is as it was given.                                       *)
Layout(b) == <<b.version, b.totalsize, b.off_mem_rsvmap, b.off_dt_struct,
               b.off_dt_strings, b.size_dt_strings>>
BlocksApart ==
  CASE fdt.magic = FDT_SW_MAGIC ->
         /\ fdt.off_dt_struct + fdt.size_dt_struct
              <= fdt.totalsize - fdt.size_dt_strings
         /\ fdt.totalsize = BufSize
    [] fdt.magic = FDT_MAGIC /\ rw_check_header(fdt).ret = 0 ->
         /\ data_size(fdt) <= fdt.totalsize
         /\ fdt.totalsize <= Cardinality(DOMAIN fdt.mem)
         /\ fdt.off_mem_rsvmap + (Len(reserve) + 1) * EntrySize <= fdt.off_dt_struct
         /\ fdt.off_dt_struct + fdt.size_dt_struct <= fdt.off_dt_strings
         /\ StructEnd(fdt) = fdt.size_dt_struct
         /\ \A i \in DOMAIN tree : \A k \in DOMAIN tree[i].props :
              fdt_find_string(fdt.mem, fdt.off_dt_strings, fdt.size_dt_strings,
                              tree[i].props[k].name) >= 0
    [] OTHER -> Layout(fdt) \in {Layout(f) : f \in Files}

(* What libfdt finds is what a reader of the tree would: the first node    *)
(* below one whose name will do, the first property with a name, the next  *)
(* node with a value or a phandle.                                         *)
FirstOffset(S) == IF S = {} THEN -NOTFOUND ELSE NodeOffsets(fdt)[Least(S)]
PhandleOf(i) ==
  LET Value(p) == BigEndian(DT!OldValue(i, p), 1, FDT_TAGSIZE)
      Has(p) == Len(DT!OldValue(i, p)) = FDT_TAGSIZE IN
  CASE Has(PHANDLE) -> Value(PHANDLE)
    [] ~Has(PHANDLE) /\ Has(LINUX_PHANDLE) -> Value(LINUX_PHANDLE)
    [] OTHER -> 0

LookupsAgree ==
  LET offsets == NodeOffsets(fdt) IN
  phase = "complete" => \A i \in DOMAIN offsets :
    /\ \A n \in Names :
         fdt_subnode_offset(fdt, offsets[i], n) =
           FirstOffset({j \in DT!Children(i) : DT!Matches(tree[j].name, n)})
    /\ \A p \in PropNames :
         LET found == fdt_getprop(fdt, offsets[i], p) IN
         /\ found.val = DT!OldValue(i, p)
         /\ found.len < 0 <=> DT!PropAt(i, p) = {}
    /\ \A p \in PropNames, v \in Values :
         fdt_node_offset_by_prop_value(fdt, offsets[i], p, v) =
           FirstOffset({j \in i + 1 .. Len(tree) :
                          DT!PropAt(j, p) # {} /\ DT!OldValue(j, p) = v})
    /\ PhandleOf(i) # 0 =>
         fdt_node_offset_by_phandle(fdt, PhandleOf(i)) =
           FirstOffset({j \in DOMAIN tree : PhandleOf(j) = PhandleOf(i)})

(* The way up from a node agrees with the way down: its depth, the node    *)
(* above it, and its path, which leads back to it unless a name before it  *)
(* will do for one on the path.  What is not a node has no way up.         *)
Above(i) == {j \in DOMAIN tree : i \in DT!Below(j)}
Hidden(i) ==
  \E j \in DOMAIN tree : \E k \in DT!Children(j) : \E l \in DT!Children(j) :
    /\ k < l /\ l \in Above(i) \cup {i}
    /\ DT!Matches(tree[k].name, tree[l].name)

WaysUpAgree ==
  LET offsets == NodeOffsets(fdt) IN
  phase = "complete" => \A i \in DOMAIN offsets :
    /\ fdt_node_depth(fdt, offsets[i]) = tree[i].depth
    /\ Above(i) # {} =>
         fdt_parent_offset(fdt, offsets[i]) = offsets[Greatest(Above(i))]
    /\ LET path == fdt_get_path(fdt, offsets[i]).path IN
       /\ Len(path) = tree[i].depth
       /\ Hidden(i) \/ fdt_path_offset(fdt, path) = offsets[i]
    /\ fdt_node_depth(fdt, offsets[i] + FDT_TAGSIZE) < 0

=============================================================================
