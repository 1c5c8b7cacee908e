----------------------------- MODULE DeviceTree -----------------------------
(***************************************************************************)
(* What libfdt's functions promise of a device tree, without the blob: the *)
(* nodes with their properties, and the reserved memory.                   *)
(*                                                                         *)
(* The nodes are a sequence in the order of a walk from the root, each     *)
(* with its depth, so that the nodes below one follow it.  libfdt lets two *)
(* nodes below one have the same name.                                     *)
(*                                                                         *)
(* Any edit may be refused, for want of room or because the blob is not of *)
(* the kind the function edits; the tree is then left as it was.           *)
(***************************************************************************)
EXTENDS Integers, Sequences

CONSTANTS Names, PropNames, Values, Addresses, Sizes, UNIT

VARIABLES
  phase,    \* "reserve", "nodes" while it is written, "complete" after it
  open,     \* how many nodes are begun and not ended
  tree,     \* the nodes: depth, name, and props, a sequence of name and val
  reserve   \* the reserved regions: address and size

vars == <<phase, open, tree, reserve>>

(* The nodes below i: those after it up to one that is no deeper. *)
Below(i) ==
  {j \in i + 1 .. Len(tree) : \A k \in i + 1 .. j : tree[k].depth > tree[i].depth}

Children(i) == {j \in Below(i) : tree[j].depth = tree[i].depth + 1}

(* A name without a unit address matches one with any. *)
UnitAt(name) == {k \in DOMAIN name : name[k] = UNIT}
Matches(name, wanted) ==
  \/ name = wanted
  \/ /\ UnitAt(wanted) = {}
     /\ \E k \in UnitAt(name) : SubSeq(name, 1, k - 1) = wanted

Without(s, D) ==
  LET kept[i \in 0 .. Len(s)] ==
        IF i = 0 THEN << >>
        ELSE IF i \in D THEN kept[i - 1] ELSE Append(kept[i - 1], s[i])
  IN kept[Len(s)]

(* The first property with a name, as a set. *)
PropAt(i, p) ==
  {k \in DOMAIN tree[i].props :
     /\ tree[i].props[k].name = p
     /\ \A j \in 1 .. k - 1 : tree[i].props[j].name # p}

-----------------------------------------------------------------------------
Init ==
  /\ phase = "reserve" /\ open = 0
  /\ tree = << >> /\ reserve = << >>

(* Writing a tree from its start to its end. *)
Reserve(a, s) ==
  /\ phase = "reserve"
  /\ reserve' = Append(reserve, [address |-> a, size |-> s])
  /\ UNCHANGED <<phase, open, tree>>

ReserveDone ==
  /\ phase = "reserve"
  /\ phase' = "nodes"
  /\ UNCHANGED <<open, tree, reserve>>

BeginNode(n) ==
  /\ phase = "nodes"
  /\ tree' = Append(tree, [depth |-> open, name |-> n, props |-> << >>])
  /\ open' = open + 1
  /\ UNCHANGED <<phase, reserve>>

Property(p, v) ==
  /\ phase = "nodes" /\ open > 0
  /\ tree' = [tree EXCEPT ![Len(tree)].props =
                            Append(@, [name |-> p, val |-> v])]
  /\ UNCHANGED <<phase, open, reserve>>

EndNode ==
  /\ phase = "nodes" /\ open > 0
  /\ open' = open - 1
  /\ UNCHANGED <<phase, tree, reserve>>

Finish ==
  /\ phase = "nodes" /\ open = 0
  /\ phase' = "complete"
  /\ UNCHANGED <<open, tree, reserve>>

-----------------------------------------------------------------------------
(* Editing a complete tree.  What is not there is not edited. *)
Edit(newtree, newreserve) ==
  /\ phase = "complete"
  /\ tree' = newtree /\ reserve' = newreserve
  /\ UNCHANGED <<phase, open>>

AddMemRsv(a, s) == Edit(tree, Append(reserve, [address |-> a, size |-> s]))
DelMemRsv(n) == Edit(tree, Without(reserve, {n + 1}))

NewProps(i, p, v) ==
  IF PropAt(i, p) = {}
  THEN <<[name |-> p, val |-> v]>> \o tree[i].props
  ELSE [k \in DOMAIN tree[i].props |->
          IF k \in PropAt(i, p) THEN [name |-> p, val |-> v]
          ELSE tree[i].props[k]]

OldValue(i, p) ==
  IF PropAt(i, p) = {} THEN << >>
  ELSE tree[i].props[CHOOSE k \in PropAt(i, p) : TRUE].val

SetProp(i, p, v) == Edit([tree EXCEPT ![i].props = NewProps(i, p, v)], reserve)
AppendProp(i, p, v) == SetProp(i, p, OldValue(i, p) \o v)
DelProp(i, p) ==
  Edit([tree EXCEPT ![i].props = Without(@, PropAt(i, p))], reserve)
SetPropInplace(i, p, v) ==
  IF PropAt(i, p) # {} /\ Len(OldValue(i, p)) = Len(v) THEN SetProp(i, p, v)
  ELSE Edit(tree, reserve)

SetName(i, n) == Edit([tree EXCEPT ![i].name = n], reserve)
AddSubnode(i, n) ==
  IF \E j \in Children(i) : Matches(tree[j].name, n) THEN Edit(tree, reserve)
  ELSE Edit(SubSeq(tree, 1, i)
              \o <<[depth |-> tree[i].depth + 1, name |-> n, props |-> << >>]>>
              \o SubSeq(tree, i + 1, Len(tree)), reserve)
DelNode(i) == Edit(Without(tree, {i} \cup Below(i)), reserve)

Next ==
  \/ \E a \in Addresses, s \in Sizes : Reserve(a, s) \/ AddMemRsv(a, s)
  \/ ReserveDone \/ EndNode \/ Finish
  \/ \E n \in Names : BeginNode(n)
  \/ \E p \in PropNames, v \in Values : Property(p, v)
  \/ \E n \in 0 .. Len(reserve) : DelMemRsv(n)
  \/ \E i \in DOMAIN tree :
       \/ DelNode(i)
       \/ \E n \in Names : SetName(i, n) \/ AddSubnode(i, n)
       \/ \E p \in PropNames :
            \/ DelProp(i, p)
            \/ \E v \in Values :
                 SetProp(i, p, v) \/ AppendProp(i, p, v) \/ SetPropInplace(i, p, v)

Spec == Init /\ [][Next]_vars

=============================================================================
