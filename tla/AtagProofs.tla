----------------------------- MODULE AtagProofs -----------------------------
(***************************************************************************)
(* Proofs about Atag, for every command line and every boot_param that has *)
(* room for the longest list.                                              *)
(***************************************************************************)
EXTENDS Atag, SequenceTheorems, WellFoundedInduction, TLAPS

-----------------------------------------------------------------------------
(* Induction, with a set for the property that is proved.                  *)
Less == {ss \in Nat \X Nat : ss[1] < ss[2]}

(* A set of natural numbers that is not empty has a smallest element. *)
LEMMA Smallest ==
  ASSUME NEW T, T \subseteq Nat, T # {}
  PROVE  \E x \in T : \A y \in T : x <= y
  <1>1. IsWellFoundedOn(Less, Nat)
    BY NatLessThanWellFounded DEF OpToRel, Less
  <1>2. PICK x \in T : \A y \in T : <<y, x>> \notin Less
    BY <1>1, WFMin
  <1>3. ASSUME NEW y \in T PROVE x <= y
    <2>1. x \in Nat /\ y \in Nat /\ <<y, x>> \notin Less
      BY <1>2
    <2>2. ~(y < x)
      BY <2>1 DEF Less
    <2> QED
      BY <2>1, <2>2
  <1> QED
    BY <1>2, <1>3

(* Induction: a set that has 0, and with each number the next one, has     *)
(* all.                                                                    *)
LEMMA Induct ==
  ASSUME NEW S, 0 \in S, \A n \in Nat : n \in S => n + 1 \in S
  PROVE  Nat \subseteq S
  <1> DEFINE T == {n \in Nat : n \notin S}
  <1> SUFFICES ASSUME T # {} PROVE FALSE
    OBVIOUS
  <1>1. PICK x \in T : \A y \in T : x <= y
    <2>1. T \subseteq Nat
      OBVIOUS
    <2> HIDE DEF T
    <2> QED
      BY <2>1, Smallest
  <1>2. x \in Nat /\ x \notin S /\ x # 0
    OBVIOUS
  <1>3. x - 1 \in Nat /\ x - 1 \notin T
    BY <1>1, <1>2
  <1>4. x - 1 \in S
    BY <1>3
  <1>5. (x - 1) + 1 \in S
    BY <1>3, <1>4
  <1> QED
    BY <1>2, <1>5

-----------------------------------------------------------------------------
(* Where the list can have ended after n calls, at most. *)
CmdlineWords == (CmdlineMax + 4) \div 4
Reach == [n \in 0 .. 8 |->
            <<0, 2, 6, 8 + CmdlineWords, 12 + CmdlineWords,
              17 + CmdlineWords, 21 + CmdlineWords, 24 + CmdlineWords,
              26 + CmdlineWords>>[n + 1]]

Inv ==
  /\ TypeOK
  /\ current <= Reach[calls]
  /\ room = 0 => current = 0
  /\ \A a \in Cells : a >= room => buf[a] = Stale
  /\ result = "failed" => room = 0

-----------------------------------------------------------------------------
LEMMA CmdlineFits ==
  ASSUME TypeOK
  PROVE  /\ Len(settings.cmdline) \in Nat
         /\ cmdline_words \in Nat /\ cmdline_words <= CmdlineWords
         /\ strcpy_bytes <= 4 * cmdline_words
         /\ CmdlineWords \in Nat
  <1>1. /\ settings.cmdline \in Seq(Nat \ {NUL})
        /\ Len(settings.cmdline) <= CmdlineMax
    BY AtagAssumption DEF TypeOK
  <1>2. Len(settings.cmdline) \in Nat /\ CmdlineMax \in Nat
    BY <1>1, AtagAssumption
  <1> DEFINE len == Len(settings.cmdline)
             max == CmdlineMax
  <1> HIDE DEF len, max
  <1>3. ASSUME len \in Nat, max \in Nat, len <= max
        PROVE  /\ (len + 4) \div 4 \in Nat /\ (max + 4) \div 4 \in Nat
               /\ (len + 4) \div 4 <= (max + 4) \div 4
               /\ len + 1 <= 4 * ((len + 4) \div 4)
    BY <1>3
  <1> QED
    BY <1>1, <1>2, <1>3 DEF cmdline_words, CmdlineWords, strcpy_bytes, len, max

LEMMA TagSizes ==
  /\ tag_size("CORE") = 2 /\ tag_size("MEM") = 4
  /\ tag_size("CMDLINE") = 2 + cmdline_words
  /\ tag_size("INITRD2") = 4 /\ tag_size("RAMDISK") = 5
  /\ tag_size("SERIAL") = 4 /\ tag_size("REVISION") = 3
  /\ tag_size("NONE") = 2
  BY DEF tag_size, Fields

(* A call never moves the end of the list further than Reach allows.       *)
LEMMA ReachStep ==
  ASSUME TypeOK, calls \in 0 .. 7
  PROVE  /\ tag_size(Calls[calls + 1]) \in Nat
         /\ tag_size(Calls[calls + 1]) >= 2
         /\ Reach[calls] \in Nat /\ Reach[calls + 1] \in Nat
         /\ Reach[calls] + tag_size(Calls[calls + 1]) <= Reach[calls + 1]
         /\ Reach[calls + 1] <= LongestList
  <1>1. cmdline_words \in Nat /\ cmdline_words <= CmdlineWords
        /\ CmdlineWords \in Nat
    BY CmdlineFits
  <1>2. LongestList = 26 + CmdlineWords
    BY DEF LongestList, CmdlineWords
  <1> HIDE DEF CmdlineWords
  <1> USE <1>1, <1>2, TagSizes DEF Reach, Calls
  <1>3. CASE calls = 0 BY <1>3
  <1>4. CASE calls = 1 BY <1>4
  <1>5. CASE calls = 2 BY <1>5
  <1>6. CASE calls = 3 BY <1>6
  <1>7. CASE calls = 4 BY <1>7
  <1>8. CASE calls = 5 BY <1>8
  <1>9. CASE calls = 6 BY <1>9
  <1>10. CASE calls = 7 BY <1>10
  <1> QED BY <1>3, <1>4, <1>5, <1>6, <1>7, <1>8, <1>9, <1>10

(* atag_add writes tag_size words from where it is told to. *)
LEMMA AddWrites ==
  ASSUME TypeOK, NEW head \in Nat, NEW tag \in {Calls[i] : i \in 1 .. 8},
         NEW a \in Cells, a < head \/ a >= head + tag_size(tag)
  PROVE  atag_add(head, tag)[a] = buf[a]
  <1>1. /\ cmdline_words \in Nat /\ strcpy_bytes <= 4 * cmdline_words
        /\ strcpy_bytes \in Nat
    BY CmdlineFits DEF strcpy_bytes
  <1>2. a \in Nat /\ DOMAIN buf = Cells
    BY AtagAssumption DEF Cells, TypeOK
  <1>3. a # head /\ a # head + 1 /\ tag_size(tag) \in Nat
    <2>1. tag_size(tag) \in Nat /\ tag_size(tag) >= 2
      BY <1>1, TagSizes DEF Calls
    <2> QED BY <2>1, <1>2
  <1>4. a - head - 1 \notin DOMAIN Fields(tag)
    <2>1. DOMAIN Fields(tag) \subseteq 1 .. tag_size(tag) - 2
      BY <1>1, TagSizes DEF Calls, Fields
    <2> QED BY <2>1, <1>2, <1>3
  <1>5. ~ /\ tag = "CMDLINE" /\ head + 2 <= a
          /\ 4 * (a - head - 2) < strcpy_bytes
    BY <1>1, <1>2, TagSizes
  <1> QED BY <1>2, <1>3, <1>4, <1>5 DEF atag_add

-----------------------------------------------------------------------------
LEMMA NextInv ==
  ASSUME BufWords >= LongestList
  PROVE  Inv /\ [Next]_vars => Inv'
  <1> SUFFICES ASSUME Inv, [Next]_vars PROVE Inv'
    OBVIOUS
  <1> USE DEF Inv
  <1>1. CASE NoBuffer
    BY <1>1 DEF NoBuffer, TypeOK
  <1>2. CASE Call
    <2> DEFINE tag == Calls[calls + 1]
    <2>1. /\ calls \in 0 .. 7 /\ room = BufWords /\ current \in Nat
          /\ UNCHANGED <<settings, room>>
      BY <1>2 DEF Call, TypeOK, Calls
    <2>2. /\ tag_size(tag) \in Nat /\ tag_size(tag) >= 2
          /\ Reach[calls] \in Nat /\ Reach[calls + 1] \in Nat
          /\ Reach[calls] + tag_size(tag) <= Reach[calls + 1]
          /\ Reach[calls + 1] <= BufWords
      <3>1. LongestList \in Nat /\ BufWords \in Nat
        BY CmdlineFits, AtagAssumption DEF LongestList, CmdlineWords
      <3> QED BY <2>1, <3>1, ReachStep
    <2>3. ~Overrun /\ current + tag_size(tag) <= room
      BY <2>1, <2>2, AtagAssumption DEF Overrun
    <2>4. /\ calls' = calls + 1
          /\ result' \in {"built", "building"}
          /\ \/ /\ buf' = atag_add(current, tag)
                /\ current' = current + tag_size(tag)
             \/ UNCHANGED <<buf, current>>
      BY <1>2, <2>3 DEF Call
    <2>5. CASE UNCHANGED <<buf, current>>
      <3>1. result' = "built" <=> calls' = Len(Calls)
        BY <1>2, <2>1, <2>3 DEF Call, Calls
      <3>2. calls' \in 0 .. Len(Calls)
        BY <2>1, <2>4 DEF Calls
      <3>3. TypeOK'
        BY <2>1, <2>4, <2>5, <3>1, <3>2 DEF TypeOK
      <3>4. current' <= Reach[calls']
        BY <2>1, <2>2, <2>4, <2>5
      <3> QED
        BY <1>2, <2>1, <2>4, <2>5, <3>3, <3>4 DEF Call
    <2>6. CASE /\ buf' = atag_add(current, tag)
               /\ current' = current + tag_size(tag)
      <3>1. DOMAIN buf' = Cells
        BY <2>6 DEF atag_add, TypeOK
      <3>2. current' \in Nat /\ current' <= Reach[calls']
        BY <2>1, <2>2, <2>4, <2>6
      <3>3. \A a \in Cells : a >= room' => buf'[a] = Stale
        <4> SUFFICES ASSUME NEW a \in Cells, a >= room PROVE buf'[a] = Stale
          BY <2>1
        <4>1. a >= current + tag_size(tag) /\ tag \in {Calls[i] : i \in 1 .. 8}
          <5>1. tag \in {Calls[i] : i \in 1 .. 8} /\ a \in Int /\ room \in Int
            BY <2>1, AtagAssumption DEF Cells
          <5> HIDE DEF tag
          <5> QED
            BY <2>1, <2>2, <2>3, <5>1
        <4>2. buf'[a] = buf[a]
          BY <2>1, <2>6, <4>1, AddWrites
        <4> QED BY <4>2
      <3>4. room' # 0
        BY <1>2, <2>1 DEF Call
      <3>5. TypeOK'
        <4>1. result' = "built" <=> calls' = Len(Calls)
          BY <1>2, <2>1, <2>3 DEF Call, Calls
        <4> QED BY <2>1, <2>4, <3>1, <3>2, <4>1 DEF TypeOK, Calls
      <3>6. result' # "failed"
        BY <2>4
      <3> QED BY <3>2, <3>3, <3>4, <3>5, <3>6
    <2> QED BY <2>4, <2>5, <2>6
  <1>3. CASE UNCHANGED vars
    BY <1>3 DEF vars, TypeOK
  <1> QED BY <1>1, <1>2, <1>3 DEF Next

LEMMA InitInv == Init => Inv
  <1> SUFFICES ASSUME Init PROVE Inv
    OBVIOUS
  <1>1. Reach[0] = 0
    BY DEF Reach
  <1> QED BY <1>1 DEF Init, Inv, TypeOK, Calls, Cells

(* With room for the longest list every reachable state has its types, and *)
(* a list is built exactly when the last of the calls has been made.       *)
THEOREM TypeCorrect ==
  ASSUME BufWords >= LongestList
  PROVE  Spec => []TypeOK
  <1>1. Inv => TypeOK
    BY DEF Inv
  <1> QED BY <1>1, InitInv, NextInv, PTL DEF Spec

LEMMA StaysInside ==
  ASSUME BufWords >= LongestList, Inv PROVE NoOverrun
  <1> SUFFICES current <= room
    BY DEF Inv, NoOverrun
  <1>1. CASE room = 0
    BY <1>1 DEF Inv
  <1>2. CASE room # 0
    <2>1. \A n \in 0 .. 8 : Reach[n] <= LongestList /\ Reach[n] \in Int
      <3>1. CmdlineWords \in Nat /\ LongestList = 26 + CmdlineWords
        BY CmdlineFits DEF Inv, LongestList, CmdlineWords
      <3> HIDE DEF CmdlineWords
      <3> SUFFICES ASSUME NEW n \in 0 .. 8
                   PROVE  Reach[n] <= LongestList /\ Reach[n] \in Int
        OBVIOUS
      <3> USE <3>1 DEF Reach
      <3>2. CASE n = 0 BY <3>2
      <3>3. CASE n = 1 BY <3>3
      <3>4. CASE n = 2 BY <3>4
      <3>5. CASE n = 3 BY <3>5
      <3>6. CASE n = 4 BY <3>6
      <3>7. CASE n = 5 BY <3>7
      <3>8. CASE n = 6 BY <3>8
      <3>9. CASE n = 7 BY <3>9
      <3>10. CASE n = 8 BY <3>10
      <3> QED BY <3>2, <3>3, <3>4, <3>5, <3>6, <3>7, <3>8, <3>9, <3>10
    <2>2. calls \in 0 .. 8 /\ room = BufWords /\ current \in Nat
      BY <1>2 DEF Inv, TypeOK, Calls
    <2>3. LongestList \in Int
      BY CmdlineFits DEF Inv, LongestList, CmdlineWords
    <2>4. current <= Reach[calls] /\ BufWords \in Nat
      BY AtagAssumption DEF Inv
    <2>5. Reach[calls] <= LongestList /\ Reach[calls] \in Int
      BY <2>1, <2>2
    <2> QED BY <2>2, <2>3, <2>4, <2>5
  <1> QED BY <1>1, <1>2

(* For every command line and all settings: with room for the longest list *)
(* atag_build stays inside boot_param and never gives up.                  *)
THEOREM NeverOverruns ==
  ASSUME BufWords >= LongestList
  PROVE  Spec => []NoOverrun
  <1>1. Inv => NoOverrun
    BY StaysInside
  <1> QED BY <1>1, InitInv, NextInv, PTL DEF Spec

-----------------------------------------------------------------------------
(* Where each call has put its tag, and the words it has written there.    *)
Tags == {Calls[i] : i \in 1 .. 8}
Size(i) == IF Wanted(Calls[i]) THEN tag_size(Calls[i]) ELSE 0
Heads ==
  [n \in 0 .. 8 |->
     CASE n = 0 -> 0
       [] n = 1 -> Size(1)
       [] n = 2 -> Size(1) + Size(2)
       [] n = 3 -> (Size(1) + Size(2)) + Size(3)
       [] n = 4 -> ((Size(1) + Size(2)) + Size(3)) + Size(4)
       [] n = 5 -> (((Size(1) + Size(2)) + Size(3)) + Size(4)) + Size(5)
       [] n = 6 -> ((((Size(1) + Size(2)) + Size(3)) + Size(4)) + Size(5)) + Size(6)
       [] n = 7 -> (((((Size(1) + Size(2)) + Size(3)) + Size(4)) + Size(5)) + Size(6))
                     + Size(7)
       [] n = 8 -> ((((((Size(1) + Size(2)) + Size(3)) + Size(4)) + Size(5)) + Size(6))
                      + Size(7)) + Size(8)]

Stored(p, tag) ==
  /\ buf[p] = <<hdr_size(tag)>>
  /\ buf[p + 1] = <<ATAG[tag]>>
  /\ \A k \in DOMAIN Fields(tag) : buf[(p + 1) + k] = <<Fields(tag)[k]>>
  /\ tag = "CMDLINE" =>
       \A k \in 0 .. cmdline_words - 1 : buf[(p + 2) + k] = CopiedWord(k)

ListInv ==
  /\ current = Heads[calls]
  /\ \A i \in 1 .. calls : Wanted(Calls[i]) => Stored(Heads[i - 1], Calls[i])

LEMMA TagFacts ==
  ASSUME TypeOK, NEW tag \in Tags
  PROVE  /\ tag_size(tag) \in Nat /\ tag_size(tag) >= 2
         /\ DOMAIN Fields(tag) \subseteq 1 .. tag_size(tag) - 2
         /\ tag = "CMDLINE" =>
              tag_size(tag) = 2 + cmdline_words /\ Fields(tag) = << >>
         /\ cmdline_words \in Nat
  <1>1. cmdline_words \in Nat
    BY CmdlineFits
  <1>2. tag \in {"CORE", "MEM", "CMDLINE", "INITRD2", "RAMDISK", "SERIAL",
                 "REVISION", "NONE"}
    BY DEF Tags, Calls
  <1>3. tag_size(tag) \in Nat /\ tag_size(tag) >= 2
    BY <1>1, <1>2, TagSizes
  <1>4. DOMAIN Fields(tag) \subseteq 1 .. tag_size(tag) - 2
    BY <1>1, <1>2, TagSizes DEF Fields
  <1> QED
    BY <1>1, <1>3, <1>4, TagSizes DEF Fields

LEMMA HeadsStep ==
  ASSUME TypeOK
  PROVE  /\ Heads[0] = 0
         /\ \A i \in 1 .. 8 : /\ Calls[i] \in Tags /\ Size(i) \in Nat
                              /\ Heads[i - 1] \in Nat /\ Heads[i] \in Nat
                             /\ Heads[i] = Heads[i - 1] + Size(i)
  <1>1. \A i \in 1 .. 8 : Calls[i] \in Tags /\ Size(i) \in Nat
    BY TagFacts DEF Tags, Size
  <1>2. /\ Size(1) \in Nat /\ Size(2) \in Nat /\ Size(3) \in Nat /\ Size(4) \in Nat
        /\ Size(5) \in Nat /\ Size(6) \in Nat /\ Size(7) \in Nat /\ Size(8) \in Nat
    BY <1>1
  <1>3. Heads[0] = 0
    BY DEF Heads
  <1> SUFFICES ASSUME NEW i \in 1 .. 8
               PROVE  /\ Heads[i - 1] \in Nat /\ Heads[i] \in Nat
                      /\ Heads[i] = Heads[i - 1] + Size(i)
    BY <1>1, <1>3
  <1> USE <1>2 DEF Heads
  <1>4. CASE i = 1 BY <1>4
  <1>5. CASE i = 2 BY <1>5
  <1>6. CASE i = 3 BY <1>6
  <1>7. CASE i = 4 BY <1>7
  <1>8. CASE i = 5 BY <1>8
  <1>9. CASE i = 6 BY <1>9
  <1>10. CASE i = 7 BY <1>10
  <1>11. CASE i = 8 BY <1>11
  <1>12. \/ i = 1 \/ i = 2 \/ i = 3 \/ i = 4 \/ i = 5 \/ i = 6 \/ i = 7 \/ i = 8
    OBVIOUS
  <1> QED
    BY <1>4, <1>5, <1>6, <1>7, <1>8, <1>9, <1>10, <1>11, <1>12, Zenon

LEMMA HeadsAscend ==
  ASSUME TypeOK, NEW i \in 1 .. 8, NEW j \in i .. 8 PROVE Heads[i] <= Heads[j]
  <1> DEFINE T == {n \in Nat : i + n <= 8 => Heads[i] <= Heads[i + n]}
  <1>1. 0 \in T
    BY HeadsStep
  <1>2. ASSUME NEW n \in Nat, n \in T PROVE n + 1 \in T
    <2> SUFFICES ASSUME i + (n + 1) <= 8 PROVE Heads[i] <= Heads[i + (n + 1)]
      OBVIOUS
    <2> DEFINE m == i + (n + 1)
    <2>1. m \in 1 .. 8 /\ i + n = m - 1 /\ i + n <= 8
      OBVIOUS
    <2>2. Heads[i] <= Heads[m - 1]
      BY <1>2, <2>1
    <2> HIDE DEF m
    <2>3. Heads[m - 1] \in Nat /\ Size(m) \in Nat /\ Heads[m] = Heads[m - 1] + Size(m)
          /\ Heads[i] \in Nat
      BY <2>1, HeadsStep
    <2> QED
      BY <2>2, <2>3 DEF m
  <1> HIDE DEF T
  <1>3. Nat \subseteq T
    BY <1>1, <1>2, Induct
  <1>4. j - i \in Nat /\ i + (j - i) = j /\ j <= 8
    OBVIOUS
  <1> QED
    BY <1>3, <1>4 DEF T

(* There is room for the next tag. *)
LEMMA RoomLeft ==
  ASSUME BufWords >= LongestList, Inv, calls \in 0 .. 7
  PROVE  /\ current \in Nat
         /\ current + tag_size(Calls[calls + 1]) <= BufWords
         /\ current <= BufWords
  <1>1. LongestList \in Nat /\ BufWords \in Nat
    BY CmdlineFits, AtagAssumption DEF Inv, LongestList, CmdlineWords
  <1>2. current \in Nat /\ current <= Reach[calls] /\ TypeOK
    BY DEF Inv, TypeOK
  <1> QED
    BY <1>1, <1>2, ReachStep

LEMMA SameSettings ==
  ASSUME settings' = settings
  PROVE  /\ Heads' = Heads
         /\ \A t : (Wanted(t)' <=> Wanted(t)) /\ Fields(t)' = Fields(t)
                  /\ hdr_size(t)' = hdr_size(t)
         /\ \A k : CopiedWord(k)' = CopiedWord(k)
         /\ cmdline_words' = cmdline_words
  <1>1. \A t : (Wanted(t)' <=> Wanted(t)) /\ Fields(t)' = Fields(t)
    BY DEF Wanted, Fields
  <1>2. cmdline_words' = cmdline_words
    BY DEF cmdline_words
  <1>3. \A t : tag_size(t)' = tag_size(t)
    BY <1>1, <1>2 DEF tag_size
  <1>4. \A i : Size(i)' = Size(i)
    BY <1>1, <1>3 DEF Size
  <1>5. Heads' = Heads
    BY <1>4 DEF Heads
  <1>6. \A k : CopiedWord(k)' = CopiedWord(k)
    BY DEF CopiedWord, strcpy_bytes
  <1> QED
    BY <1>1, <1>2, <1>3, <1>5, <1>6 DEF hdr_size

(* A tag that another one is added behind stays as it is. *)
LEMMA StoredKept ==
  ASSUME TypeOK, settings' = settings, NEW head \in Nat, head <= BufWords,
         NEW tag \in Tags, buf' = atag_add(head, tag),
         NEW p \in Nat, NEW t \in Tags, p + tag_size(t) <= head, Stored(p, t)
  PROVE  Stored(p, t)'
  <1> DEFINE n == tag_size(t)
             f == Fields(t)
  <1>1. n \in Nat /\ n >= 2 /\ DOMAIN f \subseteq 1 .. n - 2
        /\ (t = "CMDLINE" => n = 2 + cmdline_words) /\ cmdline_words \in Nat
    BY TagFacts
  <1> HIDE DEF n, f
  <1>2. ASSUME NEW a \in Int, p <= a, a < p + n PROVE buf'[a] = buf[a]
    <2>1. a < head
      BY <1>1, <1>2 DEF n
    <2>2. a \in Cells
      BY <1>2, <2>1, AtagAssumption DEF Cells
    <2> QED
      BY <2>1, <2>2, AddWrites DEF Tags
  <1>3. buf'[p] = buf[p] /\ buf'[p + 1] = buf[p + 1]
    BY <1>1, <1>2
  <1>4. ASSUME NEW k \in DOMAIN f PROVE buf'[(p + 1) + k] = buf[(p + 1) + k]
    BY <1>1, <1>2
  <1>5. ASSUME t = "CMDLINE", NEW k \in 0 .. cmdline_words - 1
        PROVE  buf'[(p + 2) + k] = buf[(p + 2) + k]
    BY <1>1, <1>2, <1>5
  <1> QED
    BY <1>3, <1>4, <1>5, SameSettings DEF Stored, f

LEMMA StoredNew ==
  ASSUME TypeOK, settings' = settings, NEW head \in Nat, NEW tag \in Tags,
         head + tag_size(tag) <= BufWords, buf' = atag_add(head, tag)
  PROVE  Stored(head, tag)'
  <1> DEFINE n == tag_size(tag)
             f == Fields(tag)
  <1>1. n \in Nat /\ n >= 2 /\ DOMAIN f \subseteq 1 .. n - 2
        /\ (tag = "CMDLINE" => n = 2 + cmdline_words /\ f = << >>)
        /\ cmdline_words \in Nat
    BY TagFacts
  <1>2. Len(settings.cmdline) \in Nat
        /\ cmdline_words = (Len(settings.cmdline) + 4) \div 4
        /\ strcpy_bytes = Len(settings.cmdline) + 1
    BY CmdlineFits DEF cmdline_words, strcpy_bytes
  <1>3. \A a \in Int : head <= a /\ a < head + n => a \in DOMAIN buf
    BY <1>1, AtagAssumption DEF Cells, TypeOK
  <1>4. ASSUME NEW a \in DOMAIN buf
        PROVE  buf'[a] = CASE a = head     -> <<hdr_size(tag)>>
                           [] a = head + 1 -> <<ATAG[tag]>>
                           [] a - head - 1 \in DOMAIN f -> <<f[a - head - 1]>>
                           [] /\ tag = "CMDLINE" /\ head + 2 <= a
                              /\ 4 * (a - head - 2) < strcpy_bytes ->
                                CopiedWord(a - head - 2)
                           [] OTHER -> buf[a]
    BY DEF atag_add
  <1> HIDE DEF n, f
  <1>5. buf'[head] = <<hdr_size(tag)>> /\ buf'[head + 1] = <<ATAG[tag]>>
    <2>1. head \in DOMAIN buf /\ head + 1 \in DOMAIN buf
      BY <1>1, <1>3
    <2>2. head - head - 1 \notin DOMAIN f /\ (head + 1) - head - 1 \notin DOMAIN f
      BY <1>1
    <2>3. ~(head + 2 <= head) /\ ~(head + 2 <= head + 1) /\ head # head + 1
      OBVIOUS
    <2> QED
      BY <1>4, <2>1, <2>2, <2>3
  <1>6. ASSUME NEW k \in DOMAIN f PROVE buf'[(head + 1) + k] = <<f[k]>>
    <2> DEFINE a == (head + 1) + k
    <2>1. k \in 1 .. n - 2
      BY <1>1
    <2>2. a \in Int /\ a # head /\ a # head + 1 /\ a - head - 1 = k
          /\ a < head + n /\ head <= a
      BY <1>1, <2>1
    <2>3. a \in DOMAIN buf
      BY <1>3, <2>2
    <2>4. tag # "CMDLINE"
      BY <1>1
    <2> HIDE DEF a
    <2>5. buf'[a] = <<f[k]>>
      BY <1>4, <2>2, <2>3, <2>4
    <2> QED
      BY <2>5 DEF a
  <1>7. ASSUME tag = "CMDLINE", NEW k \in 0 .. cmdline_words - 1
        PROVE  buf'[(head + 2) + k] = CopiedWord(k)
    <2> DEFINE a == (head + 2) + k
    <2>1. 4 * k < strcpy_bytes
      <3> DEFINE len == Len(settings.cmdline)
      <3>0. len \in Nat /\ cmdline_words = (len + 4) \div 4
        BY <1>2
      <3>1. len \in Nat /\ k \in Nat /\ k <= (len + 4) \div 4 - 1
        <4> HIDE DEF len
        <4> QED
          BY <1>1, <3>0
      <3> HIDE DEF len
      <3>2. 4 * k <= len
        BY <3>1
      <3> QED
        BY <1>2, <3>1, <3>2 DEF len
    <2>2. a \in Int /\ a # head /\ a # head + 1 /\ a - head - 2 = k
          /\ a < head + n /\ head + 2 <= a
      BY <1>1, <1>7
    <2>3. a \in DOMAIN buf
      BY <1>3, <2>2
    <2>4. a - head - 1 \notin DOMAIN f
      BY <1>1, <1>7
    <2> HIDE DEF a
    <2>5. buf'[a] = CopiedWord(k)
      BY <1>4, <1>7, <2>1, <2>2, <2>3, <2>4
    <2> QED
      BY <2>5 DEF a
  <1> QED
    BY <1>5, <1>6, <1>7, SameSettings DEF Stored, f

LEMMA ListNext ==
  ASSUME BufWords >= LongestList, Inv, ListInv, [Next]_vars
  PROVE  ListInv'
  <1>0. TypeOK
    BY DEF Inv
  <1>1. CASE NoBuffer \/ UNCHANGED vars
    <2>1. settings' = settings /\ calls' = calls /\ current' = current /\ buf' = buf
      BY <1>1 DEF NoBuffer, vars
    <2>2. \A p, t : Stored(p, t)' <=> Stored(p, t)
      BY <2>1, SameSettings DEF Stored
    <2> QED
      BY <2>1, <2>2, SameSettings DEF ListInv
  <1>2. CASE Call
    <2>0. calls \in 0 .. 7
      BY <1>0, <1>2 DEF Call, TypeOK, Calls
    <2>n. PICK n \in 1 .. 8 : n = calls + 1
      BY <2>0
    <2> DEFINE tag == Calls[n]
    <2>1. n - 1 = calls /\ room = BufWords /\ settings' = settings
      BY <1>0, <1>2, <2>0, <2>n DEF Call, TypeOK
    <2>h. PICK head \in Nat : head = current
      BY <1>0 DEF TypeOK
    <2>2. /\ tag \in Tags /\ Heads[n - 1] \in Nat /\ Heads[n] = Heads[n - 1] + Size(n)
          /\ head = Heads[n - 1]
      BY <1>0, <2>1, <2>h, HeadsStep DEF ListInv
    <2>3. Inv'
      BY NextInv
    <2>4. result' # "failed"
      BY <1>2, <2>1, <2>3 DEF Inv, Call
    <2>5. /\ calls' = n
          /\ Wanted(tag) => buf' = atag_add(head, tag)
                            /\ current' = head + tag_size(tag)
          /\ ~Wanted(tag) => buf' = buf /\ current' = head
      BY <1>2, <2>4, <2>n, <2>h DEF Call
    <2>6. current' = Heads'[calls']
      <3>1. current' = Heads[n]
        BY <2>2, <2>5 DEF Size
      <3> QED
        BY <2>1, <2>5, <3>1, SameSettings
    <2>7. \A i \in 1 .. calls : Wanted(Calls[i]) => Stored(Heads[i - 1], Calls[i])
      BY DEF ListInv
    <2>8. head + tag_size(tag) <= BufWords /\ head <= BufWords
      BY <2>0, <2>n, <2>h, RoomLeft
    <2> HIDE DEF tag
    <2>9. ASSUME NEW i \in 1 .. n, Wanted(Calls[i])
          PROVE  Stored(Heads[i - 1], Calls[i])'
      <3> DEFINE t == Calls[i]
      <3>0. i \in 1 .. 8
        OBVIOUS
      <3>p. PICK p \in Nat : p = Heads[i - 1]
        BY <1>0, <3>0, HeadsStep
      <3> SUFFICES Stored(p, t)'
        <4>1. Heads'[i - 1] = p
          BY <2>1, <3>p, SameSettings
        <4> QED
          BY <4>1
      <3>1. CASE ~Wanted(tag)
        <4>1. i \in 1 .. calls
          BY <2>1, <2>9, <3>1 DEF tag
        <4>2. Stored(p, t)
          BY <2>7, <2>9, <3>p, <4>1
        <4> QED
          BY <2>1, <2>5, <3>1, <4>2, SameSettings DEF Stored
      <3>2. CASE Wanted(tag) /\ i # n
        <4>1. i \in 1 .. calls
          BY <2>1, <3>2
        <4>2. t \in Tags /\ Heads[i] = p + tag_size(t)
          BY <1>0, <2>9, <3>0, <3>p, HeadsStep DEF Size
        <4>3. Heads[i] <= Heads[n - 1]
          <5>1. n - 1 \in i .. 8
            BY <3>2
          <5> QED
            BY <1>0, <3>0, <5>1, HeadsAscend
        <4>4. Stored(p, t)
          BY <2>7, <2>9, <3>p, <4>1
        <4> HIDE DEF t
        <4>5. p + tag_size(t) <= head
          BY <2>2, <4>2, <4>3
        <4> QED
          BY <1>0, <2>1, <2>2, <2>5, <2>8, <3>2, <4>2, <4>4, <4>5, StoredKept
      <3>3. CASE Wanted(tag) /\ i = n
        <4>1. t = tag /\ p = head
          BY <2>2, <3>3, <3>p DEF tag
        <4>2. Stored(head, tag)'
          BY <1>0, <2>1, <2>2, <2>5, <2>8, <3>3, StoredNew
        <4> QED
          BY <4>1, <4>2 DEF tag
      <3> QED
        BY <3>1, <3>2, <3>3
    <2> QED
      BY <2>1, <2>5, <2>6, <2>9, SameSettings DEF ListInv
  <1> QED
    BY <1>1, <1>2 DEF Next

-----------------------------------------------------------------------------
(* What the reader makes of a tag that has been stored.                    *)
LEMMA BytesRead ==
  ASSUME TypeOK, NEW p \in Nat, Stored(p, "CMDLINE"),
         NEW i \in 0 .. 4 * cmdline_words - 1
  PROVE  buf[(p + 2) + (i \div 4)][(i % 4) + 1]
           = IF i < Len(settings.cmdline) THEN settings.cmdline[i + 1]
             ELSE IF i = Len(settings.cmdline) THEN NUL ELSE -1
  <1> DEFINE k == i \div 4
             j == (i % 4) + 1
             len == Len(settings.cmdline)
  <1>1. len \in Nat /\ strcpy_bytes = len + 1 /\ cmdline_words \in Nat
    BY CmdlineFits DEF strcpy_bytes
  <1>2. i \in Nat /\ i < 4 * cmdline_words
    BY <1>1
  <1>3. k \in 0 .. cmdline_words - 1 /\ j \in 1 .. 4 /\ 4 * k + j = i + 1
    <2>1. \A n, w \in Nat : n < 4 * w =>
            /\ n \div 4 \in 0 .. w - 1 /\ (n % 4) + 1 \in 1 .. 4
            /\ 4 * (n \div 4) + ((n % 4) + 1) = n + 1
      OBVIOUS
    <2> QED
      BY <1>1, <1>2, <2>1
  <1> HIDE DEF k, j, len
  <1>4. buf[(p + 2) + k] = CopiedWord(k)
    BY <1>3 DEF Stored
  <1>5. CopiedWord(k)[j] = CASE 4 * k + j < strcpy_bytes -> settings.cmdline[4 * k + j]
                             [] 4 * k + j = strcpy_bytes -> NUL
                             [] 4 * k + j > strcpy_bytes -> -1
    BY <1>3 DEF CopiedWord
  <1>6. buf[(p + 2) + k][j] = IF i < len THEN settings.cmdline[i + 1]
                              ELSE IF i = len THEN NUL ELSE -1
    BY <1>1, <1>2, <1>3, <1>4, <1>5
  <1> QED
    BY <1>6 DEF k, j, len

LEMMA StringRead ==
  ASSUME TypeOK, NEW p \in Nat, Stored(p, "CMDLINE")
  PROVE  String(p + 2, cmdline_words) = settings.cmdline
  <1> DEFINE len == Len(settings.cmdline)
             w == cmdline_words
             byte(i) == buf[(p + 2) + (i \div 4)][(i % 4) + 1]
             nuls == {i \in 0 .. 4 * w - 1 : byte(i) = NUL}
  <1>1. /\ len \in Nat /\ w \in Nat /\ len + 1 <= 4 * w
        /\ settings.cmdline \in Seq(Nat \ {NUL})
    <2>1. settings.cmdline \in Seq(Nat \ {NUL})
      BY AtagAssumption DEF TypeOK
    <2> QED
      BY <2>1, CmdlineFits DEF strcpy_bytes
  <1>2. ASSUME NEW i \in 0 .. 4 * w - 1
        PROVE  byte(i) = IF i < len THEN settings.cmdline[i + 1]
                         ELSE IF i = len THEN NUL ELSE -1
    BY BytesRead
  <1>3. String(p + 2, w)
          = IF nuls = {} THEN <<NUL>>
            ELSE [i \in 1 .. (CHOOSE n \in nuls : \A m \in nuls : n <= m) |->
                    byte(i - 1)]
    BY DEF String
  <1> HIDE DEF len, w, byte
  <1>4. nuls = {len}
    <2>1. len \in nuls
      BY <1>1, <1>2
    <2>2. ASSUME NEW i \in nuls PROVE i = len
      <3>1. i \in 0 .. 4 * w - 1 /\ byte(i) = NUL
        OBVIOUS
      <3>2. i < len => settings.cmdline[i + 1] \in Nat \ {NUL}
        BY <1>1, <3>1 DEF len
      <3> QED
        BY <1>1, <1>2, <3>1, <3>2 DEF NUL
    <2> QED
      BY <2>1, <2>2
  <1>5. (CHOOSE n \in nuls : \A m \in nuls : n <= m) = len
    <2> HIDE DEF nuls
    <2>1. \A n \in nuls : n = len
      BY <1>4
    <2>2. \E n \in nuls : \A m \in nuls : n <= m
      BY <1>1, <1>4
    <2>3. (CHOOSE n \in nuls : \A m \in nuls : n <= m) \in nuls
      BY <2>2
    <2> QED
      BY <2>1, <2>3
  <1>6. String(p + 2, w) = [i \in 1 .. len |-> byte(i - 1)]
    <2> HIDE DEF nuls
    <2>1. nuls # {}
      BY <1>4
    <2> QED
      BY <1>3, <1>5, <2>1
  <1>7. ASSUME NEW i \in 1 .. len PROVE byte(i - 1) = settings.cmdline[i]
    <2>1. i - 1 \in 0 .. 4 * w - 1 /\ i - 1 < len /\ (i - 1) + 1 = i
      BY <1>1
    <2> QED
      BY <1>2, <2>1
  <1>8. settings.cmdline = [i \in 1 .. len |-> settings.cmdline[i]]
    BY <1>1 DEF len
  <1> QED
    BY <1>6, <1>7, <1>8 DEF w

LEMMA TagRead ==
  ASSUME TypeOK, NEW p \in Nat, NEW t \in Tags, t # "NONE", Stored(p, t)
  PROVE  /\ buf[p][1] = tag_size(t)
         /\ TagAt(p) = Tag(t)
  <1> DEFINE words == buf[p][1] - 2
             id == buf[p + 1][1]
  <1>1. t \in {"CORE", "MEM", "CMDLINE", "INITRD2", "RAMDISK", "SERIAL", "REVISION"}
    BY DEF Tags, Calls
  <1>2. buf[p][1] = tag_size(t) /\ id = ATAG[t]
    BY DEF Stored, hdr_size
  <1>3. id = ATAG["CMDLINE"] <=> t = "CMDLINE"
    BY <1>1, <1>2 DEF ATAG
  <1>4. TagAt(p) = [id |-> id,
                    fields |-> IF id = ATAG["CMDLINE"] THEN String(p + 2, words)
                               ELSE [k \in 1 .. words |-> buf[(p + 1) + k][1]]]
    BY DEF TagAt
  <1> HIDE DEF id
  <1>5. CASE t = "CMDLINE"
    <2>1. words = cmdline_words
      BY <1>2, <1>5, TagSizes, CmdlineFits
    <2>2. String(p + 2, words) = settings.cmdline
      BY <1>5, <2>1, StringRead
    <2> QED
      BY <1>2, <1>3, <1>4, <1>5, <2>2 DEF Tag
  <1>6. CASE t # "CMDLINE"
    <2> DEFINE f == Fields(t)
    <2>1. words = Len(f) /\ Len(f) \in Nat
          /\ f = [k \in 1 .. Len(f) |-> f[k]]
      <3>1. Len(f) \in Nat /\ f = [k \in 1 .. Len(f) |-> f[k]]
        <4>1. CASE t = "CORE" BY <4>1 DEF Fields
        <4>2. CASE t = "MEM" BY <4>2 DEF Fields
        <4>3. CASE t = "INITRD2" BY <4>3 DEF Fields
        <4>4. CASE t = "RAMDISK" BY <4>4 DEF Fields
        <4>5. CASE t = "SERIAL" BY <4>5 DEF Fields
        <4>6. CASE t = "REVISION" BY <4>6 DEF Fields
        <4> QED BY <1>1, <1>6, <4>1, <4>2, <4>3, <4>4, <4>5, <4>6
      <3>2. tag_size(t) = 2 + Len(f)
        BY <1>6 DEF tag_size
      <3> HIDE DEF f
      <3> QED
        BY <1>2, <3>1, <3>2
    <2>2. \A k \in 1 .. Len(f) : buf[(p + 1) + k][1] = f[k]
      <3>1. \A k \in DOMAIN f : buf[(p + 1) + k] = <<f[k]>>
        BY DEF Stored
      <3> HIDE DEF f
      <3>2. DOMAIN f = 1 .. Len(f)
        BY <2>1
      <3> QED
        BY <3>1, <3>2
    <2> HIDE DEF f, words
    <2>3. [k \in 1 .. words |-> buf[(p + 1) + k][1]] = f
      BY <2>1, <2>2
    <2> QED
      BY <1>2, <1>3, <1>4, <1>6, <2>3 DEF Tag, f
  <1> QED
    BY <1>2, <1>5, <1>6

-----------------------------------------------------------------------------
(* The reader goes on behind every tag: TagsFrom refers to itself further  *)
(* up in the buffer, so first that there is such a function, from the end  *)
(* of the buffer down.                                                     *)
Reads(f, p) ==
  LET next == p + buf[p][1] IN
  IF next = p \/ next \notin p .. BufWords THEN << >>
  ELSE <<TagAt(p)>> \o f[next]
ReadsUpto(n, f) == f = [p \in BufWords - n .. BufWords |-> Reads(f, p)]

LEMMA ReaderExists ==
  \A p \in 0 .. BufWords : TagsFrom[p] = Reads(TagsFrom, p)
  <1> DEFINE T == {n \in Nat : \E f : ReadsUpto(n, f)}
             N == BufWords
  <1>0. N \in Nat
    BY AtagAssumption
  <1>1. ASSUME NEW f, NEW g, NEW p \in Int, \A q \in p + 1 .. N : f[q] = g[q]
        PROVE  Reads(f, p) = Reads(g, p)
    <2> DEFINE next == p + buf[p][1]
    <2>1. CASE next = p \/ next \notin p .. N
      BY <2>1 DEF Reads
    <2>2. CASE ~(next = p \/ next \notin p .. N)
      <3>1. next \in p + 1 .. N
        <4> HIDE DEF next
        <4> QED
          BY <2>2, <1>0
      <3> QED
        BY <1>1, <2>2, <3>1 DEF Reads
    <2> QED
      BY <2>1, <2>2
  <1>2. 0 \in T
    <2> DEFINE g == [p \in N - 0 .. N |-> Reads(<< >>, p)]
    <2>1. ASSUME NEW p \in N - 0 .. N PROVE Reads(<< >>, p) = Reads(g, p)
      <3>1. p \in Int /\ p + 1 .. N = {}
        BY <1>0
      <3> HIDE DEF g
      <3> QED
        BY <1>1, <3>1
    <2>2. g = [p \in N - 0 .. N |-> Reads(g, p)]
      <3> DEFINE h == [p \in N - 0 .. N |-> Reads(g, p)]
      <3>1. g = h
        BY <2>1
      <3> QED
        BY <3>1
    <2> HIDE DEF g
    <2> QED
      BY <2>2 DEF ReadsUpto
  <1>3. ASSUME NEW n \in Nat, n \in T PROVE n + 1 \in T
    <2>1. PICK f : ReadsUpto(n, f)
      BY <1>3
    <2> DEFINE g == [p \in N - (n + 1) .. N |-> Reads(f, p)]
               h == [p \in N - (n + 1) .. N |-> Reads(g, p)]
    <2>2. ASSUME NEW q \in N - n .. N PROVE f[q] = g[q]
      <3>1. f[q] = Reads(f, q)
        BY <2>1 DEF ReadsUpto
      <3>2. q \in N - (n + 1) .. N
        BY <1>0
      <3> QED
        BY <3>1, <3>2
    <2>3. ASSUME NEW p \in N - (n + 1) .. N PROVE Reads(f, p) = Reads(g, p)
      <3>1. p \in Int /\ p + 1 .. N \subseteq N - n .. N
        BY <1>0
      <3> HIDE DEF g
      <3> QED
        BY <1>1, <2>2, <3>1
    <2>4. g = h
      BY <2>3
    <2>5. ReadsUpto(n + 1, g)
      BY <2>4 DEF ReadsUpto
    <2> HIDE DEF g
    <2> QED
      BY <2>5
  <1>4. \E f : ReadsUpto(N, f)
    <2> HIDE DEF T
    <2>1. Nat \subseteq T
      BY <1>2, <1>3, Induct
    <2>2. N \in T
      BY <1>0, <2>1
    <2> QED
      BY <2>2 DEF T
  <1>5. N - N = 0
    BY <1>0
  <1>6. \E f : f = [p \in 0 .. N |-> Reads(f, p)]
    BY <1>4, <1>5 DEF ReadsUpto
  <1>7. TagsFrom = CHOOSE f : f = [p \in 0 .. N |-> Reads(f, p)]
    BY DEF TagsFrom, Reads
  <1>8. TagsFrom = [p \in 0 .. N |-> Reads(TagsFrom, p)]
    BY <1>6, <1>7
  <1> QED
    BY <1>8

(* What settings asks for, from one of the calls on. *)
Part(i) == IF Wanted(Calls[i]) THEN <<Tag(Calls[i])>> ELSE << >>
TagValues == {Tag(t) : t \in Tags}
From7 == Part(7) \o << >>
From6 == Part(6) \o From7
From5 == Part(5) \o From6
From4 == Part(4) \o From5
From3 == Part(3) \o From4
From2 == Part(2) \o From3
From1 == Part(1) \o From2
AskedFrom(i) == IF i = 8 THEN << >>
                ELSE <<From1, From2, From3, From4, From5, From6, From7>>[i]

LEMMA AskedFromIs ==
  /\ AskedFrom(8) = << >>
  /\ \A i \in 1 .. 7 : /\ AskedFrom(i) = Part(i) \o AskedFrom(i + 1)
                       /\ Part(i) \in Seq(TagValues)
                       /\ AskedFrom(i + 1) \in Seq(TagValues)
  <1> DEFINE S == Seq(TagValues)
  <1>1. ASSUME NEW i \in 1 .. 7 PROVE Part(i) \in S
    <2>1. Tag(Calls[i]) \in TagValues
      BY DEF TagValues, Tags
    <2>2. <<Tag(Calls[i])>> \in S /\ << >> \in S
      BY <2>1
    <2> QED
      BY <2>2 DEF Part
  <1>2. ASSUME NEW x \in S, NEW y \in S PROVE x \o y \in S
    BY <1>2, ConcatProperties
  <1>3. << >> \in S
    OBVIOUS
  <1> HIDE DEF S
  <1>4. From7 \in S /\ From6 \in S /\ From5 \in S /\ From4 \in S /\ From3 \in S
        /\ From2 \in S
    <2>1. From7 \in S
      BY <1>1, <1>2, <1>3 DEF From7
    <2>2. From6 \in S
      BY <1>1, <1>2, <2>1 DEF From6
    <2>3. From5 \in S
      BY <1>1, <1>2, <2>2 DEF From5
    <2>4. From4 \in S
      BY <1>1, <1>2, <2>3 DEF From4
    <2>5. From3 \in S
      BY <1>1, <1>2, <2>4 DEF From3
    <2>6. From2 \in S
      BY <1>1, <1>2, <2>5 DEF From2
    <2> QED
      BY <2>1, <2>2, <2>3, <2>4, <2>5, <2>6
  <1>5. /\ AskedFrom(1) = From1 /\ AskedFrom(2) = From2 /\ AskedFrom(3) = From3
        /\ AskedFrom(4) = From4 /\ AskedFrom(5) = From5 /\ AskedFrom(6) = From6
        /\ AskedFrom(7) = From7 /\ AskedFrom(8) = << >>
    BY DEF AskedFrom
  <1>6. ASSUME NEW i \in 1 .. 7 PROVE AskedFrom(i) = Part(i) \o AskedFrom(i + 1)
    <2> DEFINE next == AskedFrom(i + 1)
    <2> SUFFICES AskedFrom(i) = Part(i) \o next
      OBVIOUS
    <2>1. CASE i = 1
      <3>1. next = From2 /\ AskedFrom(i) = From1 /\ Part(i) = Part(1)
        BY <1>5, <2>1
      <3> HIDE DEF next
      <3> QED
        BY <3>1 DEF From1
    <2>2. CASE i = 2
      <3>1. next = From3 /\ AskedFrom(i) = From2 /\ Part(i) = Part(2)
        BY <1>5, <2>2
      <3> HIDE DEF next
      <3> QED
        BY <3>1 DEF From2
    <2>3. CASE i = 3
      <3>1. next = From4 /\ AskedFrom(i) = From3 /\ Part(i) = Part(3)
        BY <1>5, <2>3
      <3> HIDE DEF next
      <3> QED
        BY <3>1 DEF From3
    <2>4. CASE i = 4
      <3>1. next = From5 /\ AskedFrom(i) = From4 /\ Part(i) = Part(4)
        BY <1>5, <2>4
      <3> HIDE DEF next
      <3> QED
        BY <3>1 DEF From4
    <2>5. CASE i = 5
      <3>1. next = From6 /\ AskedFrom(i) = From5 /\ Part(i) = Part(5)
        BY <1>5, <2>5
      <3> HIDE DEF next
      <3> QED
        BY <3>1 DEF From5
    <2>6. CASE i = 6
      <3>1. next = From7 /\ AskedFrom(i) = From6 /\ Part(i) = Part(6)
        BY <1>5, <2>6
      <3> HIDE DEF next
      <3> QED
        BY <3>1 DEF From6
    <2>7. CASE i = 7
      <3>1. next = << >> /\ AskedFrom(i) = From7 /\ Part(i) = Part(7)
        BY <1>5, <2>7
      <3> HIDE DEF next
      <3> QED
        BY <3>1 DEF From7
    <2> HIDE DEF next
    <2>8. \/ i = 1 \/ i = 2 \/ i = 3 \/ i = 4 \/ i = 5 \/ i = 6 \/ i = 7
      OBVIOUS
    <2> QED
      BY <2>1, <2>2, <2>3, <2>4, <2>5, <2>6, <2>7, <2>8 DEF next
  <1>7. ASSUME NEW i \in 1 .. 7 PROVE AskedFrom(i + 1) \in S
    <2>1. \/ i = 1 \/ i = 2 \/ i = 3 \/ i = 4 \/ i = 5 \/ i = 6 \/ i = 7
      OBVIOUS
    <2> QED
      BY <1>3, <1>4, <1>5, <2>1
  <1> QED
    BY <1>1, <1>5, <1>6, <1>7 DEF S

(* FlattenSeq puts the parts together from the first to the last.          *)
LEMMA AskedStep ==
  /\ Asked = AskedFrom(1)
  /\ AskedFrom(8) = << >>
  /\ \A i \in 1 .. 7 : /\ AskedFrom(i) = Part(i) \o AskedFrom(i + 1)
                       /\ AskedFrom(i + 1) \in Seq(TagValues)
  <1> DEFINE S == Seq(TagValues)
             P == [i \in 1 .. 7 |-> Part(i)]
             Flat(f) == f = [i \in 1 .. 7 |-> IF i = 1 THEN P[i] ELSE f[i - 1] \o P[i]]
             f2 == Part(1) \o Part(2)
             f3 == f2 \o Part(3)
             f4 == f3 \o Part(4)
             f5 == f4 \o Part(5)
             f6 == f5 \o Part(6)
             f7 == f6 \o Part(7)
             g == [i \in 1 .. 7 |-> <<Part(1), f2, f3, f4, f5, f6, f7>>[i]]
  <1>1. Flat(g)
    <2>1. ASSUME NEW i \in 1 .. 7 PROVE g[i] = IF i = 1 THEN P[i] ELSE g[i - 1] \o P[i]
      <3> SUFFICES g[i] = IF i = 1 THEN Part(i) ELSE g[i - 1] \o Part(i)
        OBVIOUS
      <3> HIDE DEF P
      <3>1. /\ f2 = Part(1) \o Part(2) /\ f3 = f2 \o Part(3) /\ f4 = f3 \o Part(4)
            /\ f5 = f4 \o Part(5) /\ f6 = f5 \o Part(6) /\ f7 = f6 \o Part(7)
        OBVIOUS
      <3> HIDE DEF f2, f3, f4, f5, f6, f7
      <3>2. /\ g[1] = Part(1) /\ g[2] = f2 /\ g[3] = f3 /\ g[4] = f4 /\ g[5] = f5
            /\ g[6] = f6 /\ g[7] = f7
        OBVIOUS
      <3> HIDE DEF g
      <3>3. CASE i = 1
        BY <3>2, <3>3
      <3>4. CASE i = 2
        <4>1. i - 1 = 1 /\ i # 1
          BY <3>4
        <4>2. g[i] = f2 /\ g[i - 1] = Part(1) /\ Part(i) = Part(2)
          BY <3>2, <3>4, <4>1
        <4>3. g[i] = g[i - 1] \o Part(i)
          BY <3>1, <4>2, Zenon
        <4> QED
          BY <4>1, <4>3, Zenon
      <3>5. CASE i = 3
        <4>1. i - 1 = 2 /\ i # 1
          BY <3>5
        <4>2. g[i] = f3 /\ g[i - 1] = f2 /\ Part(i) = Part(3)
          BY <3>2, <3>5, <4>1
        <4>3. g[i] = g[i - 1] \o Part(i)
          BY <3>1, <4>2, Zenon
        <4> QED
          BY <4>1, <4>3, Zenon
      <3>6. CASE i = 4
        <4>1. i - 1 = 3 /\ i # 1
          BY <3>6
        <4>2. g[i] = f4 /\ g[i - 1] = f3 /\ Part(i) = Part(4)
          BY <3>2, <3>6, <4>1
        <4>3. g[i] = g[i - 1] \o Part(i)
          BY <3>1, <4>2, Zenon
        <4> QED
          BY <4>1, <4>3, Zenon
      <3>7. CASE i = 5
        <4>1. i - 1 = 4 /\ i # 1
          BY <3>7
        <4>2. g[i] = f5 /\ g[i - 1] = f4 /\ Part(i) = Part(5)
          BY <3>2, <3>7, <4>1
        <4>3. g[i] = g[i - 1] \o Part(i)
          BY <3>1, <4>2, Zenon
        <4> QED
          BY <4>1, <4>3, Zenon
      <3>8. CASE i = 6
        <4>1. i - 1 = 5 /\ i # 1
          BY <3>8
        <4>2. g[i] = f6 /\ g[i - 1] = f5 /\ Part(i) = Part(6)
          BY <3>2, <3>8, <4>1
        <4>3. g[i] = g[i - 1] \o Part(i)
          BY <3>1, <4>2, Zenon
        <4> QED
          BY <4>1, <4>3, Zenon
      <3>9. CASE i = 7
        <4>1. i - 1 = 6 /\ i # 1
          BY <3>9
        <4>2. g[i] = f7 /\ g[i - 1] = f6 /\ Part(i) = Part(7)
          BY <3>2, <3>9, <4>1
        <4>3. g[i] = g[i - 1] \o Part(i)
          BY <3>1, <4>2, Zenon
        <4> QED
          BY <4>1, <4>3, Zenon
      <3>10. \/ i = 1 \/ i = 2 \/ i = 3 \/ i = 4 \/ i = 5 \/ i = 6 \/ i = 7
        OBVIOUS
      <3> QED
        BY <3>3, <3>4, <3>5, <3>6, <3>7, <3>8, <3>9, <3>10
    <2> DEFINE h == [i \in 1 .. 7 |-> IF i = 1 THEN P[i] ELSE g[i - 1] \o P[i]]
    <2>2. g = h
      BY <2>1
    <2> HIDE DEF g
    <2> QED
      BY <2>2
  <1> HIDE DEF g
  <1>2. Asked = FlattenSeq(P)
    BY DEF Asked, Part
  <1>3. FlattenSeq(P) = (CHOOSE f : Flat(f))[7]
    <2>1. Len(P) = 7
      <3>1. P \in [1 .. 7 -> S]
        BY AskedFromIs
      <3>2. P \in Seq(S)
        <4> HIDE DEF P, S
        <4> QED
          <5>1. P \in UNION {[1 .. m -> S] : m \in Nat}
            BY <3>1
          <5> QED
            BY <5>1, SeqDef, Zenon
      <3>3. DOMAIN P = 1 .. 7
        OBVIOUS
      <3> HIDE DEF P, S
      <3> QED
        BY <3>2, <3>3, LenProperties
    <2> HIDE DEF P
    <2> QED
      BY <2>1 DEF FlattenSeq
  <1>4. PICK f : Flat(f) /\ Asked = f[7]
    <2> HIDE DEF Flat
    <2> QED
      BY <1>1, <1>2, <1>3
  <1>5. f[1] = Part(1) /\ \A i \in 2 .. 7 : f[i] = f[i - 1] \o Part(i)
    <2>1. \A i \in 1 .. 7 : P[i] = Part(i)
      OBVIOUS
    <2> HIDE DEF P
    <2>2. \A i \in 1 .. 7 : f[i] = IF i = 1 THEN P[i] ELSE f[i - 1] \o P[i]
      BY <1>4
    <2>3. ASSUME NEW i \in 2 .. 7 PROVE f[i] = f[i - 1] \o Part(i)
      <3>1. i \in 1 .. 7 /\ i # 1
        OBVIOUS
      <3>2. f[i] = f[i - 1] \o P[i] /\ P[i] = Part(i)
        BY <2>1, <2>2, <3>1
      <3> QED
        BY <3>2
    <2>4. f[1] = Part(1)
      <3>1. 1 \in 1 .. 7
        OBVIOUS
      <3> QED
        BY <2>1, <2>2, <3>1
    <2> QED
      BY <2>3, <2>4, Zenon
  <1> HIDE DEF Flat, P
  <1>6. ASSUME NEW i \in 2 .. 7, NEW u \in S, NEW j \in 1 .. 7,
               f[i - 1] = u, j = i - 1, AskedFrom(1) = u \o AskedFrom(i)
        PROVE  f[i] \in S /\ AskedFrom(1) = f[i] \o AskedFrom(i + 1)
    <2> DEFINE v == Part(i)
               w == AskedFrom(i + 1)
               all == AskedFrom(1)
               rest == AskedFrom(i)
    <2>1. v \in S /\ w \in S /\ rest = v \o w
      <3>1. i \in 1 .. 7
        OBVIOUS
      <3> QED
        BY <3>1, AskedFromIs, Zenon
    <2>2. f[i] = u \o v
      BY <1>5, <1>6, Zenon
    <2> SUFFICES f[i] \in S /\ all = f[i] \o w
      OBVIOUS
    <2>3. all = u \o rest
      BY <1>6
    <2> HIDE DEF v, w, all, rest
    <2>4. u \o v \in S /\ (u \o v) \o w = u \o (v \o w)
      <3>1. u \in Seq(TagValues) /\ v \in Seq(TagValues) /\ w \in Seq(TagValues)
        BY <2>1
      <3> QED
        BY <3>1, ConcatProperties, ConcatAssociative
    <2> QED
      BY <2>1, <2>2, <2>3, <2>4, Zenon
  <1>7. f[1] \in S /\ AskedFrom(1) = f[1] \o AskedFrom(2)
    <2>1. 1 \in 1 .. 7 /\ 1 + 1 = 2
      OBVIOUS
    <2>2. AskedFrom(1) = Part(1) \o AskedFrom(1 + 1) /\ Part(1) \in S
      BY <2>1, AskedFromIs, Zenon
    <2> QED
      BY <1>5, <2>1, <2>2, Zenon
  <1>8. f[2] \in S /\ AskedFrom(1) = f[2] \o AskedFrom(3)
    <2>1. 2 \in 2 .. 7 /\ 1 \in 1 .. 7 /\ 2 - 1 = 1 /\ 2 + 1 = 3
      OBVIOUS
    <2> HIDE DEF S
    <2> QED
      BY <1>6, <1>7, <2>1
  <1>9. f[3] \in S /\ AskedFrom(1) = f[3] \o AskedFrom(4)
    <2>1. 3 \in 2 .. 7 /\ 2 \in 1 .. 7 /\ 3 - 1 = 2 /\ 3 + 1 = 4
      OBVIOUS
    <2> HIDE DEF S
    <2> QED
      BY <1>6, <1>8, <2>1
  <1>10. f[4] \in S /\ AskedFrom(1) = f[4] \o AskedFrom(5)
    <2>1. 4 \in 2 .. 7 /\ 3 \in 1 .. 7 /\ 4 - 1 = 3 /\ 4 + 1 = 5
      OBVIOUS
    <2> HIDE DEF S
    <2> QED
      BY <1>6, <1>9, <2>1
  <1>11. f[5] \in S /\ AskedFrom(1) = f[5] \o AskedFrom(6)
    <2>1. 5 \in 2 .. 7 /\ 4 \in 1 .. 7 /\ 5 - 1 = 4 /\ 5 + 1 = 6
      OBVIOUS
    <2> HIDE DEF S
    <2> QED
      BY <1>6, <1>10, <2>1
  <1>12. f[6] \in S /\ AskedFrom(1) = f[6] \o AskedFrom(7)
    <2>1. 6 \in 2 .. 7 /\ 5 \in 1 .. 7 /\ 6 - 1 = 5 /\ 6 + 1 = 7
      OBVIOUS
    <2> HIDE DEF S
    <2> QED
      BY <1>6, <1>11, <2>1
  <1>13. f[7] \in S /\ AskedFrom(1) = f[7] \o AskedFrom(8)
    <2>1. 7 \in 2 .. 7 /\ 6 \in 1 .. 7 /\ 7 - 1 = 6 /\ 7 + 1 = 8
      OBVIOUS
    <2> HIDE DEF S
    <2> QED
      BY <1>6, <1>12, <2>1
  <1>14. f[7] \o << >> = f[7]
    BY <1>13, ConcatEmptySeq
  <1>15. AskedFrom(8) = << >>
    BY AskedFromIs, Zenon
  <1> QED
    BY <1>4, <1>13, <1>14, <1>15, AskedFromIs, Zenon

LEMMA ListRead ==
  ASSUME BufWords >= LongestList, Inv, ListInv, calls = 8
  PROVE  TagsFrom[0] = Asked
  <1>0. TypeOK /\ BufWords \in Nat
    BY AtagAssumption DEF Inv
  <1>1. Heads[8] <= BufWords
    <2>1. current <= room /\ room <= BufWords /\ current = Heads[8]
      BY <1>0, StaysInside DEF NoOverrun, ListInv, TypeOK
    <2>2. current \in Nat /\ room \in Nat
      BY <1>0 DEF TypeOK
    <2> QED
      BY <1>0, <2>1, <2>2
  <1>2. \A i \in 0 .. 8 : Heads[i] \in 0 .. BufWords
    <2> SUFFICES ASSUME NEW i \in 0 .. 8 PROVE Heads[i] \in 0 .. BufWords
      OBVIOUS
    <2>1. CASE i = 0
      BY <1>0, <2>1, HeadsStep
    <2>2. CASE i # 0
      <3>1. i \in 1 .. 8 /\ 8 \in i .. 8
        BY <2>2
      <3>2. Heads[i] \in Nat /\ Heads[8] \in Nat
        BY <1>0, <3>1, HeadsStep
      <3>3. Heads[i] <= Heads[8]
        BY <1>0, <3>1, HeadsAscend
      <3> QED
        BY <1>0, <1>1, <3>2, <3>3
    <2> QED
      BY <2>1, <2>2
  <1>3. \A i \in 1 .. 8 : Wanted(Calls[i]) => Stored(Heads[i - 1], Calls[i])
    BY DEF ListInv
  <1> DEFINE T == {n \in Nat : n <= 7 => TagsFrom[Heads[7 - n]] = AskedFrom(8 - n)}
  <1>4. 0 \in T
    <2> DEFINE p == Heads[7]
    <2>1. Calls[8] = "NONE" /\ Wanted("NONE")
      BY DEF Calls, Wanted
    <2>2. Stored(Heads[7], "NONE")
      <3>1. 8 \in 1 .. 8 /\ 8 - 1 = 7
        OBVIOUS
      <3> QED
        BY <1>3, <2>1, <3>1
    <2>3. p \in 0 .. BufWords
      BY <1>2
    <2> HIDE DEF p
    <2>4. buf[p] = <<0>>
      BY <2>2 DEF Stored, hdr_size, p
    <2>5. p + buf[p][1] = p
      BY <2>3, <2>4
    <2>6. TagsFrom[p] = << >>
      BY <2>3, <2>5, ReaderExists DEF Reads
    <2>7. TagsFrom[Heads[7]] = AskedFrom(8)
      BY <2>6, AskedStep, Zenon DEF p
    <2>8. 7 - 0 = 7 /\ 8 - 0 = 8
      OBVIOUS
    <2> QED
      BY <2>7, <2>8
  <1>5. ASSUME NEW n \in Nat, n \in T PROVE n + 1 \in T
    <2> SUFFICES ASSUME n + 1 <= 7
                 PROVE  TagsFrom[Heads[7 - (n + 1)]] = AskedFrom(8 - (n + 1))
      OBVIOUS
    <2>1. PICK i \in 1 .. 7 : i = 7 - n
      OBVIOUS
    <2>2. 7 - (n + 1) = i - 1 /\ 8 - (n + 1) = i /\ 8 - n = i + 1 /\ i \in 1 .. 8
      BY <2>1
    <2>3. TagsFrom[Heads[i]] = AskedFrom(i + 1)
      BY <1>5, <2>1, <2>2
    <2>4. AskedFrom(i) = Part(i) \o AskedFrom(i + 1)
          /\ AskedFrom(i + 1) \in Seq(TagValues)
      BY AskedStep
    <2>5. PICK p \in 0 .. BufWords : p = Heads[i - 1]
      BY <1>2, <2>2
    <2>6. PICK t \in Tags : t = Calls[i]
      BY <1>0, <2>2, HeadsStep
    <2>7. Heads[i] = p + Size(i) /\ Heads[i] \in 0 .. BufWords
      <3>1. Heads[i] = Heads[i - 1] + Size(i)
        BY <1>0, <2>2, HeadsStep, Zenon
      <3>2. i \in 0 .. 8
        BY <2>2
      <3> QED
        BY <1>2, <2>5, <3>1, <3>2
    <2> SUFFICES TagsFrom[p] = AskedFrom(i)
      BY <2>2, <2>5
    <2>8. CASE ~Wanted(t)
      <3>1. Part(i) = << >> /\ Size(i) = 0
        BY <2>6, <2>8 DEF Part, Size
      <3>2. << >> \o AskedFrom(i + 1) = AskedFrom(i + 1)
        BY <2>4, ConcatEmptySeq
      <3>3. Heads[i] = p
        BY <2>7, <3>1
      <3> QED
        BY <2>3, <2>4, <3>1, <3>2, <3>3
    <2>9. CASE Wanted(t)
      <3>1. Stored(p, t) /\ p \in Nat
        BY <1>3, <2>2, <2>5, <2>6, <2>9
      <3>2. t # "NONE"
        BY <2>6 DEF Calls
      <3>3. buf[p][1] = tag_size(t) /\ TagAt(p) = Tag(t)
        BY <1>0, <3>1, <3>2, TagRead
      <3>4. tag_size(t) \in Nat /\ tag_size(t) >= 2 /\ Size(i) = tag_size(t)
        BY <1>0, <2>6, <2>9, TagFacts DEF Size
      <3>5. p + buf[p][1] = Heads[i] /\ Heads[i] # p /\ Heads[i] \in p .. BufWords
        BY <2>7, <3>1, <3>3, <3>4
      <3>6. TagsFrom[p] = <<Tag(t)>> \o TagsFrom[Heads[i]]
        BY <3>3, <3>5, ReaderExists DEF Reads
      <3>7. Part(i) = <<Tag(t)>>
        BY <2>6, <2>9 DEF Part
      <3> QED
        BY <2>3, <2>4, <3>6, <3>7
    <2> QED
      BY <2>8, <2>9
  <1>6. 7 \in T
    <2> HIDE DEF T
    <2>1. Nat \subseteq T
      BY <1>4, <1>5, Induct
    <2> QED
      BY <2>1
  <1>7. TagsFrom[Heads[0]] = AskedFrom(1)
    BY <1>6
  <1> QED
    BY <1>0, <1>7, AskedStep, HeadsStep

(* For every command line and all settings: what atag_build has built, a   *)
(* kernel reads as exactly the tags that were asked for, in their order.   *)
THEOREM ReadsBack ==
  ASSUME BufWords >= LongestList
  PROVE  Spec => []ReadBack
  <1>1. Init => ListInv
    <2> SUFFICES ASSUME Init PROVE ListInv
      OBVIOUS
    <2>1. TypeOK
      BY InitInv DEF Inv
    <2> QED
      BY <2>1, HeadsStep DEF Init, ListInv
  <1>2. Inv /\ ListInv /\ [Next]_vars => ListInv'
    BY ListNext
  <1>3. Inv /\ ListInv => ReadBack
    <2> SUFFICES ASSUME Inv, ListInv, result = "built" PROVE TagsFrom[0] = Asked
      BY DEF ReadBack
    <2>1. calls = 8
      BY DEF Inv, TypeOK, Calls
    <2> QED
      BY <2>1, ListRead
  <1> QED
    BY <1>1, <1>2, <1>3, InitInv, NextInv, PTL DEF Spec

=============================================================================
