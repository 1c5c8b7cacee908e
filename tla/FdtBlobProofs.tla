--------------------------- MODULE FdtBlobProofs ---------------------------
(***************************************************************************)
(* Facts about blobs, and about the tree their items make, whatever the   *)
(* blob is.  First, up to PackKeeps: whatever a search of libfdt finds in  *)
(* a blob, and wherever it fails, the edits of update_fdt leave the blob   *)
(* sound and what is before its structure block alone.  Then: what the     *)
(* tags of a blob tell, and what one item more or another one changes in   *)
(* the tree.  The theorems that rest on these are in FdtUpdateProofs.      *)
(***************************************************************************)
EXTENDS FdtUpdate, SequencesExt, SequenceTheorems, FiniteSetTheorems, WellFoundedInduction, TLAPS

-----------------------------------------------------------------------------
(* Induction on natural numbers, with a set for the property that is       *)
(* proved, and functions defined by recursion.                             *)
Maps(f, C, D) == f \in [C -> D]

Less == {ss \in Nat \X Nat : ss[1] < ss[2]}

(* A set of natural numbers that is not empty has a smallest element. *)
LEMMA Smallest ==
  ASSUME NEW T, T \subseteq Nat, T # {}
  PROVE  \E x \in T : \A y \in T : x <= y
  <1>1. IsWellFoundedOn(Less, Nat)
    BY NatLessThanWellFounded DEF OpToRel, Less
  <1>2. PICK x \in T : \A y \in T : <<y, x>> \notin Less
    BY <1>1, WFMin
  <1>3. ASSUME NEW y \in T PROVE x <= y
    <2>1. x \in Nat /\ y \in Nat /\ <<y, x>> \notin Less
      BY <1>2
    <2>2. ~(y < x)
      BY <2>1 DEF Less
    <2> QED
      BY <2>1, <2>2
  <1> QED
    BY <1>2, <1>3

(* Induction: a set that has 0, and with each number the next one, has     *)
(* all.                                                                    *)
LEMMA Induct ==
  ASSUME NEW S, 0 \in S, \A n \in Nat : n \in S => n + 1 \in S
  PROVE  Nat \subseteq S
  <1> DEFINE T == {n \in Nat : n \notin S}
  <1> SUFFICES ASSUME T # {} PROVE FALSE
    OBVIOUS
  <1>1. PICK x \in T : \A y \in T : x <= y
    <2>1. T \subseteq Nat
      OBVIOUS
    <2> HIDE DEF T
    <2> QED
      BY <2>1, Smallest
  <1>2. x \in Nat /\ x \notin S /\ x # 0
    OBVIOUS
  <1>3. x - 1 \in Nat /\ x - 1 \notin T
    BY <1>1, <1>2
  <1>4. x - 1 \in S
    BY <1>3
  <1>5. (x - 1) + 1 \in S
    BY <1>3, <1>4
  <1> QED
    BY <1>2, <1>5

(* Induction up to a bound. *)
LEMMA InductUpTo ==
  ASSUME NEW n \in Nat, NEW S, 0 \in S,
         \A m \in 0 .. n - 1 : m \in S => m + 1 \in S
  PROVE  0 .. n \subseteq S
  <1> DEFINE T == S \cup {m \in Nat : m > n}
  <1>1. 0 \in T /\ \A m \in Nat : m \in T => m + 1 \in T
    OBVIOUS
  <1>2. Nat \subseteq T
    <2> HIDE DEF T
    <2> QED
      BY <1>1, Induct
  <1> QED
    BY <1>2

(* Induction from 1, for the indices of a sequence. *)
LEMMA InductFromOne ==
  ASSUME NEW n \in Nat, NEW S, n >= 1 => 1 \in S,
         \A i \in 1 .. n - 1 : i \in S => i + 1 \in S
  PROVE  1 .. n \subseteq S
  <1> DEFINE T == {m \in Nat : m \in S \/ m > n} \cup {0}
  <1>1. 0 \in T /\ \A m \in Nat : m \in T => m + 1 \in T
    OBVIOUS
  <1>2. Nat \subseteq T
    <2> HIDE DEF T
    <2> QED
      BY <1>1, Induct
  <1> QED
    BY <1>2

-----------------------------------------------------------------------------
(* A function on the numbers that is defined from its value before, and    *)
(* what its values have in common.                                         *)
Recursive(f, a, step) ==
  f = [n \in Nat |-> IF n = 0 THEN a ELSE step[<<n, f[n - 1]>>]]

LEMMA RecursionExists ==
  ASSUME NEW a, NEW step
  PROVE  \E f : Recursive(f, a, step)
  <1> DEFINE Body(f, n) == IF n = 0 THEN a ELSE step[<<n, f[n - 1]>>]
             Upto(m, f) == \A n \in Nat : n < m => f[n] = Body(f, n)
             T == {m \in Nat : \E f : Upto(m, f)}
             At(n) == CHOOSE f : Upto(n + 1, f)
             g == [n \in Nat |-> At(n)[n]]
  <1>1. Nat \subseteq T
    <2>1. 0 \in T
      <3>1. Upto(0, << >>)
        OBVIOUS
      <3> QED
        BY <3>1
    <2>2. ASSUME NEW m \in Nat, m \in T PROVE m + 1 \in T
      <3>1. PICK f : Upto(m, f)
        BY <2>2
      <3> DEFINE h == [n \in Nat |-> Body(f, n)]
      <3>2. ASSUME NEW n \in Nat, n < m + 1 PROVE h[n] = Body(h, n)
        <4>1. CASE n = 0
          BY <4>1
        <4>2. CASE n # 0
          <5>1. n - 1 \in Nat /\ n - 1 < m
            BY <3>2, <4>2
          <5>2. h[n - 1] = f[n - 1]
            BY <3>1, <5>1
          <5> QED
            BY <4>2, <5>2
        <4> QED
          BY <4>1, <4>2
      <3> HIDE DEF h
      <3>3. Upto(m + 1, h)
        BY <3>2
      <3>4. \E k : Upto(m + 1, k)
        BY <3>3
      <3> HIDE DEF Upto
      <3> QED
        BY <3>4
    <2> HIDE DEF T
    <2> QED
      BY <2>1, <2>2, Induct
  <1>2. ASSUME NEW n \in Nat PROVE Upto(n + 1, At(n))
    <2>1. n + 1 \in T
      <3> HIDE DEF T
      <3> QED
        BY <1>1
    <2>2. \E f : Upto(n + 1, f)
      BY <2>1
    <2> HIDE DEF Upto
    <2> QED
      BY <2>2
  <1>3. ASSUME NEW m \in Nat, NEW k \in Nat, m < k PROVE At(m)[m] = At(k)[m]
    <2> DEFINE p == At(m)
               q == At(k)
               S == {i \in Nat : i <= m => p[i] = q[i]}
    <2>1. Upto(m + 1, p) /\ Upto(k + 1, q)
      BY <1>2
    <2> HIDE DEF p, q
    <2>2. 0 \in S
      <3>1. 0 < m + 1 /\ 0 < k + 1
        OBVIOUS
      <3>2. p[0] = a /\ q[0] = a
        BY <2>1, <3>1
      <3> QED
        BY <3>2
    <2>3. ASSUME NEW i \in Nat, i \in S PROVE i + 1 \in S
      <3>1. CASE i + 1 <= m
        <4> DEFINE j == i + 1
        <4>1. j \in Nat /\ j # 0 /\ j - 1 = i /\ j < m + 1 /\ j < k + 1 /\ p[i] = q[i]
          BY <1>3, <2>3, <3>1
        <4> HIDE DEF j
        <4>2. p[j] = step[<<j, p[i]>>] /\ q[j] = step[<<j, q[i]>>]
          BY <2>1, <4>1
        <4>3. p[j] = q[j]
          BY <4>1, <4>2
        <4> QED
          BY <4>3 DEF j
      <3> QED
        BY <3>1
    <2>4. Nat \subseteq S
      <3> HIDE DEF S
      <3> QED
        BY <2>2, <2>3, Induct
    <2>5. m \in S
      <3> HIDE DEF S
      <3> QED
        BY <2>4
    <2> QED
      BY <2>5 DEF p, q
  <1>4. ASSUME NEW n \in Nat PROVE At(n)[n] = Body(g, n)
    <2> DEFINE p == At(n)
    <2>1. p[n] = Body(p, n)
      <3>1. n < n + 1
        OBVIOUS
      <3> QED
        BY <1>2, <3>1
    <2>3. CASE n = 0
      BY <2>1, <2>3
    <2>4. CASE n # 0
      <3> DEFINE m == n - 1
      <3>1. m \in Nat /\ m < n
        BY <2>4
      <3> HIDE DEF m
      <3>2. g[m] = p[m]
        BY <1>3, <3>1
      <3>3. p[n] = step[<<n, p[m]>>]
        BY <2>1, <2>4 DEF m
      <3>4. p[n] = step[<<n, g[m]>>]
        BY <3>2, <3>3
      <3>5. Body(g, n) = step[<<n, g[m]>>]
        BY <2>4 DEF m
      <3> QED
        BY <3>4, <3>5
    <2>5. n = 0 \/ n # 0
      OBVIOUS
    <2> HIDE DEF g, At, p, Body
    <2> QED
      BY <2>3, <2>4, <2>5, Zenon
  <1> HIDE DEF At
  <1>5. g = [n \in Nat |-> Body(g, n)]
    BY <1>4
  <1> HIDE DEF g
  <1>6. Recursive(g, a, step)
    BY <1>5 DEF Recursive
  <1> QED
    BY <1>6

LEMMA RecursionType ==
  ASSUME NEW f, NEW a, NEW step, Recursive(f, a, step), NEW D, a \in D,
         \A n \in Nat, d \in D : step[<<n + 1, d>>] \in D
  PROVE  \A n \in Nat : f[n] \in D
  <1> DEFINE T == {n \in Nat : f[n] \in D}
  <1>0. \A n \in Nat : f[n] = IF n = 0 THEN a ELSE step[<<n, f[n - 1]>>]
    BY DEF Recursive
  <1>1. 0 \in T
    BY <1>0
  <1>2. ASSUME NEW n \in Nat, n \in T PROVE n + 1 \in T
    <2> DEFINE m == n + 1
    <2>1. m \in Nat /\ m # 0 /\ m - 1 = n
      OBVIOUS
    <2> HIDE DEF m
    <2>2. f[m] = step[<<m, f[n]>>]
      BY <1>0, <2>1
    <2> QED
      BY <1>2, <2>1, <2>2 DEF m
  <1>3. Nat \subseteq T
    <2> HIDE DEF T
    <2> QED
      BY <1>1, <1>2, Induct
  <1> QED
    BY <1>3

-----------------------------------------------------------------------------
(* Numbers.  The words of a blob are at multiples of FDT_TAGSIZE.          *)
Aligned == {k * FDT_TAGSIZE : k \in Nat}

LEMMA TagAlign ==
  ASSUME NEW x \in Nat
  PROVE  /\ FDT_TAGALIGN(x) \in Nat /\ FDT_TAGALIGN(x) \in Aligned
         /\ x <= FDT_TAGALIGN(x) /\ FDT_TAGALIGN(x) <= x + FDT_TAGSIZE - 1
  <1> DEFINE y == x + FDT_TAGSIZE - 1
             q == y \div FDT_TAGSIZE
  <1>1. y \in Nat /\ FDT_TAGSIZE \in Nat \ {0}
    BY TagSizeAssumption
  <1>2. /\ q \in Nat /\ q * FDT_TAGSIZE <= y
        /\ y < (q + 1) * FDT_TAGSIZE
    <2> HIDE DEF y
    <2> QED
      BY <1>1
  <1>3. FDT_TAGALIGN(x) = q * FDT_TAGSIZE
    BY DEF FDT_TAGALIGN, FDT_ALIGN
  <1>4. q * FDT_TAGSIZE \in Nat /\ (q + 1) * FDT_TAGSIZE = q * FDT_TAGSIZE + FDT_TAGSIZE
    <2> HIDE DEF q
    <2> QED
      BY <1>1, <1>2
  <1> HIDE DEF q
  <1> QED
    BY <1>1, <1>2, <1>3, <1>4 DEF Aligned

LEMMA OneNotAligned == 1 \notin Aligned
  <1> SUFFICES ASSUME NEW k \in Nat, k * FDT_TAGSIZE = 1 PROVE FALSE
    BY DEF Aligned
  <1>1. FDT_TAGSIZE \in Nat /\ FDT_TAGSIZE > 1
    BY TagSizeAssumption, UpdateAssumption
  <1>2. CASE k = 0
    BY <1>1, <1>2
  <1>3. CASE k >= 1
    <2>1. PICK j \in Nat : k = j + 1
      BY <1>3
    <2>2. (j + 1) * FDT_TAGSIZE = j * FDT_TAGSIZE + FDT_TAGSIZE /\ j * FDT_TAGSIZE \in Nat
      BY <1>1
    <2> QED
      BY <1>1, <2>1, <2>2
  <1> QED
    BY <1>2, <1>3

LEMMA AlignedNat == Aligned \subseteq Nat
  BY TagSizeAssumption DEF Aligned

LEMMA LeastOf ==
  ASSUME NEW S, S \subseteq Nat, S # {}
  PROVE  Least(S) \in S /\ \A y \in S : Least(S) <= y
  <1>1. \E x \in S : \A y \in S : x <= y
    BY Smallest
  <1> QED
    BY <1>1 DEF Least

(* A definition that refers to itself, further on: with each call rank     *)
(* falls.  One that goes on to the value where it stops, and one that      *)
(* lists where it has been.                                                *)
Recurs(f, S, Stop, val, succ) ==
  f = [x \in S |-> IF x \in Stop THEN val[x] ELSE f[succ[x]]]

Falls(S, Stop, succ, rank, n) ==
  /\ rank \in [S -> 0 .. n]
  /\ \A x \in S : x \notin Stop => succ[x] \in S /\ rank[succ[x]] < rank[x]

LEMMA TailRecursion ==
  ASSUME NEW S, NEW Stop, NEW val, NEW succ, NEW rank, NEW n \in Nat,
         Falls(S, Stop, succ, rank, n)
  PROVE  \E f : Recurs(f, S, Stop, val, succ)
  <1> DEFINE Body(f, x) == IF x \in Stop THEN val[x] ELSE f[succ[x]]
             Upto(m, f) == \A x \in S : rank[x] < m => f[x] = Body(f, x)
             T == {m \in Nat : \E f : Upto(m, f)}
  <1>0. /\ \A x \in S : rank[x] \in 0 .. n
        /\ \A x \in S : x \notin Stop => succ[x] \in S /\ rank[succ[x]] < rank[x]
    BY DEF Falls
  <1>1. 0 \in T
    <2>1. Upto(0, << >>)
      BY <1>0
    <2> QED
      BY <2>1
  <1>2. ASSUME NEW m \in Nat, m \in T PROVE m + 1 \in T
    <2>1. PICK f : Upto(m, f)
      BY <1>2
    <2> DEFINE g == [x \in S |-> Body(f, x)]
    <2>2. ASSUME NEW x \in S, rank[x] < m + 1 PROVE g[x] = Body(g, x)
      <3>1. CASE x \in Stop
        BY <3>1
      <3>2. CASE x \notin Stop
        <4> DEFINE y == succ[x]
        <4>1. y \in S /\ rank[y] < m
          BY <1>0, <2>2, <3>2
        <4>2. f[y] = Body(f, y)
          BY <2>1, <4>1
        <4>3. g[y] = f[y]
          BY <4>1, <4>2
        <4> QED
          BY <3>2, <4>3
      <3> QED
        BY <3>1, <3>2
    <2>3. Upto(m + 1, g)
      BY <2>2
    <2> HIDE DEF g
    <2>4. \E h : Upto(m + 1, h)
      BY <2>3
    <2> HIDE DEF Upto
    <2> QED
      BY <2>4
  <1>3. n + 1 \in T
    <2>1. Nat \subseteq T
      <3> HIDE DEF T
      <3> QED
        BY <1>1, <1>2, Induct
    <2> HIDE DEF T
    <2> QED
      BY <2>1
  <1>4. PICK f : Upto(n + 1, f)
    BY <1>3
  <1> DEFINE g == [x \in S |-> f[x]]
  <1>5. ASSUME NEW x \in S PROVE f[x] = Body(g, x)
    <2>1. f[x] = Body(f, x)
      <3>1. rank[x] < n + 1
        BY <1>0
      <3> QED
        BY <1>4, <3>1
    <2> QED
      BY <1>0, <2>1
  <1>6. g = [x \in S |-> Body(g, x)]
    BY <1>5
  <1> HIDE DEF g
  <1>7. Recurs(g, S, Stop, val, succ)
    BY <1>6 DEF Recurs
  <1> QED
    BY <1>7

Lists(f, S, Stop, succ) ==
  f = [x \in S |-> <<x>> \o (IF x \in Stop THEN << >> ELSE f[succ[x]])]

LEMMA ListRecursion ==
  ASSUME NEW S, NEW Stop, NEW succ, NEW rank, NEW n \in Nat,
         Falls(S, Stop, succ, rank, n)
  PROVE  \E f : Lists(f, S, Stop, succ)
  <1> DEFINE Body(f, x) == <<x>> \o (IF x \in Stop THEN << >> ELSE f[succ[x]])
             Upto(m, f) == \A x \in S : rank[x] < m => f[x] = Body(f, x)
             T == {m \in Nat : \E f : Upto(m, f)}
  <1>0. /\ \A x \in S : rank[x] \in 0 .. n
        /\ \A x \in S : x \notin Stop => succ[x] \in S /\ rank[succ[x]] < rank[x]
    BY DEF Falls
  <1>1. 0 \in T
    <2>1. Upto(0, << >>)
      BY <1>0
    <2> QED
      BY <2>1
  <1>2. ASSUME NEW m \in Nat, m \in T PROVE m + 1 \in T
    <2>1. PICK f : Upto(m, f)
      BY <1>2
    <2> DEFINE g == [x \in S |-> Body(f, x)]
    <2>2. ASSUME NEW x \in S, rank[x] < m + 1 PROVE g[x] = Body(g, x)
      <3>1. CASE x \in Stop
        BY <3>1
      <3>2. CASE x \notin Stop
        <4> DEFINE y == succ[x]
        <4>1. y \in S /\ rank[y] < m
          BY <1>0, <2>2, <3>2
        <4>2. f[y] = Body(f, y)
          BY <2>1, <4>1
        <4>3. g[y] = f[y]
          BY <4>1, <4>2
        <4> QED
          BY <3>2, <4>3
      <3> QED
        BY <3>1, <3>2
    <2>3. Upto(m + 1, g)
      BY <2>2
    <2> HIDE DEF g
    <2>4. \E h : Upto(m + 1, h)
      BY <2>3
    <2> HIDE DEF Upto
    <2> QED
      BY <2>4
  <1>3. n + 1 \in T
    <2>1. Nat \subseteq T
      <3> HIDE DEF T
      <3> QED
        BY <1>1, <1>2, Induct
    <2> HIDE DEF T
    <2> QED
      BY <2>1
  <1>4. PICK f : Upto(n + 1, f)
    BY <1>3
  <1> DEFINE g == [x \in S |-> f[x]]
  <1>5. ASSUME NEW x \in S PROVE f[x] = Body(g, x)
    <2>1. f[x] = Body(f, x)
      <3>1. rank[x] < n + 1
        BY <1>0
      <3> QED
        BY <1>4, <3>1
    <2> QED
      BY <1>0, <2>1
  <1>6. g = [x \in S |-> Body(g, x)]
    BY <1>5
  <1> HIDE DEF g
  <1>7. Lists(g, S, Stop, succ)
    BY <1>6 DEF Lists
  <1> QED
    BY <1>7

(* What such a function keeps: if part of S is closed, and its values      *)
(* where it stops are in R, so are all of that part.                       *)
Closed(P, S, Stop, succ) ==
  P \subseteq S /\ \A x \in P : x \notin Stop => succ[x] \in P
Ends(P, Stop, val, R) == \A x \in P : x \in Stop => val[x] \in R

LEMMA TailInvariant ==
  ASSUME NEW S, NEW Stop, NEW val, NEW succ, NEW rank, NEW n \in Nat,
         Falls(S, Stop, succ, rank, n), NEW f, Recurs(f, S, Stop, val, succ),
         NEW P, Closed(P, S, Stop, succ), NEW R, Ends(P, Stop, val, R)
  PROVE  \A x \in P : f[x] \in R
  <1> DEFINE T == {m \in Nat : \A x \in P : rank[x] < m => f[x] \in R}
  <1>0. /\ \A x \in S : rank[x] \in 0 .. n
        /\ \A x \in S : x \notin Stop => succ[x] \in S /\ rank[succ[x]] < rank[x]
        /\ \A x \in S : f[x] = IF x \in Stop THEN val[x] ELSE f[succ[x]]
        /\ \A x \in P : x \notin Stop => succ[x] \in P
        /\ \A x \in P : x \in S /\ (x \in Stop => val[x] \in R)
    BY DEF Falls, Recurs, Closed, Ends
  <1>1. 0 \in T
    BY <1>0
  <1>2. ASSUME NEW m \in Nat, m \in T PROVE m + 1 \in T
    <2>1. ASSUME NEW x \in P, rank[x] < m + 1 PROVE f[x] \in R
      <3>1. CASE x \in Stop
        BY <1>0, <3>1
      <3>2. CASE x \notin Stop
        <4>1. succ[x] \in P /\ rank[succ[x]] < m
          BY <1>0, <2>1, <3>2
        <4>2. f[succ[x]] \in R
          BY <1>2, <4>1
        <4> QED
          BY <1>0, <3>2, <4>2
      <3> QED
        BY <3>1, <3>2
    <2> QED
      BY <2>1
  <1>3. Nat \subseteq T
    <2> HIDE DEF T
    <2> QED
      BY <1>1, <1>2, Induct
  <1>4. n + 1 \in T
    <2> HIDE DEF T
    <2> QED
      BY <1>3
  <1> QED
    BY <1>0, <1>4

LEMMA ListInvariant ==
  ASSUME NEW S, NEW Stop, NEW succ, NEW rank, NEW n \in Nat,
         Falls(S, Stop, succ, rank, n), NEW f, Lists(f, S, Stop, succ),
         NEW P, Closed(P, S, Stop, succ)
  PROVE  \A x \in P : f[x] \in Seq(P) /\ Len(f[x]) >= 1
  <1> DEFINE T == {m \in Nat : \A x \in P : rank[x] < m => f[x] \in Seq(P)}
  <1>0. /\ \A x \in S : rank[x] \in 0 .. n
        /\ \A x \in S : x \notin Stop => succ[x] \in S /\ rank[succ[x]] < rank[x]
        /\ P \subseteq S /\ \A x \in P : x \notin Stop => succ[x] \in P
    BY DEF Falls, Closed
  <1>5. \A x \in P : f[x] = <<x>> \o (IF x \in Stop THEN << >> ELSE f[succ[x]])
    BY <1>0 DEF Lists
  <1>6. << >> \in Seq(P) /\ \A x \in P : <<x>> \in Seq(P)
    OBVIOUS
  <1>1. 0 \in T
    BY <1>0
  <1>2. ASSUME NEW m \in Nat, m \in T PROVE m + 1 \in T
    <2>1. ASSUME NEW x \in P, rank[x] < m + 1 PROVE f[x] \in Seq(P)
      <3>1. CASE x \in Stop
        <4>1. f[x] = <<x>> \o << >>
          BY <1>5, <3>1
        <4> QED
          BY <1>6, <4>1, ConcatProperties
      <3>2. CASE x \notin Stop
        <4>1. succ[x] \in P /\ rank[succ[x]] < m
          BY <1>0, <2>1, <3>2
        <4>2. f[succ[x]] \in Seq(P)
          BY <1>2, <4>1
        <4>3. f[x] = <<x>> \o f[succ[x]]
          BY <1>5, <3>2
        <4> QED
          BY <1>6, <4>2, <4>3, ConcatProperties
      <3> QED
        BY <3>1, <3>2
    <2> QED
      BY <2>1
  <1>3. Nat \subseteq T
    <2> HIDE DEF T
    <2> QED
      BY <1>1, <1>2, Induct
  <1>4. n + 1 \in T
    <2> HIDE DEF T
    <2> QED
      BY <1>3
  <1>7. \A x \in P : f[x] \in Seq(P)
    BY <1>0, <1>4
  <1>8. ASSUME NEW x \in P PROVE Len(f[x]) >= 1
    <2> DEFINE t == IF x \in Stop THEN << >> ELSE f[succ[x]]
    <2>1. t \in Seq(P) /\ f[x] = <<x>> \o t
      BY <1>0, <1>5, <1>6, <1>7
    <2> HIDE DEF t
    <2>2. Len(<<x>> \o t) = Len(<<x>>) + Len(t) /\ Len(<<x>>) = 1 /\ Len(t) \in Nat
      BY <1>6, <2>1, ConcatProperties
    <2> QED
      BY <2>1, <2>2
  <1> QED
    BY <1>7, <1>8

-----------------------------------------------------------------------------
(* Bytes and words. *)
Counts(s, u) ==
  u = [i \in 0 .. Len(s) |-> IF i = 0 THEN 0 ELSE u[i - 1] * Base + s[i]]

LEMMA CountsExists ==
  ASSUME NEW s \in Seq(Byte)
  PROVE  \E u : Counts(s, u)
  <1> DEFINE n == Len(s)
             Body(u, i) == IF i = 0 THEN 0 ELSE u[i - 1] * Base + s[i]
             Upto(m, u) == \A i \in 0 .. n : i < m => u[i] = Body(u, i)
             T == {m \in Nat : \E u : Upto(m, u)}
  <1>0. n \in Nat
    OBVIOUS
  <1>1. 0 \in T
    <2>1. Upto(0, << >>)
      BY <1>0
    <2> QED
      BY <2>1
  <1>2. ASSUME NEW m \in Nat, m \in T PROVE m + 1 \in T
    <2>1. PICK u : Upto(m, u)
      BY <1>2
    <2> DEFINE v == [i \in 0 .. n |-> Body(u, i)]
    <2>2. ASSUME NEW i \in 0 .. n, i < m + 1 PROVE v[i] = Body(v, i)
      <3>1. CASE i = 0
        BY <3>1
      <3>2. CASE i # 0
        <4>1. i - 1 \in 0 .. n /\ i - 1 < m
          BY <1>0, <2>2, <3>2
        <4>2. u[i - 1] = Body(u, i - 1)
          BY <2>1, <4>1
        <4>3. v[i - 1] = u[i - 1]
          BY <4>1, <4>2
        <4> QED
          BY <3>2, <4>3
      <3> QED
        BY <3>1, <3>2
    <2>3. Upto(m + 1, v)
      BY <2>2
    <2> HIDE DEF v
    <2>4. \E h : Upto(m + 1, h)
      BY <2>3
    <2> HIDE DEF Upto
    <2> QED
      BY <2>4
  <1>3. n + 1 \in T
    <2>1. Nat \subseteq T
      <3> HIDE DEF T
      <3> QED
        BY <1>1, <1>2, Induct
    <2> HIDE DEF T
    <2> QED
      BY <1>0, <2>1
  <1>4. PICK u : Upto(n + 1, u)
    BY <1>3
  <1> DEFINE v == [i \in 0 .. n |-> u[i]]
  <1>5. ASSUME NEW i \in 0 .. n PROVE u[i] = Body(v, i)
    <2>1. u[i] = Body(u, i)
      BY <1>0, <1>4
    <2>2. i # 0 => i - 1 \in 0 .. n
      BY <1>0
    <2> QED
      BY <2>1, <2>2
  <1>6. v = [i \in 0 .. n |-> Body(v, i)]
    BY <1>5
  <1> HIDE DEF v
  <1>7. Counts(s, v)
    BY <1>6 DEF Counts
  <1> QED
    BY <1>7

LEMMA NumberNat ==
  ASSUME NEW s \in Seq(Byte)
  PROVE  Number(s) \in Nat
  <1> DEFINE u == CHOOSE w : Counts(s, w)
             n == Len(s)
             T == {m \in Nat : m <= n => u[m] \in Nat}
  <1>0. n \in Nat /\ \A i \in 1 .. n : s[i] \in Nat
    <2>1. n \in Nat /\ \A i \in 1 .. n : s[i] \in Byte
      <3> DEFINE B == Byte
      <3>1. s \in Seq(B)
        OBVIOUS
      <3> HIDE DEF B
      <3>2. n \in Nat /\ \A i \in 1 .. n : s[i] \in B
        BY <3>1
      <3> QED
        BY <3>2 DEF B
    <2>2. \A x \in Byte : x \in Nat
      BY DEF Byte, Base
    <2> QED
      BY <2>1, <2>2
  <1>1. Number(s) = u[n]
    BY DEF Number, Counts
  <1>2. Counts(s, u)
    BY CountsExists
  <1> HIDE DEF u
  <1>3. \A i \in 0 .. n : u[i] = IF i = 0 THEN 0 ELSE u[i - 1] * Base + s[i]
    BY <1>2 DEF Counts
  <1>4. 0 \in T
    BY <1>0, <1>3
  <1>5. ASSUME NEW m \in Nat, m \in T PROVE m + 1 \in T
    <2>1. CASE m + 1 <= n
      <3>1. u[m] \in Nat /\ m + 1 \in 0 .. n /\ m + 1 # 0 /\ (m + 1) - 1 = m
        BY <1>0, <1>5, <2>1
      <3>2. u[m + 1] = u[m] * Base + s[m + 1]
        <4> DEFINE k == m + 1
        <4>1. k \in 0 .. n /\ k # 0 /\ k - 1 = m
          BY <3>1
        <4> HIDE DEF k
        <4>2. u[k] = u[m] * Base + s[k]
          BY <1>3, <4>1
        <4> QED
          BY <4>2 DEF k
      <3>3. s[m + 1] \in Nat
        BY <1>0, <3>1
      <3> QED
        BY <3>1, <3>2, <3>3 DEF Base
    <2> QED
      BY <1>0, <2>1
  <1>6. Nat \subseteq T
    <2> HIDE DEF T
    <2> QED
      BY <1>4, <1>5, Induct
  <1> QED
    BY <1>0, <1>1, <1>6

LEMMA BytesType ==
  ASSUME NEW N \in Nat, NEW m, Maps(m, 0 .. N - 1, Byte), NEW p \in Nat, NEW n \in Nat,
         p + n <= N
  PROVE  Bytes(m, p, n) \in Seq(Byte) /\ Len(Bytes(m, p, n)) = n
  <1>1. \A i \in 1 .. n : m[p + i - 1] \in Byte
    <2> SUFFICES ASSUME NEW i \in 1 .. n PROVE m[p + i - 1] \in Byte
      OBVIOUS
    <2>1. p + i - 1 \in 0 .. N - 1
      OBVIOUS
    <2> QED
      BY <2>1 DEF Maps
  <1>2. Bytes(m, p, n) \in [1 .. n -> Byte]
    BY <1>1 DEF Bytes
  <1>3. Bytes(m, p, n) \in Seq(Byte)
    <2> DEFINE B == Byte
    <2> HIDE DEF B
    <2>1. \A t \in [1 .. n -> B] : t \in Seq(B)
      OBVIOUS
    <2> QED
      BY <1>2, <2>1 DEF B
  <1> QED
    BY <1>2, <1>3

(* Bytes that are the same have the same value. *)
LEMMA BytesSame ==
  ASSUME NEW m, NEW p \in Int, NEW k, NEW q \in Int, NEW n \in Nat,
         \A i \in 0 .. n - 1 : m[p + i] = k[q + i]
  PROVE  BigEndian(m, p, n) = BigEndian(k, q, n)
  <1>1. ASSUME NEW i \in 1 .. n PROVE m[p + i - 1] = k[q + i - 1]
    <2> DEFINE j == i - 1
    <2>1. j \in 0 .. n - 1 /\ p + i - 1 = p + j /\ q + i - 1 = q + j
      OBVIOUS
    <2> HIDE DEF j
    <2> QED
      BY <2>1
  <1>2. Bytes(m, p, n) = Bytes(k, q, n)
    BY <1>1 DEF Bytes
  <1> QED
    BY <1>2 DEF BigEndian

-----------------------------------------------------------------------------
(* A blob in the buffer that libfdt takes for an edited one.               *)
Sound(b) ==
  /\ b \in BlobOf(FDT_SIZE_MAX)
  /\ fdt_check_header(b) = 0 /\ b.version = 17
  /\ ~blocks_misordered(b, EntrySize, b.size_dt_struct)
  /\ b.size_dt_struct > 0 /\ b.totalsize <= FDT_SIZE_MAX

(* The same in numbers. *)
RsvStart == FDT_ALIGN(HeaderSize, 2 * FDT_TAGSIZE)
Fields(b) ==
  /\ b.off_mem_rsvmap \in Nat /\ b.off_dt_struct \in Nat /\ b.off_dt_strings \in Nat
  /\ b.size_dt_struct \in Nat /\ b.size_dt_strings \in Nat /\ b.totalsize \in Nat
  /\ Maps(b.mem, 0 .. FDT_SIZE_MAX - 1, Byte)
Ordered(b) ==
  /\ RsvStart <= b.off_mem_rsvmap
  /\ b.off_mem_rsvmap + EntrySize <= b.off_dt_struct
  /\ b.off_dt_struct + b.size_dt_struct <= b.off_dt_strings
  /\ b.off_dt_strings + b.size_dt_strings <= b.totalsize
  /\ b.totalsize <= FDT_SIZE_MAX
  /\ b.size_dt_struct > 0

LEMMA Sizes ==
  /\ FDT_TAGSIZE \in Nat /\ FDT_TAGSIZE > 1 /\ FDT_SIZE_MAX \in Nat
  /\ EntrySize \in Nat /\ EntrySize = 4 * FDT_TAGSIZE
  /\ PropSize \in Nat /\ PropSize = 3 * FDT_TAGSIZE
  /\ RsvStart \in Nat /\ RsvStart >= 10 * FDT_TAGSIZE
  <1>1. FDT_TAGSIZE \in Nat /\ FDT_TAGSIZE > 1 /\ FDT_SIZE_MAX \in Nat
    BY TagSizeAssumption, UpdateAssumption
  <1>2. /\ EntrySize \in Nat /\ EntrySize = 4 * FDT_TAGSIZE
        /\ PropSize \in Nat /\ PropSize = 3 * FDT_TAGSIZE
    BY <1>1 DEF EntrySize, PropSize
  <1>3. RsvStart \in Nat /\ RsvStart >= 10 * FDT_TAGSIZE
    <2> DEFINE a == 2 * FDT_TAGSIZE
               y == HeaderSize + a - 1
               q == y \div a
    <2>1. a \in Nat /\ a > 0 /\ y \in Nat /\ y = 10 * FDT_TAGSIZE + a - 1
      BY <1>1 DEF HeaderSize
    <2>2. q \in Nat /\ q * a <= y /\ y < (q + 1) * a
      <3> HIDE DEF a, y
      <3> QED
        BY <2>1
    <2>3. RsvStart = q * a
      BY DEF RsvStart, FDT_ALIGN
    <2> HIDE DEF a, q
    <2>4. q * a \in Nat /\ (q + 1) * a = q * a + a
      BY <2>1, <2>2
    <2> HIDE DEF y
    <2> QED
      BY <2>1, <2>2, <2>3, <2>4, <1>1
  <1> QED
    BY <1>1, <1>2, <1>3

LEMMA SoundFields ==
  ASSUME NEW b, Sound(b)
  PROVE  Fields(b) /\ Ordered(b)
  <1>1. b \in BlobOf(FDT_SIZE_MAX)
    BY DEF Sound
  <1>2. Fields(b)
    BY <1>1 DEF BlobOf, Fields, Maps
  <1>3. /\ ~(b.off_mem_rsvmap < RsvStart)
        /\ ~(b.off_dt_struct < b.off_mem_rsvmap + EntrySize)
        /\ ~(b.off_dt_strings < b.off_dt_struct + b.size_dt_struct)
        /\ ~(b.totalsize < b.off_dt_strings + b.size_dt_strings)
    BY DEF Sound, blocks_misordered, RsvStart
  <1>4. /\ b.off_mem_rsvmap \in Nat /\ b.off_dt_struct \in Nat /\ b.off_dt_strings \in Nat
        /\ b.size_dt_struct \in Nat /\ b.size_dt_strings \in Nat /\ b.totalsize \in Nat
        /\ RsvStart \in Nat /\ EntrySize \in Nat
    BY <1>2, Sizes DEF Fields
  <1>5. b.totalsize <= FDT_SIZE_MAX /\ b.size_dt_struct > 0
    BY DEF Sound
  <1>6. Ordered(b)
    BY <1>3, <1>4, <1>5 DEF Ordered
  <1> QED
    BY <1>2, <1>6

LEMMA Inside ==
  ASSUME NEW b, Sound(b)
  PROVE  /\ b.off_dt_struct \in Nat /\ b.off_dt_struct <= FDT_SIZE_MAX
         /\ data_size(b) \in Nat /\ data_size(b) <= b.totalsize
         /\ data_size(b) <= FDT_SIZE_MAX /\ b.off_dt_struct <= data_size(b)
  <1>1. Fields(b) /\ Ordered(b)
    BY SoundFields
  <1>2. /\ b.off_dt_struct \in Nat /\ b.off_dt_strings \in Nat /\ b.size_dt_struct \in Nat
        /\ b.size_dt_strings \in Nat /\ b.totalsize \in Nat
    BY <1>1 DEF Fields
  <1>3. /\ b.off_dt_struct + b.size_dt_struct <= b.off_dt_strings
        /\ b.off_dt_strings + b.size_dt_strings <= b.totalsize
        /\ b.totalsize <= FDT_SIZE_MAX
    BY <1>1 DEF Ordered
  <1> QED
    BY <1>2, <1>3, Sizes DEF data_size

LEMMA PtrIs ==
  ASSUME NEW b, Sound(b), NEW off, NEW len
  PROVE  fdt_offset_ptr(b, off, len) <=> off + len <= b.size_dt_struct
  BY DEF Sound, fdt_offset_ptr

LEMMA OffsetsAre ==
  ASSUME NEW b, Sound(b)
  PROVE  Cardinality(DOMAIN b.mem) = FDT_SIZE_MAX /\ Offsets(b) = 0 .. FDT_SIZE_MAX
  <1>1. DOMAIN b.mem = 0 .. FDT_SIZE_MAX - 1
    BY SoundFields DEF Fields, Maps
  <1>2. Cardinality(0 .. FDT_SIZE_MAX - 1) = FDT_SIZE_MAX
    <2>1. FDT_SIZE_MAX \in Nat /\ FDT_SIZE_MAX - 1 \in Int
      BY Sizes
    <2>2. Cardinality(0 .. FDT_SIZE_MAX - 1) =
            IF 0 > FDT_SIZE_MAX - 1 THEN 0 ELSE (FDT_SIZE_MAX - 1) - 0 + 1
      BY <2>1, FS_Interval
    <2> QED
      BY <2>1, <2>2
  <1> QED
    BY <1>1, <1>2 DEF Offsets

(* A place in the structure block, and a word of it. *)
LEMMA EndIn ==
  ASSUME NEW b, Sound(b), NEW off \in Nat, off + FDT_TAGSIZE <= b.size_dt_struct
  PROVE  (b.off_dt_struct + off) + FDT_TAGSIZE <= FDT_SIZE_MAX
  <1>1. Fields(b) /\ Ordered(b)
    BY SoundFields
  <1>2. /\ b.off_dt_struct \in Nat /\ b.off_dt_strings \in Nat /\ b.size_dt_struct \in Nat
        /\ b.size_dt_strings \in Nat /\ b.totalsize \in Nat
    BY <1>1 DEF Fields
  <1>3. /\ b.off_dt_struct + b.size_dt_struct <= b.off_dt_strings
        /\ b.off_dt_strings + b.size_dt_strings <= b.totalsize
        /\ b.totalsize <= FDT_SIZE_MAX
    BY <1>1 DEF Ordered
  <1> QED
    BY <1>2, <1>3, Sizes

LEMMA WordNat ==
  ASSUME NEW b, Sound(b), NEW off \in Nat, off + FDT_TAGSIZE <= b.size_dt_struct
  PROVE  WordAt(b, off) \in Nat
  <1> DEFINE p == b.off_dt_struct + off
             s == Bytes(b.mem, p, FDT_TAGSIZE)
  <1>1. p \in Nat /\ FDT_TAGSIZE \in Nat /\ p + FDT_TAGSIZE <= FDT_SIZE_MAX
        /\ FDT_SIZE_MAX \in Nat /\ Maps(b.mem, 0 .. FDT_SIZE_MAX - 1, Byte)
    <2>1. Fields(b) /\ Ordered(b)
      BY SoundFields
    <2>2. Maps(b.mem, 0 .. FDT_SIZE_MAX - 1, Byte) /\ p \in Nat
      BY <2>1 DEF Fields
    <2>3. (b.off_dt_struct + off) + FDT_TAGSIZE <= FDT_SIZE_MAX
      BY EndIn
    <2> QED
      BY <2>2, <2>3, Sizes
  <1> HIDE DEF p
  <1>2. s \in Seq(Byte)
    BY <1>1, BytesType
  <1>3. Number(s) \in Nat
    <2> HIDE DEF s
    <2> QED
      BY <1>2, NumberNat
  <1> QED
    BY <1>3 DEF WordAt, fdt32_to_cpu, BigEndian, p

(* The end of a name is in the block, where the search starts or after.    *)
LEMMA NameEndIs ==
  ASSUME NEW b, Sound(b), NEW off \in Nat, off + FDT_TAGSIZE <= b.size_dt_struct
  PROVE  NameEnd(b, off) = -1 \/ (NameEnd(b, off) \in Nat /\ off < NameEnd(b, off))
  <1> DEFINE Stops(q) == ~fdt_offset_ptr(b, q, 1) \/ ByteAt(b, q) = NUL
             first == off + FDT_TAGSIZE
             n == Cardinality(DOMAIN b.mem)
             S == {q \in first .. n : Stops(q)}
             end == CHOOSE q \in first .. n :
                      Stops(q) /\ \A p \in first .. q - 1 : ~Stops(p)
             size == b.size_dt_struct
  <1>1. n \in Nat /\ first \in Nat /\ off < first /\ size \in first .. n
    <2>1. Fields(b) /\ Ordered(b) /\ n = FDT_SIZE_MAX
      BY SoundFields, OffsetsAre
    <2>2. size \in Nat /\ size <= FDT_SIZE_MAX /\ FDT_SIZE_MAX \in Nat
      BY <2>1, Sizes DEF Fields, Ordered
    <2>3. (off + FDT_TAGSIZE) \in Nat /\ off < (off + FDT_TAGSIZE)
      BY Sizes
    <2> QED
      BY <2>1, <2>2, <2>3
  <1>2. Stops(size)
    <2>1. size \in Int /\ ~(size + 1 <= size)
      BY <1>1
    <2> QED
      BY <2>1, PtrIs
  <1>3. size \in S
    BY <1>1, <1>2
  <1>4. \E q \in first .. n : Stops(q) /\ \A p \in first .. q - 1 : ~Stops(p)
    <2> HIDE DEF Stops, n, first, size
    <2>1. S \subseteq Nat /\ S # {}
      BY <1>1, <1>3
    <2>2. PICK q \in S : \A p \in S : q <= p
      <3> HIDE DEF S
      <3> QED
        BY <2>1, Smallest
    <2>3. ASSUME NEW p \in first .. q - 1 PROVE ~Stops(p)
      <3>1. q \in first .. n /\ n \in Nat /\ first \in Nat
        BY <1>1
      <3>2. p \in first .. n /\ ~(q <= p)
        BY <3>1
      <3> QED
        BY <2>2, <3>2
    <2> QED
      BY <2>2, <2>3
  <1>5. end \in first .. n
    <2> HIDE DEF Stops, n, first
    <2> QED
      BY <1>4
  <1>6. NameEnd(b, off) = IF fdt_offset_ptr(b, end, 1) THEN end ELSE -1
    BY DEF NameEnd
  <1> HIDE DEF end, n, first
  <1> QED
    BY <1>1, <1>5, <1>6

(* What the walk of the tags can rely on: a tag that is not the last one   *)
(* is in the block with all that belongs to it, and the next one is        *)
(* further on, aligned, and at most just after the block.                  *)
Kinds == {FDT_BEGIN_NODE, FDT_END_NODE, FDT_PROP, FDT_NOP, FDT_END}
Tagged(b, off, t) ==
  /\ t.next \in Int /\ t.tag \in Kinds
  /\ t.tag # FDT_END =>
       /\ t.next \in Aligned /\ off < t.next
       /\ t.next <= b.size_dt_struct + FDT_TAGSIZE - 1
       /\ off + FDT_TAGSIZE <= b.size_dt_struct
  /\ t.tag = FDT_PROP =>
       /\ PropLen(b, off) \in Nat
       /\ (off + PropSize) + PropLen(b, off) <= b.size_dt_struct

LEMMA Codes ==
  /\ FDT_BEGIN_NODE = 1 /\ FDT_END_NODE = 2 /\ FDT_PROP = 3 /\ FDT_NOP = 4 /\ FDT_END = 9
  /\ TRUNCATED = 8 /\ BADSTRUCTURE = 11 /\ BADOFFSET = 4 /\ NOTFOUND = 1 /\ NUL = 0
  BY DEF FDT_BEGIN_NODE, FDT_END_NODE, FDT_PROP, FDT_NOP, FDT_END, TRUNCATED,
         BADSTRUCTURE, BADOFFSET, NOTFOUND, NUL

LEMMA NextTag ==
  ASSUME NEW b, Sound(b), NEW off \in Nat
  PROVE  Tagged(b, off, fdt_next_tag(b, off))
  <1> DEFINE t == fdt_next_tag(b, off)
             size == b.size_dt_struct
  <1> SUFFICES Tagged(b, off, t)
    OBVIOUS
  <1>0. size \in Nat /\ FDT_TAGSIZE \in Nat /\ FDT_TAGSIZE > 1
    BY SoundFields, Sizes DEF Fields
  <1>1. CASE ~fdt_offset_ptr(b, off, FDT_TAGSIZE)
    <2>1. t = [tag |-> FDT_END, next |-> -TRUNCATED]
      BY <1>1 DEF fdt_next_tag
    <2> HIDE DEF t
    <2> QED
      BY <2>1, Codes DEF Tagged, Kinds
  <1>2. CASE fdt_offset_ptr(b, off, FDT_TAGSIZE)
    <2> DEFINE w == WordAt(b, off)
               end == TagEnd(b, off, w)
               C == /\ w \in {FDT_BEGIN_NODE, FDT_END_NODE, FDT_PROP, FDT_NOP, FDT_END}
                    /\ w = FDT_BEGIN_NODE => end > 0
                    /\ w = FDT_PROP => fdt_offset_ptr(b, off + FDT_TAGSIZE, FDT_TAGSIZE)
                    /\ fdt_offset_ptr(b, off, end - off)
    <2>1. off + FDT_TAGSIZE <= size
      BY <1>2, PtrIs
    <2>2. t = IF C THEN [tag |-> w, next |-> FDT_TAGALIGN(end)]
              ELSE [tag |-> FDT_END, next |-> -BADSTRUCTURE]
      BY <1>2 DEF fdt_next_tag, TagUpTo
    <2>3. CASE ~C
      <3>1. t = [tag |-> FDT_END, next |-> -BADSTRUCTURE]
        BY <2>2, <2>3
      <3> HIDE DEF t
      <3> QED
        BY <3>1, Codes DEF Tagged, Kinds
    <2>4. CASE C
      <3>0. t = [tag |-> w, next |-> FDT_TAGALIGN(end)] /\ (off + (end - off) <= size)
        BY <2>2, <2>4, PtrIs
      <3>8. w \in Kinds
        BY <2>4 DEF Kinds
      <3>1. w = FDT_PROP =>
              /\ PropLen(b, off) \in Nat /\ end = (off + PropSize) + PropLen(b, off)
        <4> SUFFICES ASSUME w = FDT_PROP
                     PROVE  PropLen(b, off) \in Nat /\ end = (off + PropSize) + PropLen(b, off)
          OBVIOUS
        <4> DEFINE o == off + FDT_TAGSIZE
        <4>1. fdt_offset_ptr(b, o, FDT_TAGSIZE) /\ o \in Nat
          BY <1>0, <2>4
        <4>2. o + FDT_TAGSIZE <= b.size_dt_struct
          BY <4>1, PtrIs
        <4> HIDE DEF o
        <4>3. WordAt(b, o) \in Nat
          BY <4>1, <4>2, WordNat
        <4>4. PropLen(b, off) = WordAt(b, o)
          BY DEF PropLen, o
        <4>5. end = (off + PropSize) + WordAt(b, o)
          BY Codes DEF TagEnd, o
        <4> QED
          BY <4>3, <4>4, <4>5
      <3>2. end \in Nat /\ off < end
        <4>1. CASE w = FDT_PROP
          BY <3>1, <4>1, <1>0, Sizes
        <4>2. CASE w = FDT_BEGIN_NODE
          <5>1. end = NameEnd(b, off) + 1
            BY <4>2, Codes DEF TagEnd
          <5>2. end > 0
            BY <2>4, <4>2
          <5> QED
            BY <5>1, <5>2, <2>1, NameEndIs
        <4>3. CASE w # FDT_PROP /\ w # FDT_BEGIN_NODE
          <5>1. end = off + FDT_TAGSIZE
            BY <4>3, Codes DEF TagEnd
          <5> QED
            BY <5>1, <1>0
        <4> QED
          BY <4>1, <4>2, <4>3
      <3> HIDE DEF end, w, C
      <3>3. end <= size
        BY <3>0, <3>2, <1>0
      <3>4. /\ FDT_TAGALIGN(end) \in Nat /\ FDT_TAGALIGN(end) \in Aligned
            /\ end <= FDT_TAGALIGN(end) /\ FDT_TAGALIGN(end) <= end + FDT_TAGSIZE - 1
        BY <3>2, TagAlign
      <3>5. t.tag = w /\ t.next = FDT_TAGALIGN(end)
        BY <3>0
      <3> HIDE DEF t
      <3>6. t.next \in Int /\ off < t.next /\ t.next <= size + FDT_TAGSIZE - 1
            /\ t.next \in Aligned
        BY <3>2, <3>3, <3>4, <3>5, <1>0
      <3>7. t.tag = FDT_PROP => /\ PropLen(b, off) \in Nat
                                /\ (off + PropSize) + PropLen(b, off) <= size
        BY <3>1, <3>3, <3>5
      <3> QED
        BY <2>1, <3>5, <3>6, <3>7, <3>8 DEF Tagged
    <2> QED
      BY <2>3, <2>4
  <1> QED
    BY <1>1, <1>2

LEMMA InOffsets ==
  ASSUME NEW b, Sound(b), NEW x \in Nat, x <= b.size_dt_struct + FDT_TAGSIZE - 1
  PROVE  x \in Offsets(b)
  <1>1. Fields(b) /\ Ordered(b) /\ Offsets(b) = 0 .. FDT_SIZE_MAX
    BY SoundFields, OffsetsAre
  <1>2. /\ b.off_mem_rsvmap \in Nat /\ b.off_dt_struct \in Nat /\ b.off_dt_strings \in Nat
        /\ b.size_dt_struct \in Nat /\ b.size_dt_strings \in Nat /\ b.totalsize \in Nat
    BY <1>1 DEF Fields
  <1>3. /\ RsvStart <= b.off_mem_rsvmap /\ b.off_mem_rsvmap + EntrySize <= b.off_dt_struct
        /\ b.off_dt_struct + b.size_dt_struct <= b.off_dt_strings
        /\ b.off_dt_strings + b.size_dt_strings <= b.totalsize
        /\ b.totalsize <= FDT_SIZE_MAX
    BY <1>1 DEF Ordered
  <1>4. x <= FDT_SIZE_MAX
    BY <1>2, <1>3, Sizes
  <1> QED
    BY <1>1, <1>4, Sizes

(* The result of CheckTag: an error, or where the next tag is.             *)
Checked(b, off, r) ==
  r \in Int /\ (r >= 0 => off \in Nat /\ off < r /\ r \in Aligned /\ r \in Offsets(b))

LEMMA CheckTagIs ==
  ASSUME NEW b, Sound(b), NEW off \in Int, NEW tag, tag # FDT_END
  PROVE  Checked(b, off, CheckTag(b, off, tag))
  <1> DEFINE t == fdt_next_tag(b, off)
             r == CheckTag(b, off, tag)
  <1> SUFFICES Checked(b, off, r)
    OBVIOUS
  <1>1. r = IF off < 0 \/ off % FDT_TAGSIZE # 0 THEN -BADOFFSET
            ELSE IF t.tag = tag THEN t.next ELSE -BADOFFSET
    BY DEF CheckTag
  <1>2. -BADOFFSET \in Int /\ ~(-BADOFFSET >= 0)
    BY Codes
  <1> HIDE DEF r
  <1>3. CASE r = -BADOFFSET
    BY <1>2, <1>3 DEF Checked
  <1>4. CASE r # -BADOFFSET
    <2>1. off \in Nat /\ r = t.next /\ t.tag # FDT_END
      BY <1>1, <1>4
    <2>2. Tagged(b, off, t)
      BY <2>1, NextTag
    <2> HIDE DEF t
    <2>3. r \in Nat /\ off < r /\ r \in Aligned /\ r <= b.size_dt_struct + FDT_TAGSIZE - 1
      BY <2>1, <2>2, AlignedNat DEF Tagged
    <2> QED
      BY <2>1, <2>3, InOffsets DEF Checked
  <1> QED
    BY <1>3, <1>4

LEMMA CheckOffsets ==
  ASSUME NEW b, Sound(b), NEW off \in Int
  PROVE  /\ Checked(b, off, fdt_check_node_offset(b, off))
         /\ Checked(b, off, fdt_check_prop_offset(b, off))
  BY Codes, CheckTagIs DEF fdt_check_node_offset, fdt_check_prop_offset

-----------------------------------------------------------------------------
(* The properties of a node: a search ends with an error, or with the      *)
(* offset of a property no earlier than where it began.                    *)
PropFrom(b, off) ==
  {r \in Int : r >= 0 => off <= r /\ r \in Nat /\ fdt_next_tag(b, r).tag = FDT_PROP}

NextPropBody(b, f, off) ==
  LET Go(t) == IF t.tag = FDT_NOP THEN f[t.next]
               ELSE IF t.tag = FDT_PROP THEN off ELSE NoProp(t)
  IN Go(fdt_next_tag(b, off))

(* Walking the tags, up to FDT_END at the latest. *)
TagSucc(b) == [x \in Offsets(b) |-> fdt_next_tag(b, x).next]
TagRank(b) == [x \in Offsets(b) |-> FDT_SIZE_MAX - x]

LEMMA TagsFall ==
  ASSUME NEW b, Sound(b), NEW Stop,
         \A x \in Offsets(b) : x \notin Stop => fdt_next_tag(b, x).tag # FDT_END
  PROVE  /\ Falls(Offsets(b), Stop, TagSucc(b), TagRank(b), FDT_SIZE_MAX)
         /\ \A x \in Offsets(b) :
              x \notin Stop => TagSucc(b)[x] \in Offsets(b) /\ x < TagSucc(b)[x]
  <1> DEFINE S == Offsets(b)
             N == FDT_SIZE_MAX
             succ == TagSucc(b)
             rank == TagRank(b)
  <1>1. N \in Nat /\ S = 0 .. N
    BY OffsetsAre, Sizes
  <1>2. ASSUME NEW x \in S, x \notin Stop PROVE succ[x] \in S /\ x < succ[x]
    <2>1. fdt_next_tag(b, x).tag # FDT_END /\ x \in Nat
      BY <1>1, <1>2
    <2> DEFINE y == fdt_next_tag(b, x).next
    <2>2. Tagged(b, x, fdt_next_tag(b, x))
      BY <2>1, NextTag
    <2>3. y \in Nat /\ x < y /\ y <= b.size_dt_struct + FDT_TAGSIZE - 1
      BY <2>1, <2>2, AlignedNat DEF Tagged
    <2> HIDE DEF y
    <2>4. y \in S
      BY <2>3, InOffsets
    <2> QED
      BY <2>3, <2>4 DEF y, TagSucc
  <1>3. rank \in [S -> 0 .. N]
    BY <1>1 DEF TagRank
  <1>4. ASSUME NEW x \in S, x \notin Stop PROVE succ[x] \in S /\ rank[succ[x]] < rank[x]
    <2> DEFINE y == succ[x]
    <2>1. y \in S /\ x < y
      BY <1>2, <1>4
    <2> HIDE DEF y
    <2> QED
      BY <1>1, <2>1 DEF y, TagRank
  <1> HIDE DEF rank, succ, S, N
  <1>5. Falls(S, Stop, succ, rank, N)
    BY <1>3, <1>4 DEF Falls
  <1> QED
    BY <1>2, <1>5 DEF S, succ, rank, N

PropStop(b) == {x \in Offsets(b) : fdt_next_tag(b, x).tag # FDT_NOP}
PropVal(b) ==
  [x \in Offsets(b) |-> IF fdt_next_tag(b, x).tag = FDT_PROP THEN x
                        ELSE NoProp(fdt_next_tag(b, x))]

LEMMA PropFalls ==
  ASSUME NEW b, Sound(b)
  PROVE  /\ Falls(Offsets(b), PropStop(b), TagSucc(b), TagRank(b), FDT_SIZE_MAX)
         /\ \A x \in Offsets(b) :
              x \notin PropStop(b) => TagSucc(b)[x] \in Offsets(b) /\ x < TagSucc(b)[x]
  <1>1. \A x \in Offsets(b) : x \notin PropStop(b) => fdt_next_tag(b, x).tag # FDT_END
    BY Codes DEF PropStop
  <1> QED
    BY <1>1, TagsFall

LEMMA NextPropRecurs ==
  ASSUME NEW b, Sound(b)
  PROVE  \E f : /\ Recurs(f, Offsets(b), PropStop(b), PropVal(b), TagSucc(b))
                /\ \A x \in Offsets(b) : nextprop(b, x) = f[x]
  <1> DEFINE S == Offsets(b)
             Stop == PropStop(b)
             val == PropVal(b)
             succ == TagSucc(b)
             from == CHOOSE f : f = [off \in S |-> NextPropBody(b, f, off)]
  <1>1. ASSUME NEW f, NEW x \in S
        PROVE  NextPropBody(b, f, x) = IF x \in Stop THEN val[x] ELSE f[succ[x]]
    <2>1. CASE x \in Stop
      BY <2>1 DEF NextPropBody, PropStop, PropVal
    <2>2. CASE x \notin Stop
      <3>1. fdt_next_tag(b, x).tag = FDT_NOP
        BY <2>2 DEF PropStop
      <3>2. NextPropBody(b, f, x) = f[fdt_next_tag(b, x).next]
        BY <3>1, Codes DEF NextPropBody
      <3> QED
        BY <2>2, <3>2 DEF TagSucc
    <2> QED
      BY <2>1, <2>2
  <1>2. \A x \in S : nextprop(b, x) = from[x]
    BY DEF nextprop, NextPropBody
  <1>3. \A f : (f = [off \in S |-> NextPropBody(b, f, off)]) <=> Recurs(f, S, Stop, val, succ)
    <2>1. ASSUME NEW f
          PROVE  [off \in S |-> NextPropBody(b, f, off)]
                 = [x \in S |-> IF x \in Stop THEN val[x] ELSE f[succ[x]]]
      <3> HIDE DEF S, Stop, val, succ
      <3> QED
        BY <1>1
    <2> HIDE DEF S, Stop, val, succ
    <2> QED
      BY <2>1, Zenon DEF Recurs
  <1>4. \E f : Recurs(f, S, Stop, val, succ)
    BY PropFalls, Sizes, TailRecursion
  <1> HIDE DEF S, Stop, val, succ
  <1>5. Recurs(from, S, Stop, val, succ)
    BY <1>3, <1>4, Zenon
  <1> HIDE DEF from
  <1> QED
    BY <1>2, <1>5 DEF S, Stop, val, succ

LEMMA NextProp ==
  ASSUME NEW b, Sound(b), NEW offset \in Offsets(b)
  PROVE  nextprop(b, offset) \in PropFrom(b, offset)
  <1> DEFINE S == Offsets(b)
             N == FDT_SIZE_MAX
             Stop == PropStop(b)
             Val(x) == IF fdt_next_tag(b, x).tag = FDT_PROP THEN x
                       ELSE NoProp(fdt_next_tag(b, x))
             val == PropVal(b)
             succ == TagSucc(b)
             P == {x \in S : offset <= x}
             R == PropFrom(b, offset)
  <1>1. N \in Nat /\ S = 0 .. N
    BY OffsetsAre, Sizes
  <1>2. ASSUME NEW x \in S PROVE x \in Nat /\ Tagged(b, x, fdt_next_tag(b, x))
    BY <1>1, <1>2, NextTag
  <1>3. ASSUME NEW x \in S, x \notin Stop PROVE succ[x] \in S /\ x < succ[x]
    BY <1>3, PropFalls
  <1>4. Falls(S, Stop, succ, TagRank(b), N)
    BY PropFalls
  <1>7. Ends(P, Stop, val, R)
    <2> SUFFICES ASSUME NEW x \in P, x \in Stop PROVE val[x] \in R
      BY DEF Ends
    <2> DEFINE t == fdt_next_tag(b, x)
    <2>1. x \in S /\ offset <= x /\ t.next \in Int /\ x \in Nat
      BY <1>2 DEF Tagged
    <2>2. Val(x) \in Int /\ (Val(x) >= 0 => Val(x) = x /\ t.tag = FDT_PROP)
      <3> HIDE DEF t
      <3>1. NoProp(t) \in Int /\ ~(NoProp(t) >= 0)
        <4>1. CASE t.tag # FDT_END
          BY <4>1, Codes DEF NoProp
        <4>2. CASE t.tag = FDT_END /\ t.next >= 0
          BY <2>1, <4>2, Codes DEF NoProp
        <4>3. CASE t.tag = FDT_END /\ t.next < 0
          BY <2>1, <4>3, Codes DEF NoProp
        <4> QED
          BY <2>1, <4>1, <4>2, <4>3
      <3>2. Val(x) = IF t.tag = FDT_PROP THEN x ELSE NoProp(t)
        BY DEF t
      <3> HIDE DEF Val
      <3> QED
        BY <2>1, <3>1, <3>2
    <2>3. val[x] = Val(x)
      BY <2>1 DEF PropVal
    <2> HIDE DEF val, Val
    <2> QED
      BY <2>1, <2>2, <2>3 DEF PropFrom
  <1>8. Closed(P, S, Stop, succ)
    <2>1. ASSUME NEW x \in P, x \notin Stop PROVE succ[x] \in P
      <3>1. x \in S /\ offset <= x
        OBVIOUS
      <3>2. succ[x] \in S /\ x < succ[x]
        BY <1>3, <2>1, <3>1
      <3> DEFINE y == succ[x]
      <3> HIDE DEF y, succ
      <3>3. y \in S /\ offset <= y
        BY <1>1, <3>1, <3>2 DEF y
      <3> QED
        BY <3>3 DEF y
    <2>2. P \subseteq S
      OBVIOUS
    <2> HIDE DEF P, Stop, succ
    <2> QED
      BY <2>1, <2>2 DEF Closed
  <1>10. PICK from : Recurs(from, S, Stop, val, succ) /\ nextprop(b, offset) = from[offset]
    BY NextPropRecurs
  <1> HIDE DEF Stop, val, succ, P, R, S
  <1>12. offset \in P
    BY <1>1 DEF P, S
  <1>13. \A x \in P : from[x] \in R
    BY <1>1, <1>4, <1>7, <1>8, <1>10, TailInvariant
  <1> QED
    BY <1>10, <1>12, <1>13 DEF R

(* The same, a tag at a time. *)
LEMMA NextPropUnfolds ==
  ASSUME NEW b, Sound(b), NEW x \in Offsets(b)
  PROVE  LET t == fdt_next_tag(b, x) IN
         /\ t.tag = FDT_NOP => nextprop(b, x) = nextprop(b, t.next)
         /\ t.tag = FDT_PROP => nextprop(b, x) = x
         /\ t.tag \notin {FDT_NOP, FDT_PROP} => nextprop(b, x) = NoProp(t)
  <1> DEFINE t == fdt_next_tag(b, x)
             S == Offsets(b)
  <1>1. PICK f : /\ Recurs(f, S, PropStop(b), PropVal(b), TagSucc(b))
                 /\ \A y \in S : nextprop(b, y) = f[y]
    BY NextPropRecurs
  <1>2. f[x] = IF x \in PropStop(b) THEN PropVal(b)[x] ELSE f[TagSucc(b)[x]]
    <2> DEFINE g == [y \in S |-> IF y \in PropStop(b) THEN PropVal(b)[y]
                                 ELSE f[TagSucc(b)[y]]]
    <2>1. f = g
      BY <1>1 DEF Recurs
    <2>2. f[x] = g[x]
      BY <2>1, Zenon
    <2> QED
      BY <2>2
  <1>3. CASE t.tag = FDT_NOP
    <2>1. x \notin PropStop(b)
      BY <1>3 DEF PropStop
    <2>2. TagSucc(b)[x] \in S
      BY <2>1, PropFalls
    <2>3. TagSucc(b)[x] = t.next
      BY DEF TagSucc
    <2> HIDE DEF t, S
    <2>4. nextprop(b, x) = nextprop(b, t.next)
      BY <1>1, <1>2, <2>1, <2>2, <2>3 DEF S
    <2> QED
      BY <1>3, <2>4, Codes DEF t
  <1>4. CASE t.tag # FDT_NOP
    <2>1. x \in PropStop(b)
      BY <1>4 DEF PropStop
    <2>2. nextprop(b, x) = PropVal(b)[x]
      BY <1>1, <1>2, <2>1
    <2> QED
      BY <1>4, <2>2, Codes DEF PropVal
  <1> QED
    BY <1>3, <1>4

LEMMA FirstProperty ==
  ASSUME NEW b, Sound(b), NEW node \in Int
  PROVE  fdt_first_property_offset(b, node) \in PropFrom(b, 0)
  <1> DEFINE c == fdt_check_node_offset(b, node)
  <1>1. Checked(b, node, c)
    BY CheckOffsets
  <1>2. fdt_first_property_offset(b, node) = IF c < 0 THEN c ELSE nextprop(b, c)
    BY DEF fdt_first_property_offset, OrError
  <1> HIDE DEF c
  <1>3. CASE c < 0
    BY <1>1, <1>2, <1>3 DEF Checked, PropFrom
  <1>4. CASE ~(c < 0)
    <2>1. c \in Offsets(b) /\ c \in Nat
      BY <1>1, <1>4 DEF Checked
    <2>2. nextprop(b, c) \in PropFrom(b, c)
      BY <2>1, NextProp
    <2>3. nextprop(b, c) \in PropFrom(b, 0)
      BY <2>1, <2>2 DEF PropFrom
    <2> QED
      BY <1>2, <1>4, <2>3
  <1> QED
    BY <1>1, <1>3, <1>4 DEF Checked

LEMMA NextProperty ==
  ASSUME NEW b, Sound(b), NEW prop \in Int
  PROVE  /\ fdt_next_property_offset(b, prop) \in PropFrom(b, 0)
         /\ fdt_next_property_offset(b, prop) >= 0 =>
              prop \in Nat /\ prop < fdt_next_property_offset(b, prop)
  <1> DEFINE c == fdt_check_prop_offset(b, prop)
  <1>1. Checked(b, prop, c)
    BY CheckOffsets
  <1>2. fdt_next_property_offset(b, prop) = IF c < 0 THEN c ELSE nextprop(b, c)
    BY DEF fdt_next_property_offset, OrError
  <1> HIDE DEF c
  <1>3. CASE c < 0
    BY <1>1, <1>2, <1>3 DEF Checked, PropFrom
  <1>4. CASE ~(c < 0)
    <2>1. c \in Offsets(b) /\ c \in Nat /\ prop \in Nat /\ prop < c
      BY <1>1, <1>4 DEF Checked
    <2> DEFINE r == nextprop(b, c)
    <2>2. r \in PropFrom(b, c)
      BY <2>1, NextProp
    <2>3. fdt_next_property_offset(b, prop) = r
      BY <1>2, <1>4
    <2> HIDE DEF r
    <2>4. r \in PropFrom(b, 0) /\ (r >= 0 => prop < r)
      BY <2>1, <2>2 DEF PropFrom
    <2> QED
      BY <2>1, <2>3, <2>4
  <1> QED
    BY <1>1, <1>3, <1>4 DEF Checked

(* A property is in the block with its value.                              *)
LEMMA PropAt ==
  ASSUME NEW b, Sound(b), NEW p \in PropFrom(b, 0), p >= 0
  PROVE  /\ p \in Nat /\ p <= FDT_SIZE_MAX /\ PropLen(b, p) \in Nat
         /\ (p + PropSize) + PropLen(b, p) <= b.size_dt_struct
  <1>1. p \in Nat /\ fdt_next_tag(b, p).tag = FDT_PROP
    BY DEF PropFrom
  <1>2. Tagged(b, p, fdt_next_tag(b, p))
    BY <1>1, NextTag
  <1>3. PropLen(b, p) \in Nat /\ (p + PropSize) + PropLen(b, p) <= b.size_dt_struct
    BY <1>1, <1>2 DEF Tagged
  <1>4. b.size_dt_struct \in Nat /\ b.size_dt_struct <= FDT_SIZE_MAX
    BY SoundFields, Sizes DEF Fields, Ordered
  <1>5. p <= FDT_SIZE_MAX
    BY <1>1, <1>3, <1>4, Sizes
  <1> QED
    BY <1>1, <1>3, <1>5

SearchStop(b, name) == {x \in Int : x < 0 \/ PropName(b, x) = name}
SearchVal == [x \in Int |-> x]
SearchSucc(b) == [x \in Int |-> fdt_next_property_offset(b, x)]
SearchRank(b, name) ==
  [x \in Int |-> IF x \in SearchStop(b, name) THEN 0
                 ELSE IF x <= FDT_SIZE_MAX THEN (FDT_SIZE_MAX + 2) - x ELSE 1]

LEMMA SearchFalls ==
  ASSUME NEW b, Sound(b), NEW name
  PROVE  /\ Falls(Int, SearchStop(b, name), SearchSucc(b), SearchRank(b, name),
                  FDT_SIZE_MAX + 2)
         /\ \A x \in Int : x \notin SearchStop(b, name) => SearchSucc(b)[x] \in PropFrom(b, 0)
  <1> DEFINE S == Int
             N == FDT_SIZE_MAX + 2
             Stop == SearchStop(b, name)
             succ == SearchSucc(b)
             Rank(x) == IF x \in Stop THEN 0 ELSE IF x <= FDT_SIZE_MAX THEN N - x ELSE 1
             rank == SearchRank(b, name)
             P == PropFrom(b, 0)
  <1>1. FDT_SIZE_MAX \in Nat /\ N \in Nat /\ S = Int
    BY Sizes
  <1>3. ASSUME NEW x \in S, x \notin Stop
        PROVE  /\ x \in Nat /\ succ[x] \in P /\ succ[x] \in S
               /\ succ[x] \notin Stop => x < succ[x] /\ succ[x] <= FDT_SIZE_MAX
    <2> DEFINE y == fdt_next_property_offset(b, x)
    <2>1. y \in P /\ (y >= 0 => x < y)
      BY NextProperty
    <2>2. y \in Int
      BY <2>1 DEF PropFrom
    <2>3. y >= 0 => y <= FDT_SIZE_MAX
      <3> HIDE DEF y
      <3> QED
        BY <2>1, PropAt
    <2> HIDE DEF y, P
    <2>4. x \in Nat /\ succ[x] = y
      BY <1>3 DEF y, SearchStop, SearchSucc
    <2>5. y \notin Stop => y >= 0
      BY <2>2 DEF SearchStop
    <2> QED
      BY <2>1, <2>2, <2>3, <2>4, <2>5
  <1>4. Falls(S, Stop, succ, rank, N)
    <2>1. ASSUME NEW x \in S PROVE Rank(x) \in 0 .. N
      <3>1. CASE x \in Stop
        BY <1>1, <3>1
      <3>2. CASE x \notin Stop
        <4>1. x \in Nat
          BY <1>3, <3>2
        <4> HIDE DEF Stop
        <4> QED
          BY <1>1, <3>2, <4>1
      <3> QED
        BY <3>1, <3>2
    <2>6. rank = [x \in S |-> Rank(x)]
      BY Zenon DEF SearchRank
    <2> HIDE DEF rank
    <2>2. rank \in [S -> 0 .. N]
      <3> HIDE DEF Rank, S, N
      <3> QED
        BY <2>1, <2>6
    <2>3. ASSUME NEW x \in S, x \notin Stop PROVE succ[x] \in S /\ rank[succ[x]] < rank[x]
      <3> DEFINE y == succ[x]
      <3>1. x \in Nat /\ y \in S /\ (y \notin Stop => x < y /\ y <= FDT_SIZE_MAX)
        BY <1>3, <2>3
      <3> HIDE DEF y
      <3>2. rank[y] = Rank(y) /\ rank[x] = Rank(x) /\ y \in Int
        BY <2>6, <3>1
      <3> HIDE DEF Stop, succ
      <3>3. Rank(y) < Rank(x)
        BY <1>1, <2>3, <3>1, <3>2
      <3> QED
        BY <3>1, <3>2, <3>3 DEF y
    <2> HIDE DEF succ, Stop, S, N
    <2> QED
      BY <2>2, <2>3 DEF Falls
  <1> QED
    BY <1>3, <1>4

LEMMA GetRecurs ==
  ASSUME NEW b, Sound(b), NEW name
  PROVE  \E f : /\ Recurs(f, Int, SearchStop(b, name), SearchVal, SearchSucc(b))
                /\ \A node : fdt_get_property(b, node, name) = f[fdt_first_property_offset(b, node)]
  <1> DEFINE S == Int
             Stop == SearchStop(b, name)
             val == SearchVal
             succ == SearchSucc(b)
             search == CHOOSE f : f = [off \in S |->
                                         IF off < 0 \/ PropName(b, off) = name THEN off
                                         ELSE f[fdt_next_property_offset(b, off)]]
  <1>1. \A node : fdt_get_property(b, node, name) = search[fdt_first_property_offset(b, node)]
    BY DEF fdt_get_property
  <1>2. \A f : (f = [off \in S |-> IF off < 0 \/ PropName(b, off) = name THEN off
                                   ELSE f[fdt_next_property_offset(b, off)]])
               <=> Recurs(f, S, Stop, val, succ)
    <2>1. ASSUME NEW f
          PROVE  [off \in S |-> IF off < 0 \/ PropName(b, off) = name THEN off
                                ELSE f[fdt_next_property_offset(b, off)]]
                 = [x \in S |-> IF x \in Stop THEN val[x] ELSE f[succ[x]]]
      BY DEF SearchStop, SearchVal, SearchSucc
    <2> HIDE DEF S, Stop, val, succ
    <2> QED
      BY <2>1, Zenon DEF Recurs
  <1>3. \E f : Recurs(f, S, Stop, val, succ)
    BY SearchFalls, Sizes, TailRecursion
  <1> HIDE DEF S, Stop, val, succ
  <1>4. Recurs(search, S, Stop, val, succ)
    BY <1>2, <1>3, Zenon
  <1> HIDE DEF search
  <1> QED
    BY <1>1, <1>4 DEF S, Stop, val, succ

LEMMA GetProperty ==
  ASSUME NEW b, Sound(b), NEW node \in Int, NEW name
  PROVE  fdt_get_property(b, node, name) \in PropFrom(b, 0)
  <1> DEFINE S == Int
             N == FDT_SIZE_MAX + 2
             Stop == SearchStop(b, name)
             val == SearchVal
             succ == SearchSucc(b)
             P == PropFrom(b, 0)
             first == fdt_first_property_offset(b, node)
  <1>1. N \in Nat /\ P \subseteq S
    BY Sizes DEF PropFrom
  <1>2. PICK search : /\ Recurs(search, S, Stop, val, succ)
                      /\ fdt_get_property(b, node, name) = search[first]
    BY GetRecurs
  <1>3. Falls(S, Stop, succ, SearchRank(b, name), N)
    BY SearchFalls
  <1>4. Ends(P, Stop, val, P)
    <2>1. ASSUME NEW x \in P, x \in Stop PROVE val[x] \in P
      BY <1>1, <2>1 DEF SearchVal
    <2> HIDE DEF P, Stop, val
    <2> QED
      BY <2>1 DEF Ends
  <1>5. Closed(P, S, Stop, succ)
    <2>1. ASSUME NEW x \in P, x \notin Stop PROVE succ[x] \in P
      BY <1>1, <2>1, SearchFalls
    <2> HIDE DEF P, Stop, succ, S
    <2> QED
      BY <1>1, <2>1 DEF Closed
  <1>6. first \in P
    BY FirstProperty
  <1> HIDE DEF Stop, val, succ, P, S, N, first
  <1>7. \A x \in P : search[x] \in P
    BY <1>1, <1>2, <1>3, <1>4, <1>5, TailInvariant
  <1> QED
    BY <1>2, <1>6, <1>7 DEF P

-----------------------------------------------------------------------------
(* The walk to the next node ends with an error, or further on: a place    *)
(* that is no error is aligned, and a node is not before the start.        *)
NodeFrom(c) ==
  {m \in [offset : Int, depth : Int] :
     /\ m.offset >= 0 => m.offset \in Aligned
     /\ m.offset >= 0 /\ m.depth >= 0 => c <= m.offset /\ m.offset <= FDT_SIZE_MAX}

Goes(b, at) ==
  LET t == fdt_next_tag(b, at.offset) IN
  t.tag \in {FDT_PROP, FDT_NOP} \/ (t.tag = FDT_END_NODE /\ at.depth > 0)
GoesTo(b, at) ==
  LET t == fdt_next_tag(b, at.offset)
  IN NodeAt(t.next, IF t.tag = FDT_END_NODE THEN at.depth - 1 ELSE at.depth)

WalkBody(b, f, at) ==
  LET Go(t) ==
        IF t.tag \in {FDT_PROP, FDT_NOP} THEN f[NodeAt(t.next, at.depth)]
        ELSE IF t.tag = FDT_END_NODE /\ at.depth > 0
             THEN f[NodeAt(t.next, at.depth - 1)]
             ELSE WalkEnd(at, t)
  IN Go(fdt_next_tag(b, at.offset))

LEMMA WalkEndIs ==
  ASSUME NEW b, Sound(b), NEW c, NEW at \in [offset : Offsets(b), depth : Nat],
         c <= at.offset, at.offset \in Aligned, ~Goes(b, at)
  PROVE  WalkEnd(at, fdt_next_tag(b, at.offset)) \in NodeFrom(c)
  <1> DEFINE t == fdt_next_tag(b, at.offset)
             r == WalkEnd(at, t)
  <1>1. at.offset \in Nat /\ at.depth \in Nat /\ at.offset <= FDT_SIZE_MAX
    BY OffsetsAre, Sizes
  <1>2. Tagged(b, at.offset, t)
    BY <1>1, NextTag
  <1>3. t.tag \notin {FDT_PROP, FDT_NOP} /\ ~(t.tag = FDT_END_NODE /\ at.depth > 0)
    BY DEF Goes
  <1> HIDE DEF t
  <1>4. CASE t.tag = FDT_BEGIN_NODE
    <2>1. r = NodeAt(at.offset, at.depth + 1)
      BY <1>4, Codes DEF WalkEnd
    <2> HIDE DEF r
    <2>2. r \in [offset : Int, depth : Int] /\ r.offset = at.offset
      BY <1>1, <2>1 DEF NodeAt
    <2>3. r \in NodeFrom(c)
      BY <1>1, <2>2 DEF NodeFrom
    <2> QED
      BY <2>3 DEF r, t
  <1>5. CASE t.tag = FDT_END_NODE
    <2>1. r = NodeAt(t.next, -1)
      BY <1>5, Codes DEF WalkEnd
    <2> HIDE DEF r
    <2>2. t.next \in Aligned /\ t.next \in Int
      BY <1>2, <1>5, Codes DEF Tagged
    <2>3. r \in [offset : Int, depth : Int] /\ r.offset = t.next /\ r.depth = -1
      BY <2>1, <2>2 DEF NodeAt
    <2>4. r \in NodeFrom(c)
      BY <2>2, <2>3 DEF NodeFrom
    <2> QED
      BY <2>4 DEF r, t
  <1>6. CASE t.tag = FDT_END
    <2> DEFINE e == IF \/ t.next >= 0
                       \/ t.next = -TRUNCATED /\ at.depth >= Deep \div 2
                    THEN -NOTFOUND ELSE t.next
    <2>1. r = NodeAt(e, at.depth)
      BY <1>6, Codes DEF WalkEnd
    <2>2. e \in Int /\ ~(e >= 0)
      BY <1>2, Codes DEF Tagged
    <2> HIDE DEF r, e
    <2>3. r \in [offset : Int, depth : Int] /\ r.offset = e
      BY <1>1, <2>1, <2>2 DEF NodeAt
    <2>4. r \in NodeFrom(c)
      BY <2>2, <2>3 DEF NodeFrom
    <2> QED
      BY <2>4 DEF r, t
  <1> QED
    BY <1>2, <1>3, <1>4, <1>5, <1>6 DEF Tagged, Kinds

LEMMA GoesOn ==
  ASSUME NEW b, Sound(b), NEW at \in [offset : Offsets(b), depth : Nat], Goes(b, at)
  PROVE  /\ GoesTo(b, at) \in [offset : Offsets(b), depth : Nat]
         /\ at.offset < GoesTo(b, at).offset /\ GoesTo(b, at).offset \in Aligned
  <1> DEFINE t == fdt_next_tag(b, at.offset)
  <1>1. at.offset \in Nat /\ at.depth \in Nat
    BY OffsetsAre, Sizes
  <1>2. Tagged(b, at.offset, t)
    BY <1>1, NextTag
  <1>3. t.tag \in {FDT_PROP, FDT_NOP} \/ (t.tag = FDT_END_NODE /\ at.depth > 0)
    BY DEF Goes
  <1>4. GoesTo(b, at) = [offset |-> t.next,
                         depth |-> IF t.tag = FDT_END_NODE THEN at.depth - 1 ELSE at.depth]
    BY DEF GoesTo, NodeAt
  <1> HIDE DEF t
  <1>5. /\ t.next \in Aligned /\ at.offset < t.next
        /\ t.next <= b.size_dt_struct + FDT_TAGSIZE - 1
    BY <1>2, <1>3, Codes DEF Tagged
  <1>6. t.next \in Offsets(b)
    BY <1>5, AlignedNat, InOffsets
  <1>7. (IF t.tag = FDT_END_NODE THEN at.depth - 1 ELSE at.depth) \in Nat
    BY <1>1, <1>3, Codes
  <1> QED
    BY <1>4, <1>5, <1>6, <1>7

Spots(b) == [offset : Offsets(b), depth : Nat]
WalkStop(b) == {x \in Spots(b) : ~Goes(b, x)}
WalkVal(b) == [x \in Spots(b) |-> WalkEnd(x, fdt_next_tag(b, x.offset))]
WalkSucc(b) == [x \in Spots(b) |-> GoesTo(b, x)]
WalkRank(b) == [x \in Spots(b) |-> FDT_SIZE_MAX - x.offset]

LEMMA WalkFalls ==
  ASSUME NEW b, Sound(b)
  PROVE  /\ Falls(Spots(b), WalkStop(b), WalkSucc(b), WalkRank(b), FDT_SIZE_MAX)
         /\ \A x \in Spots(b) : x \notin WalkStop(b) =>
              /\ WalkSucc(b)[x] \in Spots(b) /\ x.offset < WalkSucc(b)[x].offset
              /\ WalkSucc(b)[x].offset \in Aligned
  <1> DEFINE S == Spots(b)
             N == FDT_SIZE_MAX
             Stop == WalkStop(b)
             succ == WalkSucc(b)
             rank == WalkRank(b)
  <1>1. N \in Nat /\ Offsets(b) = 0 .. N
    BY OffsetsAre, Sizes
  <1>2. ASSUME NEW x \in S, x \notin Stop
        PROVE  succ[x] \in S /\ x.offset < succ[x].offset /\ succ[x].offset \in Aligned
    <2>1. Goes(b, x)
      BY <1>2 DEF WalkStop
    <2>2. x \in [offset : Offsets(b), depth : Nat]
      BY DEF Spots
    <2>3. succ[x] = GoesTo(b, x)
      BY DEF WalkSucc
    <2>4. /\ GoesTo(b, x) \in [offset : Offsets(b), depth : Nat]
          /\ x.offset < GoesTo(b, x).offset /\ GoesTo(b, x).offset \in Aligned
      BY <2>1, <2>2, GoesOn
    <2> HIDE DEF succ
    <2> QED
      BY <2>3, <2>4 DEF Spots
  <1>3. rank \in [S -> 0 .. N]
    BY <1>1 DEF WalkRank, Spots
  <1>4. ASSUME NEW x \in S, x \notin Stop PROVE succ[x] \in S /\ rank[succ[x]] < rank[x]
    <2> DEFINE y == succ[x]
    <2>1. y \in S /\ x.offset < y.offset
      BY <1>2, <1>4
    <2> HIDE DEF y
    <2>2. rank[y] = N - y.offset /\ rank[x] = N - x.offset
      BY <2>1 DEF WalkRank
    <2>3. y.offset \in Nat /\ x.offset \in Nat
      BY <1>1, <2>1 DEF Spots
    <2> HIDE DEF rank, S, N
    <2> QED
      BY <1>1, <2>1, <2>2, <2>3 DEF y
  <1> HIDE DEF rank, succ, Stop, S, N
  <1>5. Falls(S, Stop, succ, rank, N)
    BY <1>3, <1>4 DEF Falls
  <1> QED
    BY <1>2, <1>5 DEF S, Stop, succ, rank, N

LEMMA WalkRecurs ==
  ASSUME NEW b, Sound(b)
  PROVE  \E f : /\ Recurs(f, Spots(b), WalkStop(b), WalkVal(b), WalkSucc(b))
                /\ \A offset \in Nat : \A depth :
                     fdt_next_node(b, offset, depth) =
                       LET at == NodeAt(fdt_check_node_offset(b, offset), depth)
                       IN IF at.offset < 0 THEN at ELSE f[at]
  <1> DEFINE S == Spots(b)
             Stop == WalkStop(b)
             val == WalkVal(b)
             succ == WalkSucc(b)
             walk == CHOOSE f : f = [at \in S |-> WalkBody(b, f, at)]
  <1>1. ASSUME NEW offset \in Nat, NEW depth
        PROVE  fdt_next_node(b, offset, depth) =
                 LET at == NodeAt(fdt_check_node_offset(b, offset), depth)
                 IN IF at.offset < 0 THEN at ELSE walk[at]
    <2> DEFINE c == fdt_check_node_offset(b, offset)
    <2>1. offset >= 0
      OBVIOUS
    <2>2. NodeAt(c, depth).offset = c
      BY DEF NodeAt
    <2>3. fdt_next_node(b, offset, depth) =
            IF c < 0 THEN NodeAt(c, depth) ELSE walk[NodeAt(c, depth)]
      BY <2>1 DEF fdt_next_node, WalkBody, Spots
    <2> HIDE DEF walk
    <2> QED
      BY <2>2, <2>3
  <1>2. ASSUME NEW f, NEW x \in S
        PROVE  WalkBody(b, f, x) = IF x \in Stop THEN val[x] ELSE f[succ[x]]
    <2>1. CASE x \in Stop
      <3>1. WalkBody(b, f, x) = WalkEnd(x, fdt_next_tag(b, x.offset))
        BY <2>1, Codes DEF WalkBody, Goes, WalkStop
      <3> QED
        BY <2>1, <3>1 DEF WalkVal
    <2>2. CASE x \notin Stop
      <3>1. Goes(b, x)
        BY <2>2 DEF WalkStop
      <3>2. WalkBody(b, f, x) = f[GoesTo(b, x)]
        BY <3>1, Codes DEF WalkBody, Goes, GoesTo
      <3> QED
        BY <2>2, <3>2 DEF WalkSucc
    <2> QED
      BY <2>1, <2>2
  <1>3. \A f : (f = [at \in S |-> WalkBody(b, f, at)]) <=> Recurs(f, S, Stop, val, succ)
    <2>1. ASSUME NEW f
          PROVE  [at \in S |-> WalkBody(b, f, at)]
                 = [x \in S |-> IF x \in Stop THEN val[x] ELSE f[succ[x]]]
      <3> HIDE DEF S, Stop, val, succ
      <3> QED
        BY <1>2
    <2> HIDE DEF S, Stop, val, succ
    <2> QED
      BY <2>1, Zenon DEF Recurs
  <1>4. \E f : Recurs(f, S, Stop, val, succ)
    BY WalkFalls, Sizes, TailRecursion
  <1> HIDE DEF S, Stop, val, succ
  <1>5. Recurs(walk, S, Stop, val, succ)
    BY <1>3, <1>4, Zenon
  <1> HIDE DEF walk
  <1> QED
    BY <1>1, <1>5 DEF S, Stop, val, succ

LEMMA NextNode ==
  ASSUME NEW b, Sound(b), NEW offset \in Nat, NEW depth \in Nat
  PROVE  fdt_next_node(b, offset, depth) \in NodeFrom(offset + 1)
  <1> DEFINE S == Spots(b)
             c == fdt_check_node_offset(b, offset)
             Stop == WalkStop(b)
             val == WalkVal(b)
             succ == WalkSucc(b)
             P == {x \in S : c <= x.offset /\ x.offset \in Aligned}
             R == NodeFrom(offset + 1)
             at0 == NodeAt(c, depth)
  <1>1. FDT_SIZE_MAX \in Nat /\ Offsets(b) = 0 .. FDT_SIZE_MAX
    BY OffsetsAre, Sizes
  <1>2. Checked(b, offset, c)
    BY CheckOffsets
  <1>0. PICK walk : /\ Recurs(walk, S, Stop, val, succ)
                    /\ fdt_next_node(b, offset, depth) =
                         IF at0.offset < 0 THEN at0 ELSE walk[at0]
    BY WalkRecurs
  <1>3. fdt_next_node(b, offset, depth) = IF c < 0 THEN at0 ELSE walk[at0]
    BY <1>0 DEF NodeAt
  <1>4. CASE c < 0
    <2> HIDE DEF c
    <2>1. at0 \in [offset : Int, depth : Int] /\ at0.offset = c
      BY <1>2 DEF NodeAt, Checked
    <2> HIDE DEF at0
    <2>2. at0 \in R
      BY <1>2, <1>4, <2>1 DEF NodeFrom, Checked
    <2> QED
      BY <1>3, <1>4, <2>2
  <1>5. CASE ~(c < 0)
    <2>0. c \in Nat /\ offset < c /\ c \in Aligned /\ c \in Offsets(b)
      BY <1>2, <1>5 DEF Checked
    <2>3. ASSUME NEW x \in S, x \notin Stop
          PROVE  succ[x] \in S /\ x.offset < succ[x].offset /\ succ[x].offset \in Aligned
      BY <2>3, WalkFalls
    <2>4. Falls(S, Stop, succ, WalkRank(b), FDT_SIZE_MAX)
      BY WalkFalls
    <2>5. Ends(P, Stop, val, R)
      <3>1. ASSUME NEW x \in P, x \in Stop PROVE val[x] \in R
        <4>1. x \in S /\ c <= x.offset /\ x.offset \in Aligned /\ ~Goes(b, x)
          BY <3>1 DEF WalkStop
        <4>2. x.offset \in Nat
          BY <1>1, <4>1 DEF Spots
        <4>3. offset + 1 <= x.offset
          BY <2>0, <4>1, <4>2
        <4>4. WalkEnd(x, fdt_next_tag(b, x.offset)) \in R
          BY <4>1, <4>3, WalkEndIs DEF Spots
        <4> QED
          BY <4>1, <4>4 DEF WalkVal
      <3> HIDE DEF P, Stop, val, R
      <3> QED
        BY <3>1 DEF Ends
    <2>6. Closed(P, S, Stop, succ)
      <3>1. P \subseteq S
        OBVIOUS
      <3>2. ASSUME NEW x \in P, x \notin Stop PROVE succ[x] \in P
        <4> DEFINE y == succ[x]
        <4>1. x \in S /\ c <= x.offset
          OBVIOUS
        <4>2. y \in S /\ x.offset < y.offset /\ y.offset \in Aligned
          BY <2>3, <3>2, <4>1
        <4>3. x.offset \in Nat /\ y.offset \in Nat
          BY <1>1, <4>1, <4>2 DEF Spots
        <4> HIDE DEF y
        <4>4. y \in P
          BY <2>0, <4>1, <4>2, <4>3
        <4> QED
          BY <4>4 DEF y
      <3> HIDE DEF P, S, Stop, succ
      <3> QED
        BY <3>1, <3>2 DEF Closed
    <2>7. at0 \in P
      <3>1. at0 = [offset |-> c, depth |-> depth]
        BY DEF NodeAt
      <3> HIDE DEF c, at0
      <3> QED
        BY <2>0, <3>1 DEF Spots
    <2> HIDE DEF Stop, val, succ, P, R, S, at0, c
    <2>10. \A x \in P : walk[x] \in R
      BY <1>0, <1>1, <2>4, <2>5, <2>6, TailInvariant
    <2> QED
      BY <1>3, <1>5, <2>7, <2>10 DEF R
  <1> QED
    BY <1>4, <1>5

(* The nodes a loop visits.                                                *)
Visitable == {n \in [offset : Int, depth : Int] : n.offset >= 0 => n.offset \in Aligned}

VisitSpots == [offset : Int, depth : Int]
VisitStop == {n \in VisitSpots : n.offset < 0 \/ n.depth < 0}
VisitSucc(b) == [n \in VisitSpots |-> fdt_next_node(b, n.offset, n.depth)]
VisitRank ==
  [n \in VisitSpots |-> IF n \in VisitStop THEN 0
                        ELSE IF n.offset <= FDT_SIZE_MAX THEN (FDT_SIZE_MAX + 2) - n.offset
                        ELSE 1]

LEMMA VisitFalls ==
  ASSUME NEW b, Sound(b)
  PROVE  /\ Falls(VisitSpots, VisitStop, VisitSucc(b), VisitRank, FDT_SIZE_MAX + 2)
         /\ \A n \in VisitSpots : n \notin VisitStop =>
              /\ n.offset \in Nat /\ n.depth \in Nat
              /\ VisitSucc(b)[n] \in VisitSpots /\ VisitSucc(b)[n] \in Visitable
  <1> DEFINE S == VisitSpots
             N == FDT_SIZE_MAX + 2
             Stop == VisitStop
             succ == VisitSucc(b)
             Rank(n) == IF n \in Stop THEN 0
                        ELSE IF n.offset <= FDT_SIZE_MAX THEN N - n.offset ELSE 1
             rank == VisitRank
             P == Visitable
  <1>1. FDT_SIZE_MAX \in Nat /\ N \in Nat
    BY Sizes
  <1>3. ASSUME NEW n \in S, n \notin Stop
        PROVE  /\ n.offset \in Nat /\ n.depth \in Nat /\ succ[n] \in S /\ succ[n] \in P
               /\ succ[n] \notin Stop => n.offset + 1 <= succ[n].offset
                                         /\ succ[n].offset <= FDT_SIZE_MAX
    <2> DEFINE m == fdt_next_node(b, n.offset, n.depth)
    <2>1. n.offset \in Nat /\ n.depth \in Nat
      BY <1>3 DEF VisitStop, VisitSpots
    <2>2. m \in NodeFrom(n.offset + 1)
      BY <2>1, NextNode
    <2> HIDE DEF m
    <2>3. m \in S /\ m \in P
          /\ (m \notin Stop => n.offset + 1 <= m.offset /\ m.offset <= FDT_SIZE_MAX)
      BY <2>2 DEF NodeFrom, Visitable, VisitStop, VisitSpots
    <2>4. succ[n] = m
      BY DEF m, VisitSucc
    <2> QED
      BY <2>1, <2>3, <2>4
  <1>4. Falls(S, Stop, succ, rank, N)
    <2>1. ASSUME NEW n \in S PROVE Rank(n) \in 0 .. N
      <3>1. CASE n \in Stop
        BY <1>1, <3>1
      <3>2. CASE n \notin Stop
        <4>1. n.offset \in Nat
          BY <1>3, <3>2
        <4> HIDE DEF Stop
        <4> QED
          BY <1>1, <3>2, <4>1
      <3> QED
        BY <3>1, <3>2
    <2>6. rank = [n \in S |-> Rank(n)]
      BY Zenon DEF VisitRank
    <2> HIDE DEF rank
    <2>2. rank \in [S -> 0 .. N]
      <3> HIDE DEF Rank, S, N
      <3> QED
        BY <2>1, <2>6
    <2>3. ASSUME NEW n \in S, n \notin Stop PROVE succ[n] \in S /\ rank[succ[n]] < rank[n]
      <3> DEFINE m == succ[n]
      <3>1. n.offset \in Nat /\ m \in S
            /\ (m \notin Stop => n.offset + 1 <= m.offset /\ m.offset <= FDT_SIZE_MAX)
        BY <1>3, <2>3
      <3> HIDE DEF m
      <3>2. rank[m] = Rank(m) /\ rank[n] = Rank(n) /\ m.offset \in Int
        BY <2>6, <3>1 DEF VisitSpots
      <3> HIDE DEF Stop, succ
      <3>3. Rank(m) < Rank(n)
        BY <1>1, <2>3, <3>1, <3>2
      <3> QED
        BY <3>1, <3>2, <3>3 DEF m
    <2> HIDE DEF succ, Stop, S, N
    <2> QED
      BY <2>2, <2>3 DEF Falls
  <1> QED
    BY <1>3, <1>4

LEMMA VisitLists ==
  ASSUME NEW b, Sound(b)
  PROVE  \E f : /\ Lists(f, VisitSpots, VisitStop, VisitSucc(b))
                /\ \A node : \A depth :
                     Visit(b, node, depth) = f[[offset |-> node, depth |-> depth]]
  <1> DEFINE S == VisitSpots
             Stop == VisitStop
             succ == VisitSucc(b)
             from == CHOOSE f : f = [n \in S |->
                                       <<n>> \o (IF n.offset < 0 \/ n.depth < 0 THEN << >>
                                                 ELSE f[fdt_next_node(b, n.offset, n.depth)])]
  <1>1. \A node : \A depth : Visit(b, node, depth) = from[[offset |-> node, depth |-> depth]]
    BY DEF Visit, VisitSpots
  <1>2. \A f : (f = [n \in S |-> <<n>> \o (IF n.offset < 0 \/ n.depth < 0 THEN << >>
                                           ELSE f[fdt_next_node(b, n.offset, n.depth)])])
               <=> Lists(f, S, Stop, succ)
    <2>1. ASSUME NEW f
          PROVE  [n \in S |-> <<n>> \o (IF n.offset < 0 \/ n.depth < 0 THEN << >>
                                        ELSE f[fdt_next_node(b, n.offset, n.depth)])]
                 = [n \in S |-> <<n>> \o (IF n \in Stop THEN << >> ELSE f[succ[n]])]
      <3>1. ASSUME NEW n \in S
            PROVE  (IF n.offset < 0 \/ n.depth < 0 THEN << >>
                    ELSE f[fdt_next_node(b, n.offset, n.depth)])
                   = (IF n \in Stop THEN << >> ELSE f[succ[n]])
        BY DEF VisitStop, VisitSucc
      <3> HIDE DEF S, Stop, succ
      <3> QED
        BY <3>1
    <2> HIDE DEF S, Stop, succ
    <2> QED
      BY <2>1, Zenon DEF Lists
  <1>3. \E f : Lists(f, S, Stop, succ)
    BY VisitFalls, Sizes, ListRecursion
  <1> HIDE DEF S, Stop, succ
  <1>4. Lists(from, S, Stop, succ)
    BY <1>2, <1>3, Zenon
  <1> HIDE DEF from
  <1> QED
    BY <1>1, <1>4 DEF S, Stop, succ

LEMMA VisitType ==
  ASSUME NEW b, Sound(b), NEW node, NEW depth,
         [offset |-> node, depth |-> depth] \in Visitable
  PROVE  Visit(b, node, depth) \in Seq(Visitable) /\ Len(Visit(b, node, depth)) >= 1
  <1> DEFINE S == VisitSpots
             N == FDT_SIZE_MAX + 2
             Stop == VisitStop
             succ == VisitSucc(b)
             P == Visitable
             n0 == [offset |-> node, depth |-> depth]
  <1>1. N \in Nat
    BY Sizes
  <1>2. PICK from : Lists(from, S, Stop, succ) /\ Visit(b, node, depth) = from[n0]
    BY VisitLists
  <1>3. Falls(S, Stop, succ, VisitRank, N)
    BY VisitFalls
  <1>4. Closed(P, S, Stop, succ)
    <2>1. P \subseteq S
      BY DEF Visitable, VisitSpots
    <2>2. ASSUME NEW n \in P, n \notin Stop PROVE succ[n] \in P
      BY <2>1, <2>2, VisitFalls
    <2> HIDE DEF P, Stop, succ, S
    <2> QED
      BY <2>1, <2>2 DEF Closed
  <1>5. n0 \in P
    OBVIOUS
  <1> HIDE DEF Stop, succ, P, S, N, n0
  <1>6. \A n \in P : from[n] \in Seq(P) /\ Len(from[n]) >= 1
    BY <1>1, <1>2, <1>3, <1>4, ListInvariant
  <1> QED
    BY <1>2, <1>5, <1>6 DEF P

(* What fdt_subnode_offset returns is not the error code without its sign, *)
(* which is no multiple of a word.                                         *)
LEMMA SubnodeIs ==
  ASSUME NEW b, Sound(b), NEW name
  PROVE  fdt_subnode_offset(b, 0, name) \in Int \ {NOTFOUND}
  <1> DEFINE v == Visit(b, 0, 0)
             I == {i \in Visited(v) : v[i].depth = 1 /\ nodename_eq(b, v[i].offset, name)}
             r == fdt_subnode_offset(b, 0, name)
             end == Last(v)
  <1>1. v \in Seq(Visitable) /\ Len(v) >= 1
    <2>1. 0 \in Aligned
      BY Sizes DEF Aligned
    <2>2. [offset |-> 0, depth |-> 0] \in Visitable
      BY <2>1 DEF Visitable
    <2> QED
      BY <2>2, VisitType
  <1>2. fdt_check_header(b) = 0
    BY DEF Sound
  <1>3. r = IF I = {} THEN (IF end.depth < 0 THEN -NOTFOUND ELSE end.offset)
            ELSE v[Least(I)].offset
    BY <1>2 DEF fdt_subnode_offset, OrError, FirstOf
  <1>4. ASSUME NEW n \in Visitable PROVE n.offset \in Int \ {NOTFOUND}
    BY OneNotAligned, Codes DEF Visitable
  <1>5. end \in Visitable
    <2> HIDE DEF v
    <2>1. Len(v) \in 1 .. Len(v)
      BY <1>1
    <2>2. v[Len(v)] \in Visitable
      BY <1>1, <2>1
    <2> QED
      BY <2>2 DEF Last
  <1>6. I # {} => v[Least(I)] \in Visitable
    <2>1. I \subseteq Nat /\ I \subseteq 1 .. Len(v)
      BY <1>1 DEF Visited
    <2> HIDE DEF v, I
    <2>2. I # {} => Least(I) \in I
      BY <2>1, LeastOf
    <2> DEFINE k == Least(I)
    <2>3. I # {} => k \in 1 .. Len(v)
      BY <2>1, <2>2
    <2> HIDE DEF k
    <2>4. I # {} => v[k] \in Visitable
      BY <1>1, <2>3
    <2> QED
      BY <2>4 DEF k
  <1> HIDE DEF v, I, end
  <1>7. -NOTFOUND \in Int \ {NOTFOUND}
    BY Codes
  <1> QED
    BY <1>3, <1>4, <1>5, <1>6, <1>7

LEMMA MakesNone ==
  ASSUME NEW b, Sound(b), NEW name
  PROVE  /\ fdt_make_node(b, 0, name).fdt = b
         /\ fdt_make_node(b, 0, name).ret \in Int
  BY SubnodeIs DEF fdt_make_node, Done

-----------------------------------------------------------------------------
(* What is before the structure block: the reserve map of another blob,    *)
(* and its boot CPU.                                                       *)
SameFront(b, f) ==
  /\ b.off_mem_rsvmap + whole_mem_rsv_size(f) <= b.off_dt_struct
  /\ \A k \in 0 .. whole_mem_rsv_size(f) - 1 :
       b.mem[b.off_mem_rsvmap + k] = f.mem[f.off_mem_rsvmap + k]
  /\ b.boot_cpuid_phys = f.boot_cpuid_phys
Kept(b, f) == Sound(b) /\ SameFront(b, f)

(* A change from a place of the structure block on, of bytes to bytes.     *)
Beyond(m, k, p) ==
  /\ Maps(k, 0 .. FDT_SIZE_MAX - 1, Byte)
  /\ \A i \in 0 .. FDT_SIZE_MAX - 1 : i < p => k[i] = m[i]

Copied(c, m, k, dst, src, n) ==
  /\ Beyond(m, c, dst)
  /\ \A i \in 0 .. FDT_SIZE_MAX - 1 :
       dst <= i /\ i < dst + n => c[i] = k[src + i - dst]

LEMMA CopyIs ==
  ASSUME NEW m, Maps(m, 0 .. FDT_SIZE_MAX - 1, Byte), NEW N \in Nat,
         NEW k, Maps(k, 0 .. N - 1, Byte),
         NEW dst \in Int, NEW src \in Nat, NEW n \in Int, src + n <= N
  PROVE  Copied(CopyFrom(m, dst, k, src, n), m, k, dst, src, n)
  <1> DEFINE D == 0 .. FDT_SIZE_MAX - 1
             c == CopyFrom(m, dst, k, src, n)
  <1>0. FDT_SIZE_MAX \in Nat
    BY Sizes
  <1>1. c = [i \in D |-> IF i \in dst .. dst + n - 1 THEN k[src + i - dst] ELSE m[i]]
    BY DEF CopyFrom, Maps
  <1>2. ASSUME NEW i \in D PROVE (IF i \in dst .. dst + n - 1 THEN k[src + i - dst] ELSE m[i]) \in Byte
    <2>1. CASE i \in dst .. dst + n - 1
      <3>1. src + i - dst \in 0 .. N - 1
        BY <1>0, <2>1
      <3> QED
        BY <2>1, <3>1 DEF Maps
    <2>2. CASE i \notin dst .. dst + n - 1
      BY <2>2 DEF Maps
    <2> QED
      BY <2>1, <2>2
  <1>3. Maps(c, D, Byte)
    <2> DEFINE e == Byte
    <2> HIDE DEF c, D, e
    <2>1. c \in [D -> e]
      BY <1>1, <1>2 DEF e
    <2> QED
      BY <2>1 DEF Maps, e
  <1>4. \A i \in D : c[i] = IF i \in dst .. dst + n - 1 THEN k[src + i - dst] ELSE m[i]
    <2> HIDE DEF c
    <2> QED
      BY <1>1
  <1> HIDE DEF c
  <1>5. ASSUME NEW i \in D, i < dst PROVE c[i] = m[i]
    BY <1>0, <1>4, <1>5
  <1>6. ASSUME NEW i \in D, dst <= i /\ i < dst + n PROVE c[i] = k[src + i - dst]
    BY <1>0, <1>4, <1>6
  <1> QED
    BY <1>3, <1>5, <1>6 DEF Copied, Beyond, c

LEMMA WriteIs ==
  ASSUME NEW m, Maps(m, 0 .. FDT_SIZE_MAX - 1, Byte), NEW dst \in Int, NEW s \in Seq(Byte)
  PROVE  Beyond(m, memcpy(m, dst, s), dst)
  <1> DEFINE D == 0 .. FDT_SIZE_MAX - 1
             c == memcpy(m, dst, s)
             n == Len(s)
  <1>0. FDT_SIZE_MAX \in Nat /\ n \in Nat
    BY Sizes
  <1>1. c = [i \in D |-> IF i \in dst .. dst + n - 1 THEN s[i - dst + 1] ELSE m[i]]
    BY DEF memcpy, Maps
  <1>2. ASSUME NEW i \in D PROVE (IF i \in dst .. dst + n - 1 THEN s[i - dst + 1] ELSE m[i]) \in Byte
    <2>1. CASE i \in dst .. dst + n - 1
      <3> DEFINE j == i - dst + 1
                 e == Byte
      <3>1. j \in 1 .. n
        <4> HIDE DEF n
        <4> QED
          BY <1>0, <2>1
      <3> HIDE DEF j, e
      <3>2. s \in Seq(e)
        BY DEF e
      <3>3. s[j] \in e
        BY <3>1, <3>2
      <3> QED
        BY <2>1, <3>3 DEF e, j
    <2>2. CASE i \notin dst .. dst + n - 1
      BY <2>2 DEF Maps
    <2> QED
      BY <2>1, <2>2
  <1>3. Maps(c, D, Byte)
    <2> DEFINE e == Byte
    <2> HIDE DEF c, D, e
    <2>1. c \in [D -> e]
      BY <1>1, <1>2 DEF e
    <2> QED
      BY <2>1 DEF Maps, e
  <1>4. \A i \in D : c[i] = IF i \in dst .. dst + n - 1 THEN s[i - dst + 1] ELSE m[i]
    <2> HIDE DEF c
    <2> QED
      BY <1>1
  <1> HIDE DEF c, n
  <1>5. ASSUME NEW i \in D, i < dst PROVE c[i] = m[i]
    BY <1>0, <1>4, <1>5
  <1> QED
    BY <1>3, <1>5 DEF Beyond, c

(* A blob with other memory, and with the numbers of an edit.              *)
Remade(c, b, k, size, strings, names) ==
  /\ c.mem = k /\ c.size_dt_struct = size /\ c.off_dt_strings = strings
  /\ c.size_dt_strings = names
  /\ c.magic = b.magic /\ c.version = b.version
  /\ c.last_comp_version = b.last_comp_version /\ c.totalsize = b.totalsize
  /\ c.off_mem_rsvmap = b.off_mem_rsvmap /\ c.off_dt_struct = b.off_dt_struct
  /\ c.boot_cpuid_phys = b.boot_cpuid_phys
  /\ c \in BlobOf(FDT_SIZE_MAX)

LEMMA RemadeKept ==
  ASSUME NEW b, NEW f, Kept(b, f), whole_mem_rsv_size(f) \in Nat,
         NEW c, NEW k, NEW size \in Int, NEW strings \in Int, NEW names \in Int,
         Remade(c, b, k, size, strings, names),
         Beyond(b.mem, k, b.off_dt_struct), size > 0,
         b.off_dt_struct + size <= strings, strings + names <= b.totalsize
  PROVE  Kept(c, f)
  <1>1. Fields(b) /\ Ordered(b) /\ Sound(b)
    BY SoundFields DEF Kept
  <1>2. Sound(c)
    <2>1. c \in BlobOf(FDT_SIZE_MAX) /\ c.version = 17 /\ c.totalsize <= FDT_SIZE_MAX
          /\ c.size_dt_struct > 0
      BY <1>1 DEF Remade, Sound
    <2>2. fdt_check_header(c) = 0
      <3>1. c.magic = b.magic /\ c.version = b.version
            /\ c.last_comp_version = b.last_comp_version
            /\ c.size_dt_struct # 0 /\ b.size_dt_struct # 0
        BY <1>1 DEF Remade, Ordered
      <3>2. fdt_check_header(c) = fdt_check_header(b)
        BY <3>1 DEF fdt_check_header
      <3> QED
        BY <1>1, <3>2 DEF Sound
    <2>3. ~blocks_misordered(c, EntrySize, c.size_dt_struct)
      <3>1. /\ c.off_mem_rsvmap = b.off_mem_rsvmap /\ c.off_dt_struct = b.off_dt_struct
            /\ c.size_dt_struct = size /\ c.off_dt_strings = strings
            /\ c.size_dt_strings = names /\ c.totalsize = b.totalsize
        BY DEF Remade
      <3>2. /\ b.off_mem_rsvmap \in Nat /\ b.off_dt_struct \in Nat /\ b.totalsize \in Nat
            /\ RsvStart <= b.off_mem_rsvmap /\ EntrySize \in Nat /\ RsvStart \in Nat
            /\ b.off_mem_rsvmap + EntrySize <= b.off_dt_struct
        BY <1>1, Sizes DEF Ordered, Fields
      <3>3. /\ ~(c.off_mem_rsvmap < RsvStart)
            /\ ~(c.off_dt_struct < c.off_mem_rsvmap + EntrySize)
            /\ ~(c.off_dt_strings < c.off_dt_struct + c.size_dt_struct)
            /\ ~(c.totalsize < c.off_dt_strings + c.size_dt_strings)
        BY <3>1, <3>2
      <3> QED
        BY <3>3 DEF blocks_misordered, RsvStart
    <2> QED
      BY <2>1, <2>2, <2>3 DEF Sound
  <1>3. SameFront(c, f)
    <2> DEFINE W == whole_mem_rsv_size(f)
               p == b.off_mem_rsvmap
    <2>1. /\ p + W <= b.off_dt_struct /\ p \in Nat /\ W \in Nat
          /\ b.off_dt_struct \in Nat /\ b.off_dt_struct <= FDT_SIZE_MAX
          /\ FDT_SIZE_MAX \in Nat
      <3>1. b.off_mem_rsvmap + whole_mem_rsv_size(f) <= b.off_dt_struct
        BY DEF Kept, SameFront
      <3>2. b.off_mem_rsvmap \in Nat /\ b.off_dt_struct \in Nat
        BY <1>1 DEF Fields
      <3>3. b.off_dt_struct <= FDT_SIZE_MAX
        BY <1>1, Inside
      <3> QED
        BY <3>1, <3>2, <3>3, Sizes
    <2>2. ASSUME NEW i \in 0 .. W - 1 PROVE k[p + i] = f.mem[f.off_mem_rsvmap + i]
      <3> HIDE DEF W, p
      <3>1. p + i \in 0 .. FDT_SIZE_MAX - 1 /\ p + i < b.off_dt_struct
        BY <2>1
      <3>2. k[p + i] = b.mem[p + i]
        BY <3>1 DEF Beyond
      <3>3. b.mem[p + i] = f.mem[f.off_mem_rsvmap + i]
        BY DEF Kept, SameFront, W, p
      <3> QED
        BY <3>2, <3>3
    <2>3. c.off_mem_rsvmap = p /\ c.mem = k /\ c.off_dt_struct = b.off_dt_struct
          /\ c.boot_cpuid_phys = f.boot_cpuid_phys
      BY DEF Remade, Kept, SameFront
    <2> HIDE DEF p
    <2> QED
      BY <2>1, <2>2, <2>3 DEF SameFront
  <1> QED
    BY <1>2, <1>3 DEF Kept

LEMMA WriteKeeps ==
  ASSUME NEW b, NEW f, Kept(b, f), whole_mem_rsv_size(f) \in Nat,
         NEW offset \in Nat, NEW s \in Seq(Byte)
  PROVE  Kept(Write(b, offset, s), f)
  <1> DEFINE c == Write(b, offset, s)
             p == b.off_dt_struct + offset
             k == memcpy(b.mem, p, s)
  <1>1. Sound(b) /\ Fields(b) /\ Ordered(b) /\ b \in BlobOf(FDT_SIZE_MAX)
    BY SoundFields DEF Kept, Sound
  <1>2. p \in Nat /\ b.off_dt_struct \in Nat /\ b.off_dt_struct <= p
    BY <1>1 DEF Fields
  <1>3. Beyond(b.mem, k, p)
    <2>1. Maps(b.mem, 0 .. FDT_SIZE_MAX - 1, Byte)
      BY <1>1 DEF Fields
    <2> HIDE DEF p
    <2> QED
      BY <1>2, <2>1, WriteIs
  <1> HIDE DEF k, p
  <1>4. Maps(k, 0 .. FDT_SIZE_MAX - 1, Byte) /\ Beyond(b.mem, k, b.off_dt_struct)
    BY <1>2, <1>3, Sizes DEF Beyond
  <1>5. c = [b EXCEPT !.mem = k]
    BY DEF Write, k, p
  <1>6. Remade(c, b, k, b.size_dt_struct, b.off_dt_strings, b.size_dt_strings)
    <2>1. c \in BlobOf(FDT_SIZE_MAX)
      BY <1>1, <1>4, <1>5 DEF BlobOf, Maps
    <2> HIDE DEF c
    <2> QED
      BY <1>1, <1>5, <2>1 DEF Remade, BlobOf
  <1>7. /\ b.size_dt_struct \in Int /\ b.off_dt_strings \in Int /\ b.size_dt_strings \in Int
        /\ b.size_dt_struct > 0 /\ b.off_dt_struct + b.size_dt_struct <= b.off_dt_strings
        /\ b.off_dt_strings + b.size_dt_strings <= b.totalsize
    BY <1>1 DEF Fields, Ordered
  <1> HIDE DEF c
  <1>8. Kept(c, f)
    BY <1>4, <1>6, <1>7, RemadeKept
  <1> QED
    BY <1>8 DEF c

(* splice fails and leaves the blob, or moves what is after.               *)
Spliced(r, b, p, oldlen, newlen) ==
  \/ r.ret \in Int /\ r.ret < 0 /\ r.fdt = b
  \/ /\ r.ret = 0 /\ p + oldlen <= data_size(b)
     /\ data_size(b) - oldlen + newlen <= b.totalsize
     /\ \E k : r.fdt = [b EXCEPT !.mem = k] /\ Beyond(b.mem, k, p + newlen)

LEMMA SpliceIs ==
  ASSUME NEW b, Sound(b), NEW p \in Nat, NEW oldlen \in Nat, NEW newlen \in Nat
  PROVE  Spliced(splice(b, p, oldlen, newlen), b, p, oldlen, newlen)
  <1> DEFINE end == data_size(b)
             r == splice(b, p, oldlen, newlen)
             dst == p + newlen
             src == p + oldlen
             n == end - p - oldlen
             k == CopyFrom(b.mem, dst, b.mem, src, n)
  <1>1. /\ end \in Nat /\ end <= FDT_SIZE_MAX /\ FDT_SIZE_MAX \in Nat
        /\ Maps(b.mem, 0 .. FDT_SIZE_MAX - 1, Byte) /\ b.totalsize \in Nat
    BY Inside, SoundFields, Sizes DEF Fields
  <1> HIDE DEF end
  <1>2. CASE p + oldlen > end
    <2>1. r = Fail(b, BADOFFSET)
      BY <1>1, <1>2 DEF splice, end
    <2> QED
      BY <2>1 DEF Spliced, Fail, BADOFFSET
  <1>3. CASE p + oldlen <= end /\ end - oldlen + newlen > b.totalsize
    <2>1. r = Fail(b, NOSPACE)
      BY <1>3, <1>1 DEF splice, end
    <2> QED
      BY <2>1 DEF Spliced, Fail, NOSPACE
  <1>4. CASE p + oldlen <= end /\ end - oldlen + newlen <= b.totalsize
    <2>1. r = Done([b EXCEPT !.mem = k], 0)
      BY <1>4, <1>1 DEF splice, end, memmove
    <2>2. dst \in Int /\ src \in Nat /\ n \in Int /\ src + n <= FDT_SIZE_MAX
      BY <1>1
    <2>3. Beyond(b.mem, k, dst)
      <3> HIDE DEF dst, src, n
      <3> QED
        BY <1>1, <2>2, CopyIs DEF Copied
    <2> HIDE DEF k, r
    <2>4. r.ret = 0 /\ r.fdt = [b EXCEPT !.mem = k]
      BY <2>1 DEF Done
    <2>5. Spliced(r, b, p, oldlen, newlen)
      BY <1>4, <2>3, <2>4 DEF Spliced, end
    <2> QED
      BY <2>5 DEF r
  <1> QED
    BY <1>1, <1>2, <1>3, <1>4

(* An edit that leaves what is before the structure block, whether it      *)
(* fails or not.                                                           *)
Keeps(r, f) == r.ret \in Int /\ Kept(r.fdt, f)

LEMMA SpliceStructKeeps ==
  ASSUME NEW b, NEW f, Kept(b, f), whole_mem_rsv_size(f) \in Nat,
         NEW offset \in Nat, NEW oldlen \in Nat, NEW newlen \in Nat,
         b.size_dt_struct + (newlen - oldlen) > 0
  PROVE  Keeps(splice_struct(b, offset, oldlen, newlen), f)
  <1> DEFINE p == b.off_dt_struct + offset
             s == splice(b, p, oldlen, newlen)
             r == splice_struct(b, offset, oldlen, newlen)
             delta == newlen - oldlen
             c == [s.fdt EXCEPT !.size_dt_struct = @ + delta, !.off_dt_strings = @ + delta]
  <1>1. Sound(b) /\ Fields(b) /\ Ordered(b) /\ b \in BlobOf(FDT_SIZE_MAX)
    BY SoundFields DEF Kept, Sound
  <1>2. p \in Nat /\ b.off_dt_struct \in Nat /\ b.off_dt_struct <= p
    BY <1>1 DEF Fields
  <1>3. Spliced(s, b, p, oldlen, newlen)
    <2> HIDE DEF p
    <2> QED
      BY <1>1, <1>2, SpliceIs
  <1>4. r = IF s.ret < 0 THEN s ELSE Done(c, 0)
    BY DEF splice_struct, AndThen
  <1> HIDE DEF s, r, p
  <1>5. CASE s.ret \in Int /\ s.ret < 0 /\ s.fdt = b
    <2>1. Keeps(r, f)
      BY <1>4, <1>5 DEF Keeps
    <2> QED
      BY <2>1 DEF r
  <1>6. CASE ~(s.ret \in Int /\ s.ret < 0 /\ s.fdt = b)
    <2>1. PICK k : /\ s.fdt = [b EXCEPT !.mem = k] /\ Beyond(b.mem, k, p + newlen)
                   /\ s.ret = 0 /\ data_size(b) - oldlen + newlen <= b.totalsize
      BY <1>3, <1>6 DEF Spliced
    <2>2. Maps(k, 0 .. FDT_SIZE_MAX - 1, Byte) /\ Beyond(b.mem, k, b.off_dt_struct)
      <3>1. Maps(k, 0 .. FDT_SIZE_MAX - 1, Byte)
        BY <2>1 DEF Beyond
      <3>2. ASSUME NEW i \in 0 .. FDT_SIZE_MAX - 1, i < b.off_dt_struct
            PROVE  k[i] = b.mem[i]
        <4>1. i < p + newlen
          BY <1>2, <3>2, Sizes
        <4> QED
          BY <2>1, <4>1 DEF Beyond
      <3> QED
        BY <3>1, <3>2 DEF Beyond
    <2> DEFINE size == b.size_dt_struct + delta
               strings == b.off_dt_strings + delta
    <2>3. /\ size \in Int /\ strings \in Int /\ b.size_dt_strings \in Int /\ size > 0
          /\ b.off_dt_struct + size <= strings
          /\ strings + b.size_dt_strings <= b.totalsize /\ size \in Nat /\ strings \in Nat
      <3>1. /\ b.off_dt_strings \in Nat /\ b.size_dt_struct \in Nat
            /\ b.size_dt_strings \in Nat /\ b.totalsize \in Nat
            /\ b.off_dt_struct + b.size_dt_struct <= b.off_dt_strings
        BY <1>1 DEF Fields, Ordered
      <3>2. (b.off_dt_strings + b.size_dt_strings) - oldlen + newlen <= b.totalsize
        BY <2>1 DEF data_size
      <3>3. size \in Int /\ size > 0 /\ strings \in Int
        BY <3>1
      <3>4. b.off_dt_struct + (b.size_dt_struct + (newlen - oldlen))
              <= b.off_dt_strings + (newlen - oldlen)
        BY <1>2, <3>1
      <3>5. (b.off_dt_strings + (newlen - oldlen)) + b.size_dt_strings <= b.totalsize
        BY <3>1, <3>2
      <3>6. size \in Nat /\ strings \in Nat
        <4> HIDE DEF size, strings
        <4>1. b.off_dt_struct + size <= strings
          BY <3>4 DEF size, strings
        <4> QED
          BY <1>2, <3>3, <4>1
      <3> QED
        BY <3>1, <3>3, <3>4, <3>5, <3>6
    <2>4. Remade(c, b, k, size, strings, b.size_dt_strings)
      <3>1. c.mem = k /\ c.size_dt_struct = size /\ c.off_dt_strings = strings
        BY <1>1, <2>1 DEF BlobOf
      <3>2. c \in BlobOf(FDT_SIZE_MAX)
        <4> HIDE DEF size, strings
        <4>1. c = [b EXCEPT !.mem = k, !.size_dt_struct = size, !.off_dt_strings = strings]
          BY <1>1, <2>1 DEF BlobOf, size, strings
        <4> HIDE DEF c
        <4> QED
          BY <1>1, <2>2, <2>3, <4>1 DEF BlobOf, Maps
      <3> QED
        BY <1>1, <2>1, <3>1, <3>2 DEF Remade, BlobOf
    <2> HIDE DEF c, size, strings
    <2>5. Kept(c, f)
      BY <2>2, <2>3, <2>4, RemadeKept
    <2>6. Keeps(r, f)
      BY <1>4, <2>1, <2>5 DEF Keeps, Done
    <2> QED
      BY <2>6 DEF r
  <1> QED
    BY <1>5, <1>6

LEMMA PowerIs ==
  /\ Power[0] = 1
  /\ \A n \in Nat : Power[n] \in Nat /\ Power[n] > 0 /\ Power[n + 1] = Base * Power[n]
  <1> DEFINE step == [z \in Nat \X Nat |-> Base * z[2]]
             one == 1
             D == Nat \ {0}
             Body(f) == [n \in Nat |-> IF n = 0 THEN 1 ELSE Base * f[n - 1]]
             Is(f) == f = Body(f)
  <1>1. PICK f : Recursive(f, one, step)
    <2> HIDE DEF one, step
    <2> QED
      BY RecursionExists
  <1>2. \A n \in Nat : f[n] \in D
    <2>1. one \in D /\ \A n \in Nat, d \in D : step[<<n + 1, d>>] \in D
      BY DEF Base
    <2> HIDE DEF one, step, D
    <2> QED
      BY <1>1, <2>1, RecursionType
  <1>3. Is(f)
    <2>1. ASSUME NEW n \in Nat
          PROVE  f[n] = IF n = 0 THEN 1 ELSE Base * f[n - 1]
      <3>1. f[n] = IF n = 0 THEN one ELSE step[<<n, f[n - 1]>>]
        <4> HIDE DEF one, step
        <4> QED
          BY <1>1 DEF Recursive
      <3>2. n # 0 => f[n - 1] \in Nat
        BY <1>2
      <3> QED
        BY <3>1, <3>2
    <2>2. f = [n \in Nat |-> f[n]]
      <3> HIDE DEF one, step
      <3> QED
        BY <1>1 DEF Recursive
    <2> QED
      BY <2>1, <2>2
  <1>4. Power = CHOOSE g : Is(g)
    BY DEF Power
  <1>5. Is(Power)
    <2> HIDE DEF Is
    <2> QED
      BY <1>3, <1>4
  <1>6. \A n \in Nat : Power[n] = IF n = 0 THEN 1 ELSE Base * Power[n - 1]
    BY <1>5
  <1> DEFINE T == {n \in Nat : Power[n] \in Nat /\ Power[n] > 0}
  <1>7. ASSUME NEW n \in Nat PROVE Power[n + 1] = Base * Power[n]
    <2> DEFINE m == n + 1
    <2>1. m \in Nat /\ m # 0 /\ m - 1 = n
      OBVIOUS
    <2> HIDE DEF m
    <2>2. Power[m] = Base * Power[n]
      BY <1>6, <2>1
    <2> QED
      BY <2>2 DEF m
  <1>8. 0 \in T
    BY <1>6
  <1>9. \A n \in Nat : n \in T => n + 1 \in T
    BY <1>7 DEF Base
  <1>10. Nat \subseteq T
    <2> HIDE DEF T
    <2> QED
      BY <1>8, <1>9, Induct
  <1> QED
    BY <1>6, <1>7, <1>10

LEMMA CpuType ==
  ASSUME NEW x \in Int, NEW n \in Nat
  PROVE  cpu_to_fdt(x, n) \in Seq(Byte)
  <1> DEFINE e == Byte
  <1>1. ASSUME NEW i \in 1 .. n PROVE (x \div Power[n - i]) % Base \in e
    <2> DEFINE d == Power[n - i]
    <2>1. n - i \in Nat
      OBVIOUS
    <2>2. d \in Nat /\ d > 0
      BY <2>1, PowerIs
    <2> HIDE DEF d
    <2>3. x \div d \in Int
      BY <2>2
    <2>4. (x \div d) % Base \in Byte
      BY <2>3 DEF Base, Byte
    <2> QED
      BY <2>4 DEF d
  <1> HIDE DEF e
  <1>2. cpu_to_fdt(x, n) \in [1 .. n -> e]
    BY <1>1 DEF cpu_to_fdt
  <1>3. \A t \in [1 .. n -> e] : t \in Seq(e)
    OBVIOUS
  <1>4. cpu_to_fdt(x, n) \in Seq(e)
    BY <1>2, <1>3
  <1> QED
    BY <1>4 DEF e

LEMMA Cpu32Type ==
  ASSUME NEW x \in Int
  PROVE  cpu_to_fdt32(x) \in Seq(Byte)
  BY CpuType, Sizes DEF cpu_to_fdt32

LEMMA ResizeKeeps ==
  ASSUME NEW b, NEW f, Kept(b, f), whole_mem_rsv_size(f) \in Nat,
         NEW node \in Int, NEW name, NEW len \in Nat
  PROVE  Keeps(resize_property(b, node, name, len), f)
  <1> DEFINE prop == fdt_get_property(b, node, name)
             old == FDT_TAGALIGN(PropLen(b, prop))
             new == FDT_TAGALIGN(len)
             s == splice_struct(b, prop + PropSize, old, new)
             r == resize_property(b, node, name, len)
  <1>1. Sound(b) /\ Fields(b)
    BY SoundFields DEF Kept
  <1>2. prop \in PropFrom(b, 0) /\ prop \in Int
    BY <1>1, GetProperty DEF PropFrom
  <1>3. r = IF prop < 0 THEN Done(b, prop)
            ELSE IF s.ret < 0 THEN s
            ELSE Done(Write(s.fdt, prop + FDT_TAGSIZE, cpu_to_fdt32(len)), prop)
    BY DEF resize_property, IfFound, AndThen
  <1> HIDE DEF prop, r
  <1>4. CASE prop < 0
    <2>1. Keeps(r, f)
      BY <1>2, <1>3, <1>4 DEF Keeps, Done
    <2> QED
      BY <2>1 DEF r
  <1>5. CASE ~(prop < 0)
    <2>1. /\ prop \in Nat /\ PropLen(b, prop) \in Nat
          /\ (prop + PropSize) + PropLen(b, prop) <= b.size_dt_struct
      BY <1>1, <1>2, <1>5, PropAt
    <2>2. old \in Nat /\ old <= PropLen(b, prop) + FDT_TAGSIZE - 1 /\ new \in Nat
      BY <2>1, TagAlign
    <2>3. /\ b.size_dt_struct + (new - old) > 0
          /\ (prop + PropSize) \in Nat /\ (prop + FDT_TAGSIZE) \in Nat
      <3> HIDE DEF old, new
      <3>1. b.size_dt_struct \in Nat
        BY <1>1 DEF Fields
      <3> QED
        BY <2>1, <2>2, <3>1, Sizes
    <2>4. Keeps(s, f)
      <3> HIDE DEF old, new
      <3> QED
        BY <2>2, <2>3, SpliceStructKeeps
    <2> HIDE DEF s
    <2>5. Kept(Write(s.fdt, prop + FDT_TAGSIZE, cpu_to_fdt32(len)), f)
      BY <2>3, <2>4, Cpu32Type, WriteKeeps DEF Keeps
    <2>6. Keeps(r, f)
      BY <1>2, <1>3, <1>5, <2>4, <2>5 DEF Keeps, Done
    <2> QED
      BY <2>6 DEF r
  <1> QED
    BY <1>4, <1>5

LEMMA FindStringIs ==
  ASSUME NEW m, NEW p \in Nat, NEW size \in Nat, NEW s \in Seq(Byte)
  PROVE  fdt_find_string(m, p, size, s) \in Nat \cup {-1}
  <1> DEFINE n == Len(Append(s, NUL))
             places == {q \in p .. p + size - n : Bytes(m, q, n) = Append(s, NUL)}
  <1>1. n \in Nat
    OBVIOUS
  <1>2. fdt_find_string(m, p, size, s) = IF places = {} THEN -1 ELSE Least(places) - p
    BY DEF fdt_find_string
  <1>3. places # {} => Least(places) \in Nat /\ p <= Least(places)
    <2>1. places \subseteq Nat /\ \A q \in places : p <= q
      <3> HIDE DEF n
      <3> QED
        BY <1>1
    <2> HIDE DEF places
    <2>2. places # {} => Least(places) \in places
      BY <2>1, LeastOf
    <2> QED
      BY <2>1, <2>2
  <1> HIDE DEF places
  <1> QED
    BY <1>2, <1>3

LEMMA FindAddStringKeeps ==
  ASSUME NEW b, NEW f, Kept(b, f), whole_mem_rsv_size(f) \in Nat, NEW s \in Seq(Byte)
  PROVE  Keeps(find_add_string(b, s), f)
  <1> DEFINE p == fdt_find_string(b.mem, b.off_dt_strings, b.size_dt_strings, s)
             end == data_size(b)
             newlen == Len(s) + 1
             t == splice(b, end, 0, newlen)
             u == [t.fdt EXCEPT !.size_dt_strings = @ + newlen]
             c == [u EXCEPT !.mem = memcpy(@, end, Append(s, NUL))]
             r == find_add_string(b, s)
  <1>1. Sound(b) /\ Fields(b) /\ Ordered(b) /\ b \in BlobOf(FDT_SIZE_MAX)
    BY SoundFields DEF Kept, Sound
  <1>2. p \in Nat \cup {-1}
    BY <1>1, FindStringIs DEF Fields
  <1>3. r = IF p >= 0 THEN Done(b, p)
            ELSE IF t.ret < 0 THEN t ELSE Done(c, b.size_dt_strings)
    <2> DEFINE ss == splice_string(b, newlen)
    <2>1. ss = IF t.ret < 0 THEN t ELSE Done(u, 0)
      BY DEF splice_string, AndThen
    <2>2. r = IF p >= 0 THEN Done(b, p)
              ELSE IF ss.ret < 0 THEN ss
              ELSE Done([ss.fdt EXCEPT !.mem = memcpy(@, end, Append(s, NUL))],
                        b.size_dt_strings)
      BY DEF find_add_string, AndThen
    <2> HIDE DEF ss, t, u, p, r
    <2>3. CASE t.ret < 0
      BY <2>1, <2>2, <2>3
    <2>4. CASE ~(t.ret < 0)
      <3>1. ss.ret = 0 /\ ss.fdt = u
        BY <2>1, <2>4 DEF Done
      <3> QED
        BY <2>2, <2>4, <3>1
    <2> QED
      BY <2>3, <2>4
  <1> HIDE DEF p, r
  <1>4. CASE p >= 0
    <2>1. Keeps(r, f)
      BY <1>2, <1>3, <1>4 DEF Keeps, Done
    <2> QED
      BY <2>1 DEF r
  <1>5. end \in Nat /\ newlen \in Nat /\ b.off_dt_struct <= end /\ b.off_dt_struct \in Nat
    BY <1>1, Inside
  <1> HIDE DEF newlen, end
  <1>6. Spliced(t, b, end, 0, newlen)
    BY <1>1, <1>5, SpliceIs
  <1> HIDE DEF t
  <1>7. CASE ~(p >= 0) /\ t.ret \in Int /\ t.ret < 0 /\ t.fdt = b
    <2>1. Keeps(r, f)
      BY <1>3, <1>7 DEF Keeps
    <2> QED
      BY <2>1 DEF r
  <1>8. CASE ~(p >= 0) /\ ~(t.ret \in Int /\ t.ret < 0 /\ t.fdt = b)
    <2>1. PICK k : /\ t.fdt = [b EXCEPT !.mem = k] /\ Beyond(b.mem, k, end + newlen)
                   /\ t.ret = 0 /\ end - 0 + newlen <= b.totalsize
      BY <1>6, <1>8 DEF Spliced, end
    <2>2. Maps(k, 0 .. FDT_SIZE_MAX - 1, Byte)
      BY <2>1 DEF Beyond
    <2>3. Append(s, NUL) \in Seq(Byte)
      <3>1. NUL \in Byte
        BY DEF NUL, Byte, Base
      <3> QED
        BY <3>1, AppendProperties
    <2> DEFINE a == Append(s, NUL)
               l == memcpy(k, end, a)
               names == b.size_dt_strings + newlen
    <2>4. Beyond(k, l, end)
      <3>1. a \in Seq(Byte) /\ end \in Int
        BY <1>5, <2>3
      <3> HIDE DEF a
      <3> QED
        BY <2>2, <3>1, WriteIs
    <2> HIDE DEF l
    <2>5. Maps(l, 0 .. FDT_SIZE_MAX - 1, Byte) /\ Beyond(b.mem, l, b.off_dt_struct)
      <3>1. Maps(l, 0 .. FDT_SIZE_MAX - 1, Byte)
        BY <2>4 DEF Beyond
      <3>2. ASSUME NEW i \in 0 .. FDT_SIZE_MAX - 1, i < b.off_dt_struct
            PROVE  l[i] = b.mem[i]
        <4>1. i < end /\ i < end + newlen
          BY <1>5, <3>2, Sizes
        <4>2. l[i] = k[i] /\ k[i] = b.mem[i]
          BY <2>1, <2>4, <4>1 DEF Beyond
        <4> QED
          BY <4>2
      <3> QED
        BY <3>1, <3>2 DEF Beyond
    <2>6. /\ b.size_dt_struct \in Int /\ b.off_dt_strings \in Int /\ names \in Int
          /\ b.size_dt_struct > 0 /\ b.off_dt_struct + b.size_dt_struct <= b.off_dt_strings
          /\ b.off_dt_strings + names <= b.totalsize /\ names \in Nat
      <3>1. /\ b.size_dt_struct \in Nat /\ b.off_dt_strings \in Nat
            /\ b.size_dt_strings \in Nat /\ b.totalsize \in Nat /\ b.size_dt_struct > 0
            /\ b.off_dt_struct + b.size_dt_struct <= b.off_dt_strings
        BY <1>1 DEF Fields, Ordered
      <3>2. (b.off_dt_strings + b.size_dt_strings) + newlen <= b.totalsize
        <4>1. data_size(b) - 0 + newlen <= b.totalsize /\ data_size(b) \in Nat
          BY <1>5, <2>1 DEF end
        <4>2. data_size(b) + newlen <= b.totalsize
          BY <1>5, <3>1, <4>1
        <4> QED
          BY <4>2 DEF data_size
      <3> QED
        BY <1>5, <3>1, <3>2
    <2>7. Remade(c, b, l, b.size_dt_struct, b.off_dt_strings, names)
      <3> HIDE DEF names
      <3>1. u = [b EXCEPT !.mem = k, !.size_dt_strings = names] /\ u.mem = k
        BY <1>1, <2>1 DEF BlobOf, names
      <3> HIDE DEF u
      <3>2. c = [b EXCEPT !.mem = l, !.size_dt_strings = names]
        BY <1>1, <3>1 DEF BlobOf, l
      <3> HIDE DEF c
      <3>3. c \in BlobOf(FDT_SIZE_MAX)
        BY <1>1, <2>5, <2>6, <3>2 DEF BlobOf, Maps
      <3> QED
        BY <1>1, <3>2, <3>3 DEF Remade, BlobOf
    <2> HIDE DEF c, names
    <2>8. Kept(c, f)
      BY <2>5, <2>6, <2>7, RemadeKept
    <2>9. Keeps(r, f)
      <3>1. b.size_dt_strings \in Int
        BY <1>1 DEF Fields
      <3> QED
        BY <1>3, <1>8, <2>1, <2>8, <3>1 DEF Keeps, Done
    <2> QED
      BY <2>9 DEF r
  <1> QED
    BY <1>4, <1>7, <1>8

LEMMA AddPropertyKeeps ==
  ASSUME NEW b, NEW f, Kept(b, f), whole_mem_rsv_size(f) \in Nat,
         NEW node \in Int, NEW name \in Seq(Byte), NEW len \in Nat
  PROVE  Keeps(add_property(b, node, name, len), f)
  <1> DEFINE next == fdt_check_node_offset(b, node)
             str == find_add_string(b, name)
             newlen == PropSize + FDT_TAGALIGN(len)
             s == splice_struct(str.fdt, next, 0, newlen)
             head == cpu_to_fdt32(FDT_PROP) \o cpu_to_fdt32(len) \o cpu_to_fdt32(str.ret)
             r == add_property(b, node, name, len)
  <1>1. Checked(b, node, next)
    BY CheckOffsets DEF Kept
  <1>2. r = IF next < 0 THEN Done(b, next)
            ELSE IF str.ret < 0 THEN str
            ELSE IF s.ret < 0 THEN s ELSE Done(Write(s.fdt, next, head), next)
    BY DEF add_property, IfFound, AndThen
  <1>3. Keeps(str, f)
    BY FindAddStringKeeps
  <1>4. newlen \in Nat /\ newlen >= 0
    <2>1. FDT_TAGALIGN(len) \in Nat
      BY TagAlign
    <2> QED
      BY <2>1, Sizes
  <1> HIDE DEF next, str, newlen, r
  <1>5. CASE next < 0
    <2>1. Keeps(r, f)
      BY <1>1, <1>2, <1>5 DEF Keeps, Done, Checked
    <2> QED
      BY <2>1 DEF r
  <1>6. CASE ~(next < 0) /\ str.ret < 0
    <2>1. Keeps(r, f)
      BY <1>2, <1>3, <1>6
    <2> QED
      BY <2>1 DEF r
  <1>7. CASE ~(next < 0) /\ ~(str.ret < 0)
    <2>1. next \in Nat
      BY <1>1, <1>7 DEF Checked
    <2>2. Keeps(s, f)
      <3> DEFINE n == str.fdt
      <3>1. Kept(n, f)
        BY <1>3 DEF Keeps
      <3> HIDE DEF n
      <3>2. n.size_dt_struct \in Nat /\ n.size_dt_struct > 0
        BY <3>1, SoundFields DEF Kept, Fields, Ordered
      <3>3. n.size_dt_struct + (newlen - 0) > 0
        BY <1>4, <3>2
      <3>4. Keeps(splice_struct(n, next, 0, newlen), f)
        BY <1>4, <2>1, <3>1, <3>3, SpliceStructKeeps
      <3> QED
        BY <3>4 DEF n
    <2>3. head \in Seq(Byte)
      <3> DEFINE x == cpu_to_fdt32(FDT_PROP)
                 y == cpu_to_fdt32(len)
                 z == cpu_to_fdt32(str.ret)
      <3>1. x \in Seq(Byte) /\ y \in Seq(Byte) /\ z \in Seq(Byte)
        <4>1. FDT_PROP \in Int /\ len \in Int /\ str.ret \in Int
          BY <1>3, Codes DEF Keeps
        <4> QED
          BY <4>1, Cpu32Type, Zenon
      <3> HIDE DEF x, y, z
      <3>2. x \o y \in Seq(Byte)
        BY <3>1, ConcatProperties
      <3>3. (x \o y) \o z \in Seq(Byte)
        BY <3>1, <3>2, ConcatProperties
      <3> QED
        BY <3>3 DEF x, y, z
    <2> HIDE DEF s, head
    <2>4. Kept(Write(s.fdt, next, head), f)
      BY <2>1, <2>2, <2>3, WriteKeeps DEF Keeps
    <2>5. Keeps(r, f)
      BY <1>2, <1>7, <2>1, <2>2, <2>4 DEF Keeps, Done
    <2> QED
      BY <2>5 DEF r
  <1> QED
    BY <1>5, <1>6, <1>7

LEMMA WriteValueKeeps ==
  ASSUME NEW f, NEW r, Keeps(r, f), whole_mem_rsv_size(f) \in Nat, NEW val \in Seq(Byte)
  PROVE  Keeps(WriteValue(r, 0, val), f)
  <1>1. CASE r.ret < 0
    <2>1. WriteValue(r, 0, val) = r
      BY <1>1 DEF WriteValue
    <2> QED
      BY <2>1
  <1>2. CASE ~(r.ret < 0)
    <2> DEFINE at == r.ret + PropSize + 0
    <2>1. WriteValue(r, 0, val) = Done(Write(r.fdt, at, val), 0)
      BY <1>2 DEF WriteValue
    <2>2. at \in Nat
      BY <1>2, Sizes DEF Keeps
    <2> HIDE DEF at
    <2>3. Kept(Write(r.fdt, at, val), f)
      BY <2>2, WriteKeeps DEF Keeps
    <2> QED
      BY <2>1, <2>3 DEF Keeps, Done
  <1> QED
    BY <1>1, <1>2

LEMMA HeaderOk ==
  ASSUME NEW b, Sound(b)
  PROVE  rw_check_header(b) = Done(b, 0)
  <1>1. [b EXCEPT !.version = 17] = b
    BY DEF Sound, BlobOf
  <1>2. rw_check_header(b) = Done([b EXCEPT !.version = 17], 0)
    BY DEF Sound, rw_check_header, IfFound
  <1> QED
    BY <1>1, <1>2

LEMMA SetpropKeeps ==
  ASSUME NEW b, NEW f, Kept(b, f), whole_mem_rsv_size(f) \in Nat,
         NEW node \in Int, NEW name \in Seq(Byte), NEW val \in Seq(Byte)
  PROVE  Keeps(fdt_setprop(b, node, name, val), f)
  <1> DEFINE r1 == resize_property(b, node, name, Len(val))
             r2 == add_property(b, node, name, Len(val))
             r == IF r1.ret = -NOTFOUND THEN r2 ELSE r1
  <1>1. rw_check_header(b) = Done(b, 0)
    BY HeaderOk DEF Kept
  <1>2. fdt_setprop(b, node, name, val) = WriteValue(r, 0, val)
    BY <1>1 DEF fdt_setprop, IfHeaderOk, AndThen, Done
  <1>3. Len(val) \in Nat
    OBVIOUS
  <1>4. Keeps(r1, f) /\ Keeps(r2, f)
    BY <1>3, ResizeKeeps, AddPropertyKeeps
  <1>5. Keeps(r, f)
    <2> HIDE DEF r1, r2
    <2> QED
      BY <1>4
  <1> HIDE DEF r
  <1>6. Keeps(WriteValue(r, 0, val), f)
    BY <1>5, WriteValueKeeps
  <1> QED
    BY <1>2, <1>6

-----------------------------------------------------------------------------
(* The reserve map: the number of its entries is that of the first one of  *)
(* size 0, if there is one in the memory.                                  *)
IsCount(b, i) ==
  /\ i \in Entries(b) /\ mem_rsv(b, i).size = 0
  /\ \A j \in 0 .. i - 1 : mem_rsv(b, j).size # 0

LEMMA CountIs ==
  ASSUME NEW b, NEW i, IsCount(b, i)
  PROVE  fdt_num_mem_rsv(b) = i
  <1>1. \A j \in Entries(b) : j \in Nat
    BY DEF Entries, Offsets
  <1>2. ASSUME NEW j, IsCount(b, j) PROVE j = i
    <2>1. i \in Nat /\ j \in Nat
      BY <1>1, <1>2 DEF IsCount
    <2>2. ~(j < i) /\ ~(i < j)
      <3>1. j < i => j \in 0 .. i - 1
        BY <2>1
      <3>2. i < j => i \in 0 .. j - 1
        BY <2>1
      <3> QED
        BY <1>2, <3>1, <3>2 DEF IsCount
    <2> QED
      BY <2>1, <2>2
  <1>3. fdt_num_mem_rsv(b) = CHOOSE j \in Entries(b) :
                               mem_rsv(b, j).size = 0 /\ \A k \in 0 .. j - 1 : mem_rsv(b, k).size # 0
    BY DEF fdt_num_mem_rsv
  <1>4. IsCount(b, fdt_num_mem_rsv(b))
    BY <1>3 DEF IsCount
  <1> QED
    BY <1>2, <1>4

(* A file that libfdt takes.                                               *)
Good(f) == f \in Files /\ fdt_check_header(f) = 0

LEMMA FileFacts ==
  ASSUME NEW f, Good(f)
  PROVE  /\ f \in BlobOf(f.totalsize) /\ f.totalsize \in Nat /\ f.totalsize <= FDT_SIZE_MAX
         /\ Maps(f.mem, 0 .. f.totalsize - 1, Byte) /\ f.off_mem_rsvmap \in Nat
         /\ WellFormed(f) /\ Cardinality(DOMAIN f.mem) = f.totalsize
  <1>1. f \in BlobOf(f.totalsize) /\ f.totalsize <= FDT_SIZE_MAX /\ WellFormed(f)
    <2>1. /\ \A g \in Files : g \in BlobOf(g.totalsize) /\ g.totalsize <= FDT_SIZE_MAX
          /\ \A g \in Files : fdt_check_header(g) = 0 => WellFormed(g)
      BY UpdateAssumption, Zenon
    <2> QED
      BY <2>1, Zenon DEF Good
  <1>2. /\ f.totalsize \in Nat /\ Maps(f.mem, 0 .. f.totalsize - 1, Byte)
        /\ f.off_mem_rsvmap \in Nat
    BY <1>1 DEF BlobOf, Maps
  <1>3. Cardinality(DOMAIN f.mem) = f.totalsize
    <2> DEFINE n == f.totalsize
    <2>1. DOMAIN f.mem = 0 .. n - 1 /\ n \in Nat
      BY <1>2 DEF Maps
    <2> HIDE DEF n
    <2>2. Cardinality(0 .. n - 1) = IF 0 > n - 1 THEN 0 ELSE (n - 1) - 0 + 1
      BY <2>1, FS_Interval
    <2>3. Cardinality(0 .. n - 1) = n
      BY <2>1, <2>2
    <2> QED
      BY <2>1, <2>3 DEF n
  <1> QED
    BY <1>1, <1>2, <1>3

LEMMA FileCount ==
  ASSUME NEW f, Good(f)
  PROVE  /\ IsCount(f, fdt_num_mem_rsv(f)) /\ fdt_num_mem_rsv(f) \in Nat
         /\ whole_mem_rsv_size(f) \in Nat /\ EntrySize <= whole_mem_rsv_size(f)
         /\ f.off_mem_rsvmap + whole_mem_rsv_size(f) <= f.totalsize
  <1> DEFINE Z == {i \in Entries(f) : mem_rsv(f, i).size = 0}
             o == f.off_mem_rsvmap
             e == EntrySize
             n == f.totalsize
  <1>1. o \in Nat /\ e \in Nat /\ n \in Nat /\ Cardinality(DOMAIN f.mem) = n
    BY FileFacts, Sizes
  <1>2. \A i : i \in Entries(f) <=> i \in 0 .. n /\ o + (i + 1) * e <= n
    BY <1>1 DEF Entries, Offsets
  <1>3. Z \subseteq Nat /\ Z # {}
    <2>1. \E i \in Entries(f) : mem_rsv(f, i).size = 0
      BY FileFacts DEF WellFormed
    <2>2. Entries(f) \subseteq Nat
      BY <1>2
    <2> QED
      BY <2>1, <2>2
  <1>4. PICK i \in Z : \A j \in Z : i <= j
    <2> HIDE DEF Z
    <2> QED
      BY <1>3, Smallest
  <1>5. i \in Nat /\ i \in Entries(f) /\ mem_rsv(f, i).size = 0
    BY <1>3
  <1> HIDE DEF o, e, n
  <1>6. ASSUME NEW j \in 0 .. i - 1 PROVE mem_rsv(f, j).size # 0
    <2>1. j \in Nat /\ j < i
      BY <1>5
    <2>2. (j + 1) * e <= (i + 1) * e /\ (j + 1) * e \in Nat /\ (i + 1) * e \in Nat
      <3>1. PICK d \in Nat : i = j + d
        <4>1. i - j \in Nat /\ i = j + (i - j)
          BY <1>5, <2>1
        <4> QED
          BY <4>1
      <3>2. (j + d + 1) * e = (j + 1) * e + d * e /\ d * e \in Nat /\ (j + 1) * e \in Nat
        BY <1>1, <2>1
      <3> QED
        BY <3>1, <3>2, <2>1
    <2>3. i \in 0 .. n /\ o + (i + 1) * e <= n
      BY <1>2, <1>5
    <2>4. j \in 0 .. n
      BY <1>1, <2>1, <2>3
    <2>5. o + (j + 1) * e <= n
      <3> DEFINE x == (j + 1) * e
                 y == (i + 1) * e
      <3>1. x \in Nat /\ y \in Nat /\ x <= y /\ o + y <= n
        BY <2>2, <2>3
      <3> HIDE DEF x, y
      <3>2. o + x <= n
        BY <1>1, <3>1
      <3> QED
        BY <3>2 DEF x
    <2>6. j \in Entries(f)
      BY <1>2, <2>4, <2>5
    <2> QED
      BY <1>4, <2>1, <2>6
  <1>7. IsCount(f, i)
    BY <1>5, <1>6 DEF IsCount
  <1>8. fdt_num_mem_rsv(f) = i
    BY <1>7, CountIs
  <1>9. whole_mem_rsv_size(f) = (i + 1) * e
    BY <1>8 DEF whole_mem_rsv_size, e
  <1>10. (i + 1) * e \in Nat /\ e <= (i + 1) * e
    <2>1. (i + 1) * e = i * e + e /\ i * e \in Nat
      BY <1>1, <1>5
    <2> QED
      BY <1>1, <2>1
  <1>11. o + (i + 1) * e <= n
    BY <1>2, <1>5
  <1> QED
    BY <1>5, <1>7, <1>8, <1>9, <1>10, <1>11 DEF o, e, n

(* The entries of a reserve map that is the same are the same.             *)
LEMMA SameEntries ==
  ASSUME NEW b, NEW f, Good(f), b.off_mem_rsvmap \in Nat,
         \A k \in 0 .. whole_mem_rsv_size(f) - 1 :
           b.mem[b.off_mem_rsvmap + k] = f.mem[f.off_mem_rsvmap + k],
         NEW j \in 0 .. fdt_num_mem_rsv(f)
  PROVE  mem_rsv(b, j) = mem_rsv(f, j)
  <1> DEFINE o == b.off_mem_rsvmap
             q == f.off_mem_rsvmap
             e == EntrySize
             t == FDT_TAGSIZE
             w == 2 * t
             n == fdt_num_mem_rsv(f)
             W == whole_mem_rsv_size(f)
             x == j * e
  <1>1. /\ o \in Nat /\ q \in Nat /\ e \in Nat /\ t \in Nat /\ n \in Nat /\ e = 4 * t
        /\ j \in Nat /\ j <= n
    BY FileFacts, FileCount, Sizes
  <1>2. W = (n + 1) * e
    BY DEF whole_mem_rsv_size
  <1> HIDE DEF o, q, e, t, n, W
  <1>3. x \in Nat /\ x + e <= W
    <2>1. PICK d \in Nat : n = j + d
      <3>1. n - j \in Nat /\ n = j + (n - j)
        BY <1>1
      <3> QED
        BY <3>1
    <2>2. (j + d + 1) * e = j * e + d * e + e /\ d * e \in Nat /\ j * e \in Nat
      BY <1>1
    <2> QED
      BY <1>1, <1>2, <2>1, <2>2
  <1> HIDE DEF x
  <1>4. ASSUME NEW y \in 0 .. W - 1 PROVE b.mem[o + y] = f.mem[q + y]
    BY <1>4 DEF o, q, W
  <1>5. BigEndian(b.mem, o + x, w) = BigEndian(f.mem, q + x, w)
    <2> DEFINE p1 == o + x
               p2 == q + x
    <2>1. ASSUME NEW i \in 0 .. w - 1 PROVE b.mem[p1 + i] = f.mem[p2 + i]
      <3> DEFINE y == x + i
      <3>1. y \in 0 .. W - 1 /\ p1 + i = o + y /\ p2 + i = q + y
        BY <1>1, <1>3, <1>2
      <3> HIDE DEF y, p1, p2
      <3> QED
        BY <1>4, <3>1
    <2>2. p1 \in Int /\ p2 \in Int /\ w \in Nat
      BY <1>1, <1>3
    <2> HIDE DEF p1, p2, w
    <2>3. BigEndian(b.mem, p1, w) = BigEndian(f.mem, p2, w)
      BY <2>1, <2>2, BytesSame
    <2> QED
      BY <2>3 DEF p1, p2
  <1>6. BigEndian(b.mem, o + x + w, w) = BigEndian(f.mem, q + x + w, w)
    <2> DEFINE p1 == o + x + w
               p2 == q + x + w
    <2>1. ASSUME NEW i \in 0 .. w - 1 PROVE b.mem[p1 + i] = f.mem[p2 + i]
      <3> DEFINE y == x + w + i
      <3>1. y \in 0 .. W - 1 /\ p1 + i = o + y /\ p2 + i = q + y
        BY <1>1, <1>3, <1>2
      <3> HIDE DEF y, p1, p2
      <3> QED
        BY <1>4, <3>1
    <2>2. p1 \in Int /\ p2 \in Int /\ w \in Nat
      BY <1>1, <1>3
    <2> HIDE DEF p1, p2, w
    <2>3. BigEndian(b.mem, p1, w) = BigEndian(f.mem, p2, w)
      BY <2>1, <2>2, BytesSame
    <2> QED
      BY <2>3 DEF p1, p2
  <1> QED
    BY <1>5, <1>6 DEF mem_rsv, o, q, x, e, w, t

LEMMA SameMap ==
  ASSUME NEW b, NEW f, Good(f), Kept(b, f)
  PROVE  /\ fdt_num_mem_rsv(b) = fdt_num_mem_rsv(f)
         /\ whole_mem_rsv_size(b) = whole_mem_rsv_size(f)
         /\ ReserveMap(b) = ReserveMap(f)
  <1> DEFINE n == fdt_num_mem_rsv(f)
             W == whole_mem_rsv_size(f)
             o == b.off_mem_rsvmap
             e == EntrySize
  <1>1. /\ Sound(b) /\ o \in Nat /\ n \in Nat /\ e \in Nat /\ e >= 1 /\ W = (n + 1) * e
        /\ IsCount(f, n)
    BY SoundFields, FileCount, Sizes DEF Kept, Fields, whole_mem_rsv_size
  <1>2. \A j \in 0 .. n : mem_rsv(b, j) = mem_rsv(f, j)
    BY <1>1, SameEntries DEF Kept, SameFront
  <1>3. o + W <= FDT_SIZE_MAX
    <2>1. o + W <= b.off_dt_struct
      BY DEF Kept, SameFront
    <2>2. b.off_dt_struct \in Nat /\ b.off_dt_struct <= FDT_SIZE_MAX /\ W \in Nat
      BY <1>1, Inside, FileCount
    <2> HIDE DEF o, W
    <2> QED
      BY <1>1, <2>1, <2>2, Sizes
  <1>4. n \in Entries(b)
    <2>1. Offsets(b) = 0 .. FDT_SIZE_MAX /\ Cardinality(DOMAIN b.mem) = FDT_SIZE_MAX
      BY <1>1, OffsetsAre
    <2>2. n + 1 <= (n + 1) * e
      <3> HIDE DEF n, e
      <3>1. PICK d \in Nat : e = 1 + d
        <4>1. e - 1 \in Nat /\ e = 1 + (e - 1)
          BY <1>1
        <4> QED
          BY <4>1
      <3>2. (n + 1) * (1 + d) = (n + 1) + (n + 1) * d /\ (n + 1) * d \in Nat
        BY <1>1
      <3> QED
        BY <1>1, <3>1, <3>2
    <2>3. o + (n + 1) * e <= FDT_SIZE_MAX
      BY <1>1, <1>3
    <2>4. n \in 0 .. FDT_SIZE_MAX
      <3> DEFINE x == (n + 1) * e
      <3>1. x \in Nat
        BY <1>1, FileCount
      <3>2. n + 1 <= x /\ o + x <= FDT_SIZE_MAX
        BY <2>2, <2>3
      <3> HIDE DEF x, o, n
      <3> QED
        BY <1>1, <3>1, <3>2, Sizes
    <2> HIDE DEF n, e, o
    <2> QED
      BY <2>1, <2>3, <2>4 DEF Entries, e, o
  <1>5. IsCount(b, n)
    <2>1. n \in 0 .. n /\ \A j \in 0 .. n - 1 : j \in 0 .. n
      BY <1>1
    <2> HIDE DEF n
    <2> QED
      BY <1>1, <1>2, <1>4, <2>1 DEF IsCount
  <1>6. fdt_num_mem_rsv(b) = n
    BY <1>5, CountIs
  <1>7. whole_mem_rsv_size(b) = W
    BY <1>6 DEF whole_mem_rsv_size
  <1>8. ReserveMap(b) = ReserveMap(f)
    <2>1. ASSUME NEW i \in 1 .. n PROVE mem_rsv(b, i - 1) = mem_rsv(f, i - 1)
      <3>1. i - 1 \in 0 .. n
        BY <1>1
      <3> QED
        BY <1>2, <3>1
    <2> HIDE DEF n
    <2>2. ReserveMap(f) = [i \in 1 .. n |-> mem_rsv(f, i - 1)]
      BY DEF ReserveMap, n
    <2>3. ReserveMap(b) = [i \in 1 .. n |-> mem_rsv(b, i - 1)]
      BY <1>6 DEF ReserveMap
    <2> QED
      BY <2>1, <2>2, <2>3
  <1> QED
    BY <1>6, <1>7, <1>8

-----------------------------------------------------------------------------
(* A blob is opened, and packed: block by block, to the places in libfdt's *)
(* order.                                                                  *)
Packed(p, old, k, W, S) ==
  /\ p \in BlobOf(FDT_SIZE_MAX)
  /\ p.off_mem_rsvmap = RsvStart /\ p.off_dt_struct = RsvStart + W
  /\ p.size_dt_struct = S /\ p.off_dt_strings = RsvStart + W + S
  /\ p.size_dt_strings = old.size_dt_strings /\ p.magic = old.magic
  /\ p.version = old.version /\ p.last_comp_version = old.last_comp_version
  /\ p.totalsize = old.totalsize /\ p.boot_cpuid_phys = old.boot_cpuid_phys
  /\ \A j \in 0 .. W - 1 : p.mem[RsvStart + j] = k[old.off_mem_rsvmap + j]

LEMMA PackIs ==
  ASSUME NEW old, NEW L, old \in BlobOf(L), NEW W \in Nat, NEW S \in Nat,
         NEW m, Maps(m, 0 .. FDT_SIZE_MAX - 1, Byte), NEW inplace \in BOOLEAN,
         NEW N \in Nat, inplace => N = FDT_SIZE_MAX,
         ~inplace => Maps(old.mem, 0 .. N - 1, Byte),
         old.off_mem_rsvmap + W <= N, old.off_dt_struct + S <= N,
         old.off_dt_strings + old.size_dt_strings <= N, RsvStart + W <= FDT_SIZE_MAX
  PROVE  Packed(packblocks(old, m, inplace, 0, W, S), old,
                IF inplace THEN m ELSE old.mem, W, S)
  <1> DEFINE D == 0 .. FDT_SIZE_MAX - 1
             From(now) == IF inplace THEN now ELSE old.mem
             d2 == RsvStart + W
             d3 == d2 + S
             q1 == old.off_mem_rsvmap
             q2 == old.off_dt_struct
             q3 == old.off_dt_strings
             T == old.size_dt_strings
             a1 == 0 + RsvStart
             a2 == 0 + d2
             a3 == 0 + d3
             k1 == From(m)
             m1 == CopyFrom(m, a1, k1, q1, W)
             k2 == From(m1)
             m2 == CopyFrom(m1, a2, k2, q2, S)
             k3 == From(m2)
             m3 == CopyFrom(m2, a3, k3, q3, T)
             p == [old EXCEPT !.off_mem_rsvmap = RsvStart, !.off_dt_struct = d2,
                              !.size_dt_struct = S, !.off_dt_strings = d3, !.mem = m3]
  <1>1. packblocks(old, m, inplace, 0, W, S) = p
    BY DEF packblocks, RsvStart
  <1>2. /\ q1 \in Nat /\ q2 \in Nat /\ q3 \in Nat /\ T \in Nat
        /\ q1 + W <= N /\ q2 + S <= N /\ q3 + T <= N
    BY DEF BlobOf
  <1>3. /\ RsvStart \in Nat /\ FDT_SIZE_MAX \in Nat /\ d2 \in Nat /\ d3 \in Nat
        /\ d2 <= d3 /\ RsvStart <= d2 /\ d2 = RsvStart + W /\ d2 <= FDT_SIZE_MAX
    BY Sizes
  <1>4. /\ a1 \in Nat /\ a2 \in Nat /\ a3 \in Nat
        /\ a1 = RsvStart /\ a2 = d2 /\ a3 = d3
    BY <1>3
  <1>5. \A now : Maps(now, D, Byte) => Maps(From(now), 0 .. N - 1, Byte)
    OBVIOUS
  <1> HIDE DEF q1, q2, q3, T, From, d2, d3, a1, a2, a3
  <1>6. /\ Beyond(m, m1, a1)
        /\ \A i \in D : a1 <= i /\ i < a1 + W => m1[i] = k1[q1 + i - a1]
    <2>1. Maps(k1, 0 .. N - 1, Byte)
      BY <1>5
    <2> HIDE DEF k1
    <2>2. /\ a1 \in Int /\ q1 \in Nat /\ W \in Int /\ q1 + W <= N
      BY <1>2, <1>4
    <2>3. Copied(m1, m, k1, a1, q1, W)
      BY <2>1, <2>2, CopyIs
    <2> QED
      BY <2>3 DEF Copied
  <1> HIDE DEF m1
  <1>7. Maps(m1, D, Byte)
    BY <1>6 DEF Beyond
  <1>8. Beyond(m1, m2, a2)
    <2>1. Maps(k2, 0 .. N - 1, Byte)
      BY <1>5, <1>7
    <2> HIDE DEF k2
    <2>2. Copied(m2, m1, k2, a2, q2, S)
      <3>1. /\ a2 \in Int /\ q2 \in Nat /\ S \in Int /\ q2 + S <= N
            /\ Maps(m1, D, Byte) /\ Maps(k2, 0 .. N - 1, Byte)
        BY <1>2, <1>4, <1>7, <2>1
      <3> QED
        BY <3>1, CopyIs
    <2> QED
      BY <2>2 DEF Copied
  <1> HIDE DEF m2
  <1>9. Maps(m2, D, Byte)
    BY <1>8 DEF Beyond
  <1>10. Beyond(m2, m3, a3) /\ Maps(m3, D, Byte)
    <2>1. Maps(k3, 0 .. N - 1, Byte)
      BY <1>5, <1>9
    <2> HIDE DEF k3
    <2>2. Copied(m3, m2, k3, a3, q3, T)
      <3>1. /\ a3 \in Int /\ q3 \in Nat /\ T \in Int /\ q3 + T <= N
            /\ Maps(m2, D, Byte) /\ Maps(k3, 0 .. N - 1, Byte)
        BY <1>2, <1>4, <1>9, <2>1
      <3> QED
        BY <3>1, CopyIs
    <2> QED
      BY <2>2 DEF Copied, Beyond
  <1> HIDE DEF m3, k1
  <1>11. ASSUME NEW j \in 0 .. W - 1 PROVE m3[RsvStart + j] = k1[q1 + j]
    <2> DEFINE i == RsvStart + j
    <2>1. /\ i \in D /\ a1 <= i /\ i < a1 + W /\ i < a2 /\ i < a3
          /\ q1 + i - a1 = q1 + j
      BY <1>2, <1>3, <1>4
    <2> HIDE DEF i
    <2>2. m3[i] = m2[i]
      BY <1>10, <2>1 DEF Beyond
    <2>3. m2[i] = m1[i]
      BY <1>8, <2>1 DEF Beyond
    <2>4. m1[i] = k1[q1 + j]
      BY <1>6, <2>1
    <2> QED
      BY <2>2, <2>3, <2>4 DEF i
  <1>12. p \in BlobOf(FDT_SIZE_MAX)
    <2>1. m3 \in [0 .. FDT_SIZE_MAX - 1 -> Byte]
      BY <1>10 DEF Maps
    <2> QED
      BY <1>3, <2>1 DEF BlobOf
  <1>13. /\ p.off_mem_rsvmap = RsvStart /\ p.off_dt_struct = d2 /\ p.size_dt_struct = S
         /\ p.off_dt_strings = d3 /\ p.size_dt_strings = T /\ p.magic = old.magic
         /\ p.version = old.version /\ p.last_comp_version = old.last_comp_version
         /\ p.totalsize = old.totalsize /\ p.boot_cpuid_phys = old.boot_cpuid_phys
         /\ p.mem = m3
    BY DEF BlobOf, T
  <1> HIDE DEF p
  <1>14. \A j \in 0 .. W - 1 : p.mem[RsvStart + j] = k1[q1 + j]
    BY <1>11, <1>13
  <1>15. Packed(p, old, k1, W, S)
    BY <1>12, <1>13, <1>14 DEF Packed, d2, d3, T, q1
  <1> QED
    BY <1>1, <1>15 DEF From, k1

(* What makes a blob sound, and keeps the front of a file.                 *)
LEMMA SoundIs ==
  ASSUME NEW b, b \in BlobOf(FDT_SIZE_MAX), fdt_check_header(b) = 0, b.version = 17,
         Ordered(b)
  PROVE  Sound(b)
  <1>1. /\ b.off_mem_rsvmap \in Nat /\ b.off_dt_struct \in Nat /\ b.off_dt_strings \in Nat
        /\ b.size_dt_struct \in Nat /\ b.size_dt_strings \in Nat /\ b.totalsize \in Nat
    BY DEF BlobOf
  <1>2. RsvStart \in Nat /\ EntrySize \in Nat
    BY Sizes
  <1>3. /\ ~(b.off_mem_rsvmap < RsvStart)
        /\ ~(b.off_dt_struct < b.off_mem_rsvmap + EntrySize)
        /\ ~(b.off_dt_strings < b.off_dt_struct + b.size_dt_struct)
        /\ ~(b.totalsize < b.off_dt_strings + b.size_dt_strings)
    BY <1>1, <1>2 DEF Ordered
  <1>4. ~blocks_misordered(b, EntrySize, b.size_dt_struct)
    BY <1>3 DEF blocks_misordered, RsvStart
  <1> QED
    BY <1>4 DEF Sound, Ordered

LEMMA KeptIs ==
  ASSUME NEW b, NEW f, Good(f), b \in BlobOf(FDT_SIZE_MAX), fdt_check_header(b) = 0,
         b.version = 17, b.size_dt_struct > 0, RsvStart <= b.off_mem_rsvmap, SameFront(b, f),
         b.off_dt_struct + b.size_dt_struct <= b.off_dt_strings,
         b.off_dt_strings + b.size_dt_strings <= b.totalsize, b.totalsize <= FDT_SIZE_MAX
  PROVE  Kept(b, f)
  <1> DEFINE W == whole_mem_rsv_size(f)
  <1>1. /\ EntrySize \in Nat /\ W \in Nat /\ EntrySize <= W /\ b.off_mem_rsvmap \in Nat
        /\ b.off_dt_struct \in Nat /\ b.off_mem_rsvmap + W <= b.off_dt_struct
    BY Sizes, FileCount DEF SameFront, BlobOf
  <1> HIDE DEF W
  <1>2. b.off_mem_rsvmap + EntrySize <= b.off_dt_struct
    BY <1>1
  <1>3. Ordered(b)
    BY <1>2 DEF Ordered
  <1> QED
    BY <1>3, SoundIs DEF Kept

LEMMA HeaderIs ==
  ASSUME NEW b
  PROVE  /\ fdt_check_header(b) \in Int
         /\ fdt_check_header(b) # 0 => fdt_check_header(b) < 0
  BY DEF fdt_check_header, BADVERSION, BADSTATE, BADMAGIC

LEMMA MoveNone ==
  ASSUME NEW m, Maps(m, 0 .. FDT_SIZE_MAX - 1, Byte), NEW n
  PROVE  memmove(m, 0, 0, n) = m
  <1> DEFINE D == 0 .. FDT_SIZE_MAX - 1
             e == Byte
  <1> HIDE DEF e
  <1>1. m \in [D -> e]
    BY DEF Maps, e
  <1>2. \A i \in D : 0 + i - 0 = i
    BY Sizes
  <1> HIDE DEF D
  <1>3. memmove(m, 0, 0, n) = [i \in D |-> IF i \in 0 .. 0 + n - 1 THEN m[0 + i - 0] ELSE m[i]]
    BY <1>1 DEF memmove, CopyFrom
  <1> QED
    BY <1>1, <1>2, <1>3

(* The result of fdt_open_into for a blob that is opened.                  *)
SizeOfStruct(f) == IF f.version >= 17 THEN f.size_dt_struct ELSE StructEnd(f)
Opened(f, buf) ==
  [f EXCEPT !.mem = CopyFrom(buf, 0, f.mem, 0, f.totalsize), !.version = 17,
            !.size_dt_struct = SizeOfStruct(f), !.totalsize = FDT_SIZE_MAX]

LEMMA OpenedKeeps ==
  ASSUME NEW f, Good(f), NEW buf, Maps(buf, 0 .. FDT_SIZE_MAX - 1, Byte),
         ~blocks_misordered(f, whole_mem_rsv_size(f), SizeOfStruct(f))
  PROVE  Kept(Opened(f, buf), f)
  <1> DEFINE D == 0 .. FDT_SIZE_MAX - 1
             W == whole_mem_rsv_size(f)
             S == SizeOfStruct(f)
             n == f.totalsize
             q == f.off_mem_rsvmap
             m == CopyFrom(buf, 0, f.mem, 0, n)
             b == Opened(f, buf)
  <1>1. /\ f \in BlobOf(n) /\ n \in Nat /\ n <= FDT_SIZE_MAX /\ Maps(f.mem, 0 .. n - 1, Byte)
        /\ W \in Nat /\ q \in Nat /\ q + W <= n /\ FDT_SIZE_MAX \in Nat /\ RsvStart \in Nat
    BY FileFacts, FileCount, Sizes
  <1>2. S \in Nat /\ S > 0
    BY FileFacts DEF WellFormed, SizeOfStruct
  <1> HIDE DEF n, S, W
  <1>3. /\ Beyond(buf, m, 0)
        /\ \A i \in D : 0 <= i /\ i < 0 + n => m[i] = f.mem[0 + i - 0]
    <2> DEFINE z == 0
    <2>1. z \in Int /\ z \in Nat /\ n \in Int /\ z + n <= n
      BY <1>1
    <2> DEFINE c == CopyFrom(buf, z, f.mem, z, n)
    <2> HIDE DEF z
    <2>2. Copied(c, buf, f.mem, z, z, n)
      BY <1>1, <2>1, CopyIs
    <2> QED
      BY <2>2 DEF Copied, z
  <1> HIDE DEF m
  <1>4. m \in [D -> Byte]
    BY <1>3 DEF Beyond, Maps
  <1>5. /\ b \in BlobOf(FDT_SIZE_MAX) /\ b.mem = m /\ b.version = 17
        /\ b.size_dt_struct = S /\ b.totalsize = FDT_SIZE_MAX /\ b.magic = f.magic
        /\ b.last_comp_version = f.last_comp_version /\ b.off_mem_rsvmap = q
        /\ b.off_dt_struct = f.off_dt_struct /\ b.off_dt_strings = f.off_dt_strings
        /\ b.size_dt_strings = f.size_dt_strings /\ b.boot_cpuid_phys = f.boot_cpuid_phys
    <2>1. b = [f EXCEPT !.mem = m, !.version = 17, !.size_dt_struct = S,
                        !.totalsize = FDT_SIZE_MAX]
      BY DEF Opened, m, S, n
    <2> HIDE DEF b
    <2> QED
      BY <1>1, <1>2, <1>4, <2>1 DEF BlobOf
  <1> HIDE DEF b
  <1>6. fdt_check_header(b) = 0
    <2>1. fdt_check_header(f) = 0
      BY DEF Good
    <2> QED
      BY <1>2, <1>5, <2>1 DEF fdt_check_header, BADVERSION, BADSTATE, BADMAGIC
  <1>7. /\ f.off_dt_struct \in Nat /\ f.off_dt_strings \in Nat /\ f.size_dt_strings \in Nat
    BY <1>1 DEF BlobOf
  <1>8. /\ RsvStart <= q /\ q + W <= f.off_dt_struct
        /\ f.off_dt_struct + S <= f.off_dt_strings
        /\ f.off_dt_strings + f.size_dt_strings <= n
    <2>1. ~blocks_misordered(f, W, S)
      BY DEF W, S
    <2>2. /\ ~(q < RsvStart) /\ ~(f.off_dt_struct < q + W)
          /\ ~(f.off_dt_strings < f.off_dt_struct + S)
          /\ ~(n < f.off_dt_strings + f.size_dt_strings)
      BY <2>1 DEF blocks_misordered, RsvStart, n
    <2> HIDE DEF q
    <2> QED
      BY <1>1, <1>2, <1>7, <2>2
  <1>9. ASSUME NEW j \in 0 .. W - 1 PROVE m[q + j] = f.mem[q + j]
    <2> DEFINE i == q + j
    <2>1. i \in D /\ 0 <= i /\ i < 0 + n /\ 0 + i - 0 = i
      <3> HIDE DEF q
      <3> QED
        BY <1>1
    <2> HIDE DEF i
    <2>2. m[i] = f.mem[i]
      BY <1>3, <2>1
    <2> QED
      BY <2>2 DEF i
  <1>10. SameFront(b, f)
    BY <1>5, <1>8, <1>9 DEF SameFront, W
  <1>11. b.off_dt_strings + b.size_dt_strings <= b.totalsize
    BY <1>1, <1>5, <1>7, <1>8
  <1>12. Kept(b, f)
    BY <1>1, <1>2, <1>5, <1>6, <1>8, <1>10, <1>11, KeptIs
  <1> QED
    BY <1>12 DEF b

(* Its result for a blob whose blocks it puts in order.                    *)
SizeOrdered(f) ==
  RsvStart + whole_mem_rsv_size(f) + SizeOfStruct(f) + f.size_dt_strings
PackedInto(f, buf) ==
  packblocks(f, buf, FALSE, 0, whole_mem_rsv_size(f), SizeOfStruct(f))
Reordered(f, buf) ==
  [PackedInto(f, buf) EXCEPT
     !.mem = memmove(@, 0, 0, SizeOrdered(f)), !.totalsize = FDT_SIZE_MAX, !.version = 17,
     !.last_comp_version = 16, !.boot_cpuid_phys = f.boot_cpuid_phys]

LEMMA ReorderedKeeps ==
  ASSUME NEW f, Good(f), NEW buf, Maps(buf, 0 .. FDT_SIZE_MAX - 1, Byte),
         SizeOrdered(f) <= FDT_SIZE_MAX
  PROVE  Kept(Reordered(f, buf), f)
  <1> DEFINE W == whole_mem_rsv_size(f)
             S == SizeOfStruct(f)
             n == f.totalsize
             q == f.off_mem_rsvmap
             T == f.size_dt_strings
             p == PackedInto(f, buf)
             b == Reordered(f, buf)
  <1>1. /\ f \in BlobOf(n) /\ n \in Nat /\ n <= FDT_SIZE_MAX /\ Maps(f.mem, 0 .. n - 1, Byte)
        /\ W \in Nat /\ q \in Nat /\ q + W <= n /\ FDT_SIZE_MAX \in Nat /\ RsvStart \in Nat
    BY FileFacts, FileCount, Sizes
  <1>2. /\ S \in Nat /\ S > 0 /\ f.off_dt_struct + S <= n
        /\ f.off_dt_strings + f.size_dt_strings <= n /\ T \in Nat
    <2>1. T \in Nat
      BY <1>1 DEF BlobOf
    <2>2. WellFormed(f)
      BY FileFacts
    <2> QED
      BY <2>1, <2>2 DEF WellFormed, SizeOfStruct
  <1>3. RsvStart + W + S + T <= FDT_SIZE_MAX
    BY DEF SizeOrdered
  <1> HIDE DEF n, S, W
  <1>4. RsvStart + W <= FDT_SIZE_MAX
    <2> HIDE DEF T
    <2> QED
      BY <1>1, <1>2, <1>3
  <1>5. Packed(p, f, f.mem, W, S)
    <2> DEFINE i == FALSE
    <2>1. i \in BOOLEAN /\ ~i
      OBVIOUS
    <2> HIDE DEF i, q, T
    <2>2. Packed(packblocks(f, buf, i, 0, W, S), f, IF i THEN buf ELSE f.mem, W, S)
      BY <1>1, <1>2, <1>4, <2>1, PackIs DEF q
    <2>3. packblocks(f, buf, i, 0, W, S) = p
      BY DEF PackedInto, i, W, S
    <2> QED
      BY <2>1, <2>2, <2>3
  <1> HIDE DEF p
  <1>6. memmove(p.mem, 0, 0, SizeOrdered(f)) = p.mem
    <2>1. Maps(p.mem, 0 .. FDT_SIZE_MAX - 1, Byte)
      BY <1>5 DEF Packed, BlobOf, Maps
    <2> QED
      BY <2>1, MoveNone
  <1>7. b = [p EXCEPT !.mem = p.mem, !.totalsize = FDT_SIZE_MAX, !.version = 17,
                      !.last_comp_version = 16, !.boot_cpuid_phys = f.boot_cpuid_phys]
    BY <1>6 DEF Reordered, p
  <1> HIDE DEF b
  <1>8. /\ b \in BlobOf(FDT_SIZE_MAX) /\ b.mem = p.mem /\ b.version = 17
        /\ b.size_dt_struct = S /\ b.totalsize = FDT_SIZE_MAX /\ b.magic = f.magic
        /\ b.last_comp_version = 16 /\ b.off_mem_rsvmap = RsvStart
        /\ b.off_dt_struct = RsvStart + W /\ b.off_dt_strings = RsvStart + W + S
        /\ b.size_dt_strings = T /\ b.boot_cpuid_phys = f.boot_cpuid_phys
    <2>1. p \in BlobOf(FDT_SIZE_MAX) /\ f.boot_cpuid_phys \in Nat
      BY <1>1, <1>5 DEF Packed, BlobOf
    <2>2. b \in BlobOf(FDT_SIZE_MAX)
      BY <1>1, <1>7, <2>1 DEF BlobOf
    <2>3. /\ b.mem = p.mem /\ b.version = 17 /\ b.totalsize = FDT_SIZE_MAX
          /\ b.last_comp_version = 16 /\ b.boot_cpuid_phys = f.boot_cpuid_phys
          /\ b.size_dt_struct = p.size_dt_struct /\ b.magic = p.magic
          /\ b.off_mem_rsvmap = p.off_mem_rsvmap /\ b.off_dt_struct = p.off_dt_struct
          /\ b.off_dt_strings = p.off_dt_strings /\ b.size_dt_strings = p.size_dt_strings
      BY <1>7, <2>1 DEF BlobOf
    <2> QED
      BY <1>5, <2>2, <2>3 DEF Packed
  <1>9. fdt_check_header(b) = 0
    <2>1. fdt_check_header(f) = 0
      BY DEF Good
    <2> QED
      BY <1>2, <1>8, <2>1 DEF fdt_check_header, BADVERSION, BADSTATE, BADMAGIC
  <1>10. \A j \in 0 .. W - 1 : p.mem[RsvStart + j] = f.mem[q + j]
    BY <1>5 DEF Packed
  <1>11. SameFront(b, f)
    <2>1. b.off_mem_rsvmap + W <= b.off_dt_struct
      BY <1>1, <1>8
    <2> HIDE DEF q
    <2> QED
      BY <1>8, <1>10, <2>1 DEF SameFront, W, q
  <1>12. /\ RsvStart <= b.off_mem_rsvmap /\ b.off_dt_struct + b.size_dt_struct <= b.off_dt_strings
         /\ b.off_dt_strings + b.size_dt_strings <= b.totalsize /\ b.totalsize <= FDT_SIZE_MAX
         /\ b.size_dt_struct > 0
    <2> HIDE DEF T
    <2> QED
      BY <1>1, <1>2, <1>3, <1>8
  <1>13. Kept(b, f)
    BY <1>8, <1>9, <1>11, <1>12, KeptIs
  <1> QED
    BY <1>13 DEF b

LEMMA OpenKeeps ==
  ASSUME NEW f \in Files, NEW buf, Maps(buf, 0 .. FDT_SIZE_MAX - 1, Byte)
  PROVE  LET r == fdt_open_into(f, buf, FALSE) IN
         /\ r.ret \in Int
         /\ r.ret >= 0 => Good(f) /\ Kept(r.fdt, f)
  <1> DEFINE r == fdt_open_into(f, buf, FALSE)
  <1> SUFFICES r.ret \in Int /\ (r.ret >= 0 => Good(f) /\ Kept(r.fdt, f))
    OBVIOUS
  <1>1. CASE fdt_check_header(f) # 0
    <2>1. r = Done(f, fdt_check_header(f))
      BY <1>1 DEF fdt_open_into
    <2> HIDE DEF r
    <2>2. r.ret = fdt_check_header(f)
      <3> DEFINE h == fdt_check_header(f)
      <3>1. r = [ret |-> h, fdt |-> f]
        BY <2>1 DEF Done
      <3> HIDE DEF h
      <3>2. r.ret = h
        BY <3>1
      <3> QED
        BY <3>2 DEF h
    <2> QED
      BY <1>1, <2>2, HeaderIs
  <1>2. CASE fdt_check_header(f) = 0
    <2> DEFINE W == whole_mem_rsv_size(f)
               S == SizeOfStruct(f)
               n == SizeOrdered(f)
               R == RsvStart
    <2>1. /\ Good(f) /\ S \in Nat /\ f.totalsize \in Nat /\ f.totalsize <= FDT_SIZE_MAX
          /\ FDT_SIZE_MAX \in Nat /\ n \in Nat
      <3>1. Good(f)
        BY <1>2 DEF Good
      <3>2. S \in Nat
        BY <3>1, FileFacts DEF WellFormed, SizeOfStruct
      <3>3. f.size_dt_strings \in Nat
        BY <3>1, FileFacts DEF BlobOf
      <3>4. RsvStart \in Nat /\ W \in Nat
        BY <3>1, Sizes, FileCount
      <3> HIDE DEF S, W
      <3>5. n = RsvStart + W + S + f.size_dt_strings
        BY DEF SizeOrdered, W, S
      <3> QED
        BY <3>1, <3>2, <3>3, <3>4, <3>5, FileFacts, Sizes
    <2>2. Cardinality(DOMAIN buf) = FDT_SIZE_MAX
      <3>1. DOMAIN buf = 0 .. FDT_SIZE_MAX - 1
        BY DEF Maps
      <3>2. Cardinality(0 .. FDT_SIZE_MAX - 1) =
              IF 0 > FDT_SIZE_MAX - 1 THEN 0 ELSE (FDT_SIZE_MAX - 1) - 0 + 1
        BY <2>1, FS_Interval
      <3> QED
        BY <2>1, <3>1, <3>2
    <2>3. r = IF ~blocks_misordered(f, W, S)
              THEN IF f.totalsize > FDT_SIZE_MAX THEN Fail(f, NOSPACE)
                   ELSE Done(Opened(f, buf), 0)
              ELSE IF 0 + n > FDT_SIZE_MAX THEN Fail(f, NOSPACE)
                   ELSE Done(Reordered(f, buf), 0)
      <3>1. ~(S < 0)
        BY <2>1
      <3> QED
        BY <1>2, <2>2, <3>1
           DEF fdt_open_into, Opened, Reordered, PackedInto, SizeOrdered, SizeOfStruct, RsvStart
    <2> HIDE DEF r
    <2>4. CASE ~blocks_misordered(f, W, S)
      <3>1. r = Done(Opened(f, buf), 0)
        <4> HIDE DEF W, S
        <4> QED
          BY <2>1, <2>3, <2>4
      <3>2. Kept(Opened(f, buf), f)
        BY <2>1, <2>4, OpenedKeeps
      <3> QED
        BY <2>1, <3>1, <3>2 DEF Done
    <2>5. CASE blocks_misordered(f, W, S) /\ n > FDT_SIZE_MAX
      <3>1. r = Fail(f, NOSPACE)
        <4> HIDE DEF W, S, n
        <4> QED
          BY <2>1, <2>3, <2>5
      <3> QED
        BY <3>1 DEF Fail, NOSPACE
    <2>6. CASE blocks_misordered(f, W, S) /\ n <= FDT_SIZE_MAX
      <3>1. r = Done(Reordered(f, buf), 0)
        <4> HIDE DEF W, S, n
        <4> QED
          BY <2>1, <2>3, <2>6
      <3>2. Kept(Reordered(f, buf), f)
        BY <2>1, <2>6, ReorderedKeeps
      <3> QED
        BY <2>1, <3>1, <3>2 DEF Done
    <2> HIDE DEF n
    <2> QED
      BY <2>1, <2>4, <2>5, <2>6
  <1> QED
    BY <1>1, <1>2

LEMMA PackKeeps ==
  ASSUME NEW b, NEW f, Good(f), Kept(b, f)
  PROVE  Kept(fdt_pack(b).fdt, f)
  <1> DEFINE W == whole_mem_rsv_size(f)
             S == b.size_dt_struct
             T == b.size_dt_strings
             q == b.off_mem_rsvmap
             p == packblocks(b, b.mem, TRUE, 0, W, S)
             c == [p EXCEPT !.totalsize = data_size(p)]
  <1>1. fdt_pack(b).fdt = c
    <2>1. rw_check_header(b) = Done(b, 0) /\ whole_mem_rsv_size(b) = W
      BY HeaderOk, SameMap DEF Kept
    <2> QED
      BY <2>1 DEF fdt_pack, IfHeaderOk, AndThen, Done
  <1>2. Sound(b) /\ Fields(b) /\ Ordered(b) /\ b \in BlobOf(FDT_SIZE_MAX) /\ SameFront(b, f)
    BY SoundFields DEF Kept, Sound
  <1>3. /\ q \in Nat /\ S \in Nat /\ T \in Nat /\ W \in Nat /\ b.off_dt_struct \in Nat
        /\ b.off_dt_strings \in Nat /\ b.totalsize \in Nat /\ b.totalsize <= FDT_SIZE_MAX
        /\ FDT_SIZE_MAX \in Nat /\ RsvStart \in Nat
    BY <1>2, FileCount, Sizes DEF Fields, Ordered
  <1>4. /\ RsvStart <= q /\ q + W <= b.off_dt_struct
        /\ b.off_dt_struct + S <= b.off_dt_strings
        /\ b.off_dt_strings + T <= b.totalsize /\ S > 0
    BY <1>2 DEF Ordered, SameFront
  <1> HIDE DEF S, T, W, q
  <1>5. /\ q + W <= FDT_SIZE_MAX /\ b.off_dt_struct + S <= FDT_SIZE_MAX
        /\ b.off_dt_strings + T <= FDT_SIZE_MAX /\ RsvStart + W <= FDT_SIZE_MAX
        /\ RsvStart + W + S + T <= FDT_SIZE_MAX
    BY <1>3, <1>4
  <1>6. Packed(p, b, b.mem, W, S)
    <2> DEFINE i == TRUE
               N == FDT_SIZE_MAX
    <2>1. /\ i \in BOOLEAN /\ N \in Nat /\ i => N = FDT_SIZE_MAX
          /\ ~i => Maps(b.mem, 0 .. N - 1, Byte)
      BY <1>3
    <2>2. i
      OBVIOUS
    <2>3. /\ q + W <= N /\ b.off_dt_struct + S <= N /\ b.off_dt_strings + T <= N
          /\ Maps(b.mem, 0 .. FDT_SIZE_MAX - 1, Byte)
      BY <1>2, <1>5 DEF Fields
    <2> HIDE DEF i, N
    <2>4. Packed(packblocks(b, b.mem, i, 0, W, S), b, IF i THEN b.mem ELSE b.mem, W, S)
      BY <1>2, <1>3, <1>5, <2>1, <2>2, <2>3, PackIs DEF q, T
    <2>5. packblocks(b, b.mem, i, 0, W, S) = p
      BY DEF i
    <2> QED
      BY <2>2, <2>4, <2>5
  <1> HIDE DEF p
  <1>7. data_size(p) = RsvStart + W + S + T /\ data_size(p) \in Nat
    BY <1>3, <1>6 DEF Packed, data_size, T
  <1>8. /\ c \in BlobOf(FDT_SIZE_MAX) /\ c.totalsize = RsvStart + W + S + T
        /\ c.off_mem_rsvmap = RsvStart /\ c.off_dt_struct = RsvStart + W
        /\ c.size_dt_struct = S /\ c.off_dt_strings = RsvStart + W + S
        /\ c.size_dt_strings = T /\ c.magic = b.magic /\ c.version = b.version
        /\ c.last_comp_version = b.last_comp_version
        /\ c.boot_cpuid_phys = b.boot_cpuid_phys /\ c.mem = p.mem
    <2>1. p \in BlobOf(FDT_SIZE_MAX)
      BY <1>6 DEF Packed
    <2>2. c \in BlobOf(FDT_SIZE_MAX)
      BY <1>7, <2>1 DEF BlobOf
    <2>3. /\ c.totalsize = data_size(p)
          /\ c.off_mem_rsvmap = p.off_mem_rsvmap /\ c.off_dt_struct = p.off_dt_struct
          /\ c.size_dt_struct = p.size_dt_struct /\ c.off_dt_strings = p.off_dt_strings
          /\ c.size_dt_strings = p.size_dt_strings /\ c.magic = p.magic
          /\ c.version = p.version /\ c.last_comp_version = p.last_comp_version
          /\ c.boot_cpuid_phys = p.boot_cpuid_phys /\ c.mem = p.mem
      BY <2>1 DEF BlobOf
    <2> HIDE DEF c
    <2> QED
      BY <1>6, <1>7, <2>2, <2>3 DEF Packed, T
  <1> HIDE DEF c
  <1>9. fdt_check_header(c) = 0 /\ c.version = 17
    <2>1. /\ fdt_check_header(b) = 0 /\ b.version = 17 /\ c.version = 17
          /\ b.size_dt_struct # 0 /\ c.size_dt_struct # 0
          /\ c.magic = b.magic /\ c.last_comp_version = b.last_comp_version
      BY <1>2, <1>3, <1>4, <1>8 DEF Sound, S
    <2> QED
      BY <2>1 DEF fdt_check_header
  <1>10. SameFront(c, f)
    <2>1. \A j \in 0 .. W - 1 : p.mem[RsvStart + j] = b.mem[q + j]
      BY <1>6 DEF Packed, q
    <2>2. \A j \in 0 .. W - 1 : b.mem[q + j] = f.mem[f.off_mem_rsvmap + j]
      BY <1>2 DEF SameFront, q, W
    <2>3. b.boot_cpuid_phys = f.boot_cpuid_phys
      BY <1>2 DEF SameFront
    <2>4. RsvStart + W <= RsvStart + W
      BY <1>3
    <2> QED
      BY <1>8, <2>1, <2>2, <2>3, <2>4 DEF SameFront, W
  <1>11. /\ c.size_dt_struct > 0 /\ RsvStart <= c.off_mem_rsvmap
         /\ c.off_dt_struct + c.size_dt_struct <= c.off_dt_strings
         /\ c.off_dt_strings + c.size_dt_strings <= c.totalsize
         /\ c.totalsize <= FDT_SIZE_MAX
    BY <1>3, <1>4, <1>5, <1>8
  <1>12. Kept(c, f)
    BY <1>8, <1>9, <1>10, <1>11, KeptIs
  <1> QED
    BY <1>1, <1>12


-----------------------------------------------------------------------------
(* A number is the value of its bytes.                                     *)
LEMMA DivUp ==
  ASSUME NEW x \in Nat, NEW p \in Nat, p > 0
  PROVE  /\ x \div p = Base * (x \div (Base * p)) + ((x \div p) % Base)
         /\ x \div p \in Nat /\ x \div (Base * p) \in Nat
  <1> DEFINE q == x \div p
             m == Base * p
             s == q \div Base
             u == q % Base
             z == p * s
  <1>1. q \in Nat /\ p * q <= x /\ x < p * (q + 1)
    OBVIOUS
  <1>2. s \in Nat /\ u \in 0 .. 255 /\ q = 256 * s + u
    <2> HIDE DEF q
    <2> QED
      BY <1>1 DEF Base
  <1>3. z \in Nat /\ p * (s + 1) = z + p
    BY <1>2
  <1>4. p * q = 256 * z + p * u /\ p * (q + 1) = p * q + p
    <2> HIDE DEF q, s, u
    <2> QED
      BY <1>1, <1>2
  <1>5. p * u \in Nat /\ p * u + p <= 256 * p
    <2>1. 255 - u \in Nat
      BY <1>2
    <2>2. p * (255 - u) \in Nat /\ p * (255 - u) = 255 * p - p * u
      <3> HIDE DEF u
      <3> QED
        BY <1>2, <2>1
    <2> HIDE DEF u
    <2> QED
      BY <1>2, <2>2
  <1>6. m \in Nat /\ m > 0 /\ m = 256 * p
    BY DEF Base
  <1>7. 256 * z <= x /\ x < 256 * z + 256 * p
    <2> HIDE DEF q, s, u, z
    <2> QED
      BY <1>1, <1>2, <1>3, <1>4, <1>5
  <1>8. m * s = 256 * z /\ m * (s + 1) = 256 * z + m
    <2> HIDE DEF q, s
    <2> QED
      BY <1>2, <1>6
  <1>9. x \div m = s
    <2> DEFINE d == x \div m
    <2>1. d \in Nat /\ m * d <= x /\ x < m * (d + 1)
      <3> HIDE DEF m
      <3> QED
        BY <1>6
    <2>2. m * s <= x /\ x < m * (s + 1)
      <3> HIDE DEF m, z, s
      <3> QED
        BY <1>3, <1>6, <1>7, <1>8
    <2> HIDE DEF m, s, d
    <2>3. ASSUME d < s PROVE FALSE
      <3>1. s - (d + 1) \in Nat
        BY <1>2, <2>1, <2>3
      <3>2. m * s = m * (d + 1) + m * (s - (d + 1)) /\ m * (s - (d + 1)) \in Nat
        BY <1>2, <1>6, <2>1, <3>1
      <3>3. m * s \in Nat /\ m * (d + 1) \in Nat
        BY <1>2, <1>6, <2>1
      <3> QED
        BY <2>1, <2>2, <3>2, <3>3
    <2>4. ASSUME s < d PROVE FALSE
      <3>1. d - (s + 1) \in Nat
        BY <1>2, <2>1, <2>4
      <3>2. m * d = m * (s + 1) + m * (d - (s + 1)) /\ m * (d - (s + 1)) \in Nat
        BY <1>2, <1>6, <2>1, <3>1
      <3>3. m * d \in Nat /\ m * (s + 1) \in Nat
        BY <1>2, <1>6, <2>1
      <3> QED
        BY <2>1, <2>2, <3>2, <3>3
    <2>5. d = s
      BY <1>2, <2>1, <2>3, <2>4
    <2> QED
      BY <2>5 DEF d
  <1>10. q = 256 * (x \div m) + u /\ x \div m \in Nat
    <2> HIDE DEF q, m, s, u
    <2> QED
      BY <1>2, <1>9
  <1> QED
    BY <1>1, <1>10 DEF Base

LEMMA NumberOf ==
  ASSUME NEW n \in Nat, NEW x \in Nat, x < Power[n]
  PROVE  Number(cpu_to_fdt(x, n)) = x
  <1> DEFINE s == cpu_to_fdt(x, n)
             u == CHOOSE w : Counts(s, w)
             Q(i) == x \div Power[n - i]
             T == {m \in Nat : m <= n => u[m] = Q(m)}
  <1>1. s \in Seq(Byte) /\ Len(s) = n /\ \A i \in 1 .. n : s[i] = Q(i) % Base
    <2>1. s \in Seq(Byte)
      BY CpuType
    <2>2. s = [i \in 1 .. n |-> Q(i) % Base]
      BY DEF cpu_to_fdt
    <2> HIDE DEF s, Q
    <2> QED
      BY <2>1, <2>2
  <1> HIDE DEF s
  <1>2. Number(s) = u[n]
    BY <1>1 DEF Number, Counts
  <1>3. Counts(s, u)
    BY <1>1, CountsExists
  <1> HIDE DEF u
  <1>4. \A i \in 0 .. n : u[i] = IF i = 0 THEN 0 ELSE u[i - 1] * Base + s[i]
    BY <1>1, <1>3 DEF Counts
  <1>5. 0 \in T
    <2>1. u[0] = 0
      BY <1>4
    <2> DEFINE p == Power[n]
    <2>2. p \in Nat /\ p > 0 /\ x < p
      BY PowerIs
    <2>3. Q(0) = x \div p
      OBVIOUS
    <2> HIDE DEF p, Q
    <2>4. x \div p = 0
      BY <2>2
    <2> QED
      BY <2>1, <2>3, <2>4
  <1>6. ASSUME NEW m \in Nat, m \in T PROVE m + 1 \in T
    <2> SUFFICES ASSUME m + 1 <= n PROVE u[m + 1] = Q(m + 1)
      OBVIOUS
    <2> DEFINE k == m + 1
               j == n - k
               p == Power[j]
    <2>1. /\ k \in 0 .. n /\ k # 0 /\ k - 1 = m /\ k \in 1 .. n /\ m <= n
          /\ j \in Nat /\ n - m = j + 1
      OBVIOUS
    <2>2. Q(k) = x \div p /\ Q(m) = x \div Power[j + 1]
      BY <2>1
    <2> HIDE DEF k
    <2>3. u[k] = u[m] * Base + s[k] /\ s[k] = Q(k) % Base
      BY <1>1, <1>4, <2>1
    <2>4. u[m] = Q(m)
      BY <1>6, <2>1
    <2>5. p \in Nat /\ p > 0 /\ Power[j + 1] = Base * p
      BY <2>1, PowerIs
    <2> HIDE DEF p, Q, j
    <2>6. /\ x \div p = Base * (x \div (Base * p)) + ((x \div p) % Base)
          /\ x \div p \in Nat /\ x \div (Base * p) \in Nat
      BY <2>5, DivUp
    <2> DEFINE d == x \div p
               e == x \div (Base * p)
    <2>7. u[k] = e * Base + (d % Base) /\ Q(k) = d
      BY <2>2, <2>3, <2>4, <2>5
    <2>8. d = Base * e + (d % Base) /\ d \in Nat /\ e \in Nat
      BY <2>6
    <2> HIDE DEF d, e
    <2>9. u[k] = Q(k)
      BY <2>7, <2>8 DEF Base
    <2> QED
      BY <2>9 DEF k
  <1>7. Nat \subseteq T
    <2> HIDE DEF T
    <2> QED
      BY <1>5, <1>6, Induct
  <1>8. u[n] = Q(n)
    BY <1>7
  <1>9. Q(n) = x
    <2>1. n - n = 0
      OBVIOUS
    <2>2. Q(n) = x \div 1
      BY <2>1, PowerIs
    <2> HIDE DEF Q
    <2> QED
      BY <2>2
  <1> HIDE DEF Q
  <1> QED
    BY <1>2, <1>8, <1>9 DEF s

-----------------------------------------------------------------------------
LEMMA WordBaseIs ==
  /\ WordBase \in Nat /\ WordBase > 9 /\ FDT_SIZE_MAX < WordBase
  /\ \A x \in 0 .. FDT_SIZE_MAX : Signed(x) = x
  <1>1. PICK k \in Nat : FDT_TAGSIZE = k + 1
    BY Sizes
  <1>2. Power[k] \in Nat /\ Power[k] > 0 /\ Power[k + 1] = 256 * Power[k]
    BY PowerIs DEF Base
  <1> DEFINE w == WordBase
  <1>3. w \in Nat /\ w > 9
    BY <1>1, <1>2 DEF WordBase
  <1>4. FDT_SIZE_MAX < w \div 2 /\ FDT_SIZE_MAX \in Nat
    BY UpdateAssumption
  <1>5. w \div 2 <= w
    <2> HIDE DEF w
    <2> QED
      BY <1>3
  <1>6. ASSUME NEW x \in 0 .. FDT_SIZE_MAX PROVE Signed(x) = x
    <2>1. x < w \div 2
      <3> HIDE DEF w
      <3> QED
        BY <1>3, <1>4
    <2> QED
      BY <2>1 DEF Signed
  <1> HIDE DEF w
  <1>7. FDT_SIZE_MAX < w
    BY <1>3, <1>4, <1>5
  <1> QED
    BY <1>3, <1>6, <1>7 DEF w

LEMMA Cpu32Is ==
  ASSUME NEW x \in Nat, x < WordBase
  PROVE  /\ cpu_to_fdt32(x) \in Seq(Byte) /\ Len(cpu_to_fdt32(x)) = FDT_TAGSIZE
         /\ Number(cpu_to_fdt32(x)) = x
  <1>1. FDT_TAGSIZE \in Nat
    BY Sizes
  <1>2. Len(cpu_to_fdt(x, FDT_TAGSIZE)) = FDT_TAGSIZE
    BY <1>1 DEF cpu_to_fdt
  <1>3. Number(cpu_to_fdt(x, FDT_TAGSIZE)) = x
    BY <1>1, NumberOf DEF WordBase
  <1> QED
    BY <1>2, <1>3, Cpu32Type DEF cpu_to_fdt32

(* Memory that holds a sequence of bytes. *)
Holds(m, p, s) == \A i \in 1 .. Len(s) : m[p + (i - 1)] = s[i]

LEMMA BytesHeld ==
  ASSUME NEW m, NEW p \in Int, NEW s \in Seq(Byte), Holds(m, p, s)
  PROVE  Bytes(m, p, Len(s)) = s
  <1> DEFINE B == Byte
             n == Len(s)
  <1>1. n \in Nat /\ s = [i \in 1 .. n |-> s[i]]
    <2>1. s \in Seq(B)
      OBVIOUS
    <2> HIDE DEF B
    <2> QED
      BY <2>1
  <1>2. \A i \in 1 .. n : m[(p + i) - 1] = s[i]
    <2> TAKE i \in 1 .. n
    <2>1. (p + i) - 1 = p + (i - 1)
      OBVIOUS
    <2>2. m[p + (i - 1)] = s[i]
      BY DEF Holds
    <2> QED
      BY <2>1, <2>2
  <1>3. Bytes(m, p, n) = [i \in 1 .. n |-> m[(p + i) - 1]]
    BY DEF Bytes
  <1> HIDE DEF n
  <1>4. [i \in 1 .. n |-> m[(p + i) - 1]] = [i \in 1 .. n |-> s[i]]
    BY <1>2
  <1> QED
    BY <1>1, <1>3, <1>4 DEF n

LEMMA WordHeld ==
  ASSUME NEW b, b.off_dt_struct \in Nat, NEW off \in Int, NEW x \in Nat, x < WordBase,
         Holds(b.mem, b.off_dt_struct + off, cpu_to_fdt32(x))
  PROVE  WordAt(b, off) = x
  <1> DEFINE s == cpu_to_fdt32(x)
             p == b.off_dt_struct + off
  <1>1. s \in Seq(Byte) /\ Len(s) = FDT_TAGSIZE /\ Number(s) = x
    BY Cpu32Is
  <1>2. p \in Int /\ Holds(b.mem, p, s)
    OBVIOUS
  <1> HIDE DEF s, p
  <1>3. Bytes(b.mem, p, FDT_TAGSIZE) = s
    BY <1>1, <1>2, BytesHeld
  <1> QED
    BY <1>1, <1>3 DEF WordAt, fdt32_to_cpu, BigEndian, p

-----------------------------------------------------------------------------
(* A blob of N bytes, with size of them in its structure block. *)
Block(b, N, size) ==
  /\ N \in Nat /\ Maps(b.mem, 0 .. N - 1, Byte)
  /\ b.off_dt_struct \in Nat /\ size \in Nat /\ b.off_dt_struct + size <= N
  /\ b.off_dt_strings \in Nat /\ b.size_dt_strings \in Nat
  /\ b.off_dt_strings + b.size_dt_strings <= N
  /\ b.version >= 17 => size = b.size_dt_struct

LEMMA SoundBlock ==
  ASSUME NEW b, Sound(b)
  PROVE  Block(b, FDT_SIZE_MAX, b.size_dt_struct)
  <1>1. Fields(b) /\ Ordered(b)
    BY SoundFields
  <1>2. /\ b.off_mem_rsvmap \in Nat /\ b.off_dt_struct \in Nat /\ b.off_dt_strings \in Nat
        /\ b.size_dt_struct \in Nat /\ b.size_dt_strings \in Nat /\ b.totalsize \in Nat
        /\ Maps(b.mem, 0 .. FDT_SIZE_MAX - 1, Byte)
    BY <1>1 DEF Fields
  <1>3. /\ b.off_dt_struct + b.size_dt_struct <= b.off_dt_strings
        /\ b.off_dt_strings + b.size_dt_strings <= b.totalsize
        /\ b.totalsize <= FDT_SIZE_MAX
    BY <1>1 DEF Ordered
  <1>4. b.off_dt_struct + b.size_dt_struct <= FDT_SIZE_MAX
        /\ b.off_dt_strings + b.size_dt_strings <= FDT_SIZE_MAX
    BY <1>2, <1>3, Sizes
  <1> QED
    BY <1>2, <1>4, Sizes DEF Block

LEMMA BlockPtr ==
  ASSUME NEW b, NEW N, NEW size, Block(b, N, size), NEW off, NEW len, off + len <= size
  PROVE  fdt_offset_ptr(b, off, len)
  BY DEF Block, fdt_offset_ptr

LEMMA BlockWord ==
  ASSUME NEW b, NEW N, NEW size, Block(b, N, size), NEW off \in Nat, off + FDT_TAGSIZE <= size
  PROVE  WordAt(b, off) \in Nat
  <1> DEFINE p == b.off_dt_struct + off
             s == Bytes(b.mem, p, FDT_TAGSIZE)
  <1>1. p \in Nat /\ FDT_TAGSIZE \in Nat /\ p + FDT_TAGSIZE <= N /\ N \in Nat
        /\ Maps(b.mem, 0 .. N - 1, Byte)
    BY Sizes DEF Block
  <1> HIDE DEF p
  <1>2. s \in Seq(Byte)
    BY <1>1, BytesType
  <1>3. Number(s) \in Nat
    <2> HIDE DEF s
    <2> QED
      BY <1>2, NumberNat
  <1> QED
    BY <1>3 DEF WordAt, fdt32_to_cpu, BigEndian, p

LEMMA BlockCard ==
  ASSUME NEW b, NEW N, NEW size, Block(b, N, size)
  PROVE  Cardinality(DOMAIN b.mem) = N
  <1>1. N \in Nat /\ DOMAIN b.mem = 0 .. N - 1
    BY DEF Block, Maps
  <1>2. Cardinality(0 .. N - 1) = N
    <2>1. N - 1 \in Int
      BY <1>1
    <2>2. Cardinality(0 .. N - 1) = IF 0 > N - 1 THEN 0 ELSE (N - 1) - 0 + 1
      BY <2>1, FS_Interval
    <2> QED
      BY <1>1, <2>2
  <1> QED
    BY <1>1, <1>2

(* What belongs to a tag that is whole. *)
LEMMA WholeIn ==
  ASSUME NEW b, NEW N, NEW size, Block(b, N, size),
         NEW off \in Nat, NEW end \in off + 1 .. size, Whole(b, off, end)
  PROVE  /\ off + FDT_TAGSIZE <= end /\ end \in Nat
         /\ WordAt(b, off) \in Kinds
         /\ WordAt(b, off) = FDT_PROP =>
              /\ PropLen(b, off) \in Nat /\ (off + PropSize) + PropLen(b, off) = end
         /\ WordAt(b, off) = FDT_BEGIN_NODE =>
              /\ (off + FDT_TAGSIZE) + 1 <= end
              /\ ByteAt(b, end - 1) = NUL
              /\ \A q \in (off + FDT_TAGSIZE) .. end - 2 : ByteAt(b, q) # NUL
  <1>1. size \in Nat /\ end \in Nat /\ end <= size /\ off < end
    BY DEF Block
  <1>2. WordAt(b, off) \in Kinds
    BY DEF Whole, Kinds
  <1>3. CASE WordAt(b, off) = FDT_BEGIN_NODE
    BY <1>1, <1>2, <1>3, Sizes, Codes DEF Whole
  <1>4. CASE WordAt(b, off) = FDT_PROP
    <2> DEFINE l == PropLen(b, off)
               o == off + FDT_TAGSIZE
    <2>1. end = off + PropSize + l /\ off + PropSize <= end
      BY <1>4, Codes DEF Whole
    <2>2. l = WordAt(b, o)
      BY DEF PropLen
    <2>3. o \in Nat /\ o + FDT_TAGSIZE <= size
      BY <1>1, <2>1, Sizes
    <2> HIDE DEF o
    <2>4. l \in Nat
      BY <2>2, <2>3, BlockWord
    <2> HIDE DEF l
    <2>5. off + FDT_TAGSIZE <= end /\ (off + PropSize) + l = end
      BY <1>1, <2>1, <2>4, Sizes
    <2> QED
      BY <1>1, <1>2, <1>4, <2>4, <2>5, Codes DEF l
  <1>5. CASE WordAt(b, off) \notin {FDT_BEGIN_NODE, FDT_PROP}
    BY <1>1, <1>2, <1>5, Sizes, Codes DEF Whole
  <1> QED
    BY <1>3, <1>4, <1>5

-----------------------------------------------------------------------------
(* The name of a node that is whole ends where it says. *)
LEMMA NameEndOf ==
  ASSUME NEW b, NEW N, NEW size, Block(b, N, size),
         NEW off \in Nat, NEW end \in Nat, (off + FDT_TAGSIZE) + 1 <= end, end <= size,
         ByteAt(b, end - 1) = NUL,
         \A q \in (off + FDT_TAGSIZE) .. end - 2 : ByteAt(b, q) # NUL
  PROVE  NameEnd(b, off) = end - 1
  <1> DEFINE Stops(q) == ~fdt_offset_ptr(b, q, 1) \/ ByteAt(b, q) = NUL
             first == off + FDT_TAGSIZE
             n == Cardinality(DOMAIN b.mem)
             Q(q) == Stops(q) /\ \A p \in first .. q - 1 : ~Stops(p)
             e == end - 1
  <1>1. n \in Nat /\ first \in Nat /\ e \in Nat /\ first <= e /\ e <= n /\ e + 1 <= size
        /\ size \in Nat
    <2>1. n = N
      BY BlockCard
    <2>2. N \in Nat /\ size \in Nat /\ size <= N
      <3>1. /\ N \in Nat /\ size \in Nat /\ b.off_dt_struct \in Nat
            /\ b.off_dt_struct + size <= N
        BY DEF Block
      <3> QED
        BY <3>1
    <2> HIDE DEF n
    <2> QED
      BY <2>1, <2>2, Sizes
  <1>2. ASSUME NEW p \in first .. e - 1 PROVE ~Stops(p)
    <2>1. p \in (off + FDT_TAGSIZE) .. end - 2 /\ p + 1 <= size
      <3> HIDE DEF n
      <3> QED
        BY <1>1
    <2>2. fdt_offset_ptr(b, p, 1)
      BY <2>1, BlockPtr
    <2>3. ByteAt(b, p) # NUL
      BY <2>1
    <2> QED
      BY <2>2, <2>3
  <1>3. fdt_offset_ptr(b, e, 1) /\ Stops(e)
    BY <1>1, BlockPtr
  <1>4. NameEnd(b, off) =
          IF fdt_offset_ptr(b, CHOOSE q \in first .. n : Q(q), 1)
          THEN CHOOSE q \in first .. n : Q(q) ELSE -1
    BY DEF NameEnd
  <1>5. e \in first .. n /\ Q(e)
    <2> HIDE DEF n, first, e, Stops
    <2> QED
      BY <1>1, <1>2, <1>3
  <1>6. ASSUME NEW q \in first .. n, Q(q) PROVE q = e
    <2> HIDE DEF n, first, e, Stops
    <2>1. ASSUME q < e PROVE FALSE
      BY <1>1, <1>2, <1>6, <2>1
    <2>2. ASSUME e < q PROVE FALSE
      BY <1>1, <1>3, <1>6, <2>2
    <2> QED
      BY <1>1, <2>1, <2>2
  <1> HIDE DEF Q, n, first, e
  <1>7. (CHOOSE q \in first .. n : Q(q)) = e
    BY <1>5, <1>6
  <1> QED
    BY <1>3, <1>4, <1>7 DEF e

LEMMA WholeTag ==
  ASSUME NEW b, NEW N, NEW size, Block(b, N, size),
         NEW off \in Nat, NEW end \in off + 1 .. size, Whole(b, off, end)
  PROVE  fdt_next_tag(b, off) = [tag |-> WordAt(b, off), next |-> FDT_TAGALIGN(end)]
  <1> DEFINE w == WordAt(b, off)
  <1>1. /\ off + FDT_TAGSIZE <= end /\ end \in Nat /\ w \in Kinds /\ off < end
        /\ end <= size /\ size \in Nat
        /\ w = FDT_PROP =>
             PropLen(b, off) \in Nat /\ (off + PropSize) + PropLen(b, off) = end
        /\ w = FDT_BEGIN_NODE =>
             /\ (off + FDT_TAGSIZE) + 1 <= end /\ ByteAt(b, end - 1) = NUL
             /\ \A q \in (off + FDT_TAGSIZE) .. end - 2 : ByteAt(b, q) # NUL
    BY WholeIn DEF Block
  <1>2. TagEnd(b, off, w) = end
    <2>1. CASE w = FDT_BEGIN_NODE
      <3>1. NameEnd(b, off) = end - 1
        BY <1>1, <2>1, NameEndOf
      <3>2. TagEnd(b, off, w) = NameEnd(b, off) + 1
        BY <2>1, Codes DEF TagEnd
      <3> QED
        BY <1>1, <3>1, <3>2
    <2>2. CASE w = FDT_PROP
      <3>1. TagEnd(b, off, w) = off + PropSize + PropLen(b, off)
        BY <2>2, Codes DEF TagEnd, PropLen
      <3> QED
        BY <1>1, <2>2, <3>1
    <2>3. CASE w \notin {FDT_BEGIN_NODE, FDT_PROP}
      <3>1. TagEnd(b, off, w) = off + FDT_TAGSIZE
        BY <2>3, Codes DEF TagEnd
      <3>2. end = off + FDT_TAGSIZE
        BY <2>3, Codes DEF Whole
      <3> QED
        BY <3>1, <3>2
    <2> QED
      BY <2>1, <2>2, <2>3
  <1>3. fdt_offset_ptr(b, off, FDT_TAGSIZE)
    <2>1. off + FDT_TAGSIZE <= size
      BY <1>1, Sizes
    <2> QED
      BY <2>1, BlockPtr
  <1>4. fdt_offset_ptr(b, off, end - off)
    <2>1. off + (end - off) <= size
      BY <1>1
    <2> QED
      BY <2>1, BlockPtr
  <1>5. w = FDT_PROP => fdt_offset_ptr(b, off + FDT_TAGSIZE, FDT_TAGSIZE)
    <2> SUFFICES ASSUME w = FDT_PROP PROVE fdt_offset_ptr(b, off + FDT_TAGSIZE, FDT_TAGSIZE)
      OBVIOUS
    <2> DEFINE l == PropLen(b, off)
    <2>1. l \in Nat /\ (off + PropSize) + l = end
      BY <1>1
    <2> HIDE DEF l, w
    <2>2. (off + FDT_TAGSIZE) + FDT_TAGSIZE <= size
      BY <1>1, <2>1, Sizes
    <2> QED
      BY <2>2, BlockPtr
  <1>6. TagUpTo(b, off, w, end) = [tag |-> w, next |-> FDT_TAGALIGN(end)]
    <2>1. end > 0
      BY <1>1
    <2> QED
      BY <1>1, <1>4, <1>5, <2>1 DEF TagUpTo, Kinds
  <1> QED
    BY <1>2, <1>3, <1>6 DEF fdt_next_tag

-----------------------------------------------------------------------------
(* The same bytes at another place, of another blob. *)
SameBytes(b, o, c, p, n) ==
  \A j \in 0 .. n - 1 :
    c.mem[(c.off_dt_struct + p) + j] = b.mem[(b.off_dt_struct + o) + j]

LEMMA SameWord ==
  ASSUME NEW b, NEW c, b.off_dt_struct \in Nat, c.off_dt_struct \in Nat,
         NEW o \in Nat, NEW p \in Nat, NEW n \in Nat, SameBytes(b, o, c, p, n),
         NEW k \in Nat, k + FDT_TAGSIZE <= n
  PROVE  WordAt(c, p + k) = WordAt(b, o + k)
  <1> DEFINE x == c.off_dt_struct + (p + k)
             y == b.off_dt_struct + (o + k)
  <1>1. x \in Int /\ y \in Int /\ FDT_TAGSIZE \in Nat
    BY Sizes
  <1>2. ASSUME NEW i \in 0 .. FDT_TAGSIZE - 1 PROVE c.mem[x + i] = b.mem[y + i]
    <2> DEFINE j == k + i
    <2>1. j \in 0 .. n - 1
      BY <1>1
    <2>2. x + i = (c.off_dt_struct + p) + j /\ y + i = (b.off_dt_struct + o) + j
      BY <1>1
    <2> HIDE DEF x, y, j
    <2> QED
      BY <2>1, <2>2 DEF SameBytes
  <1> HIDE DEF x, y
  <1>3. BigEndian(c.mem, x, FDT_TAGSIZE) = BigEndian(b.mem, y, FDT_TAGSIZE)
    BY <1>1, <1>2, BytesSame
  <1> QED
    BY <1>3 DEF WordAt, fdt32_to_cpu, x, y

LEMMA SameByte ==
  ASSUME NEW b, NEW c, b.off_dt_struct \in Nat, c.off_dt_struct \in Nat,
         NEW o \in Nat, NEW p \in Nat, NEW n \in Nat, SameBytes(b, o, c, p, n),
         NEW k \in Nat, k < n
  PROVE  ByteAt(c, p + k) = ByteAt(b, o + k)
  <1>1. /\ c.off_dt_struct + (p + k) = (c.off_dt_struct + p) + k
        /\ b.off_dt_struct + (o + k) = (b.off_dt_struct + o) + k
        /\ k \in 0 .. n - 1
    OBVIOUS
  <1> QED
    BY <1>1 DEF ByteAt, SameBytes

-----------------------------------------------------------------------------
(* A string and its NUL. *)
LEMMA StringIs ==
  ASSUME NEW N \in Nat, NEW m, Maps(m, 0 .. N - 1, Byte), NEW p \in Nat, NEW e \in Nat,
         p <= e, e < N, m[e] = NUL, \A q \in p .. e - 1 : m[q] # NUL
  PROVE  StringAt(m, p) = Bytes(m, p, e - p)
  <1> DEFINE S == {q \in DOMAIN m : q >= p /\ m[q] = NUL}
  <1>1. DOMAIN m = 0 .. N - 1
    BY DEF Maps
  <1>2. e \in S /\ S \subseteq Nat
    BY <1>1
  <1>3. \A q \in S : e <= q
    <2> SUFFICES ASSUME NEW q \in S, q < e PROVE FALSE
      BY <1>2
    <2>1. q \in p .. e - 1 /\ m[q] = NUL
      BY <1>1
    <2> QED
      BY <2>1
  <1> DEFINE l == Least(S)
  <1>4. l \in S /\ \A y \in S : l <= y
    <2> HIDE DEF S
    <2> QED
      BY <1>2, LeastOf
  <1>5. l = e
    <2>1. l \in Nat /\ l <= e /\ e <= l
      <3> HIDE DEF S, l
      <3> QED
        BY <1>2, <1>3, <1>4
    <2> HIDE DEF l
    <2> QED
      BY <2>1
  <1>6. StringEnd(m, p) = l
    BY DEF StringEnd
  <1> QED
    BY <1>5, <1>6 DEF StringAt

NameOf(b, off, end) ==
  Bytes(b.mem, b.off_dt_struct + (off + FDT_TAGSIZE), (end - 1) - (off + FDT_TAGSIZE))

LEMMA NameIs ==
  ASSUME NEW b, NEW N, NEW size, Block(b, N, size),
         NEW off \in Nat, NEW end \in off + 1 .. size, Whole(b, off, end),
         WordAt(b, off) = FDT_BEGIN_NODE
  PROVE  fdt_get_name(b, off) = NameOf(b, off, end)
  <1> DEFINE s == b.off_dt_struct
             p == s + (off + FDT_TAGSIZE)
             e == s + (end - 1)
             m == b.mem
  <1>1. /\ (off + FDT_TAGSIZE) + 1 <= end /\ end \in Nat /\ ByteAt(b, end - 1) = NUL
        /\ \A q \in (off + FDT_TAGSIZE) .. end - 2 : ByteAt(b, q) # NUL
    BY WholeIn
  <1>2. /\ s \in Nat /\ N \in Nat /\ size \in Nat /\ s + size <= N /\ end <= size
        /\ Maps(m, 0 .. N - 1, Byte) /\ FDT_TAGSIZE \in Nat
    BY Sizes DEF Block
  <1>3. p \in Nat /\ e \in Nat /\ p <= e /\ e < N
    <2> HIDE DEF s
    <2> QED
      BY <1>1, <1>2
  <1>4. m[e] = NUL
    BY <1>1 DEF ByteAt
  <1>5. ASSUME NEW q \in p .. e - 1 PROVE m[q] # NUL
    <2> DEFINE o == q - s
    <2>1. o \in (off + FDT_TAGSIZE) .. end - 2 /\ s + o = q
      <3> HIDE DEF s
      <3> QED
        BY <1>1, <1>2, <1>3
    <2>2. ByteAt(b, o) # NUL
      <3> HIDE DEF o
      <3> QED
        BY <1>1, <2>1
    <2>3. ByteAt(b, o) = m[s + o]
      BY DEF ByteAt
    <2> HIDE DEF o, m, s
    <2> QED
      BY <2>1, <2>2, <2>3
  <1>6. e - p = (end - 1) - (off + FDT_TAGSIZE)
    <2> HIDE DEF s
    <2> QED
      BY <1>1, <1>2
  <1>7. b.off_dt_struct + off + FDT_TAGSIZE = p
    BY <1>2
  <1>8. fdt_get_name(b, off) = StringAt(m, p)
    BY <1>7 DEF fdt_get_name
  <1> HIDE DEF e, p, m, s
  <1>9. StringAt(m, p) = Bytes(m, p, e - p)
    BY <1>2, <1>3, <1>4, <1>5, StringIs
  <1> QED
    BY <1>6, <1>8, <1>9 DEF NameOf, p, m, s

LEMMA SameBytesBytes ==
  ASSUME NEW b, NEW c, b.off_dt_struct \in Nat, c.off_dt_struct \in Nat,
         NEW o \in Nat, NEW p \in Nat, NEW n \in Nat, SameBytes(b, o, c, p, n),
         NEW k \in Nat, NEW l \in Nat, k + l <= n
  PROVE  Bytes(c.mem, c.off_dt_struct + (p + k), l) = Bytes(b.mem, b.off_dt_struct + (o + k), l)
  <1> DEFINE x == c.off_dt_struct + (p + k)
             y == b.off_dt_struct + (o + k)
  <1>1. ASSUME NEW i \in 1 .. l PROVE c.mem[x + (i - 1)] = b.mem[y + (i - 1)]
    <2> DEFINE j == k + (i - 1)
    <2>1. /\ j \in 0 .. n - 1 /\ x + (i - 1) = (c.off_dt_struct + p) + j
          /\ y + (i - 1) = (b.off_dt_struct + o) + j
      OBVIOUS
    <2> HIDE DEF x, y, j
    <2> QED
      BY <2>1 DEF SameBytes
  <1> HIDE DEF x, y
  <1>2. Bytes(c.mem, x, l) = [i \in 1 .. l |-> c.mem[x + (i - 1)]]
    BY Zenon DEF Bytes
  <1>3. Bytes(b.mem, y, l) = [i \in 1 .. l |-> b.mem[y + (i - 1)]]
    BY Zenon DEF Bytes
  <1>4. Bytes(c.mem, x, l) = Bytes(b.mem, y, l)
    BY <1>1, <1>2, <1>3
  <1> QED
    BY <1>4 DEF x, y

(* What the words of a tag are, beside its own: of the same bytes the same. *)
SameTag(b, o, c, p) ==
  /\ WordAt(c, p) = WordAt(b, o)
  /\ WordAt(b, o) = FDT_PROP =>
       PropLen(c, p) = PropLen(b, o) /\ PropNameOff(c, p) = PropNameOff(b, o)

LEMMA SameTagIs ==
  ASSUME NEW b, NEW c, b.off_dt_struct \in Nat, c.off_dt_struct \in Nat,
         NEW o \in Nat, NEW p \in Nat, NEW n \in Nat, SameBytes(b, o, c, p, n),
         FDT_TAGSIZE <= n, WordAt(b, o) = FDT_PROP => PropSize <= n
  PROVE  SameTag(b, o, c, p)
  <1>1. WordAt(c, p) = WordAt(b, o)
    <2> DEFINE z == 0
    <2>1. z \in Nat /\ z + FDT_TAGSIZE <= n /\ p + z = p /\ o + z = o
      BY Sizes
    <2> HIDE DEF z
    <2>2. WordAt(c, p + z) = WordAt(b, o + z)
      BY <2>1, SameWord
    <2> QED
      BY <2>1, <2>2
  <1>3. ASSUME WordAt(b, o) = FDT_PROP
        PROVE  PropLen(c, p) = PropLen(b, o) /\ PropNameOff(c, p) = PropNameOff(b, o)
    <2> DEFINE k == FDT_TAGSIZE
               l == 2 * FDT_TAGSIZE
    <2>1. k \in Nat /\ l \in Nat /\ k + FDT_TAGSIZE <= n /\ l + FDT_TAGSIZE <= n
      BY <1>3, Sizes
    <2> HIDE DEF k, l
    <2>2. WordAt(c, p + k) = WordAt(b, o + k) /\ WordAt(c, p + l) = WordAt(b, o + l)
      BY <2>1, SameWord
    <2> QED
      BY <2>2 DEF PropLen, PropNameOff, k, l
  <1> QED
    BY <1>1, <1>3 DEF SameTag

LEMMA SameWhole ==
  ASSUME NEW b, NEW N, NEW size, Block(b, N, size), NEW c, c.off_dt_struct \in Nat,
         NEW o \in Nat, NEW end \in o + 1 .. size, Whole(b, o, end),
         NEW p \in Nat, SameBytes(b, o, c, p, end - o)
  PROVE  SameTag(b, o, c, p) /\ Whole(c, p, p + (end - o))
  <1> DEFINE n == end - o
             w == WordAt(b, o)
             q == p + n
  <1>1. /\ o + FDT_TAGSIZE <= end /\ end \in Nat /\ w \in Kinds
        /\ w = FDT_PROP => PropLen(b, o) \in Nat /\ (o + PropSize) + PropLen(b, o) = end
        /\ w = FDT_BEGIN_NODE =>
             /\ (o + FDT_TAGSIZE) + 1 <= end /\ ByteAt(b, end - 1) = NUL
             /\ \A x \in (o + FDT_TAGSIZE) .. end - 2 : ByteAt(b, x) # NUL
    BY WholeIn
  <1>2. b.off_dt_struct \in Nat
    BY DEF Block
  <1>3. n \in Nat /\ FDT_TAGSIZE <= n /\ (w = FDT_PROP => PropSize <= n)
    <2> DEFINE l == PropLen(b, o)
    <2>1. w = FDT_PROP => l \in Nat /\ (o + PropSize) + l = end
      BY <1>1
    <2> HIDE DEF l, w
    <2> QED
      BY <1>1, <2>1, Sizes
  <1>4. SameTag(b, o, c, p)
    <2> HIDE DEF n
    <2>1. SameBytes(b, o, c, p, n)
      BY DEF n
    <2> QED
      BY <1>2, <1>3, <2>1, SameTagIs
  <1>5. WordAt(c, p) = w
    BY <1>4 DEF SameTag
  <1>6. CASE w = FDT_BEGIN_NODE
    <2>0. SameBytes(b, o, c, p, n)
      OBVIOUS
    <2>1. ASSUME NEW k \in Nat, k < n PROVE ByteAt(c, p + k) = ByteAt(b, o + k)
      <3> HIDE DEF n
      <3> QED
        BY <1>2, <1>3, <2>0, <2>1, SameByte
    <2>2. ByteAt(c, q - 1) = NUL
      <3> DEFINE k == n - 1
      <3>1. k \in Nat /\ k < n /\ p + k = q - 1 /\ o + k = end - 1
        BY <1>1, <1>6, Sizes
      <3> HIDE DEF k, q, n
      <3> QED
        BY <1>1, <1>6, <2>1, <3>1
    <2>3. ASSUME NEW x \in (p + FDT_TAGSIZE) .. q - 2 PROVE ByteAt(c, x) # NUL
      <3> DEFINE k == x - p
      <3>1. k \in Nat /\ k < n /\ p + k = x /\ o + k \in (o + FDT_TAGSIZE) .. end - 2
        BY <1>1, Sizes
      <3>2. ByteAt(c, p + k) = ByteAt(b, o + k)
        <4> HIDE DEF k, n
        <4> QED
          BY <2>1, <3>1
      <3>3. ByteAt(b, o + k) # NUL
        <4> HIDE DEF k, n
        <4> QED
          BY <1>1, <1>6, <3>1
      <3> HIDE DEF k
      <3> QED
        BY <3>1, <3>2, <3>3
    <2>4. p + FDT_TAGSIZE < q
      BY <1>1, <1>6, Sizes
    <2> HIDE DEF q, n, w
    <2> QED
      BY <1>4, <1>5, <1>6, <2>2, <2>3, <2>4, Codes DEF Whole, q, n
  <1>7. CASE w = FDT_PROP
    <2> DEFINE l == PropLen(b, o)
    <2>1. PropLen(c, p) = l
      BY <1>4, <1>7 DEF SameTag
    <2>2. l \in Nat /\ (o + PropSize) + l = end
      BY <1>1, <1>7
    <2> HIDE DEF l
    <2>3. q = p + PropSize + l /\ p + PropSize <= q
      BY <1>1, <2>2, Sizes
    <2> HIDE DEF q, w
    <2> QED
      BY <1>4, <1>5, <1>7, <2>1, <2>3, Codes DEF Whole, q
  <1>8. CASE w \notin {FDT_BEGIN_NODE, FDT_PROP}
    <2>1. end = o + FDT_TAGSIZE
      BY <1>8 DEF Whole
    <2>2. q = p + FDT_TAGSIZE
      BY <2>1, Sizes
    <2> HIDE DEF q
    <2>3. Whole(c, p, q)
      BY <1>1, <1>5, <1>8, <2>2, Codes DEF Whole, Kinds
    <2> QED
      BY <1>4, <2>3 DEF q
  <1> QED
    BY <1>6, <1>7, <1>8

-----------------------------------------------------------------------------
(* The names a structure block refers to. *)
LastNul(b) == b.size_dt_strings > 0 => b.mem[b.off_dt_strings + b.size_dt_strings - 1] = NUL
SameStrings(b, c) ==
  /\ c.size_dt_strings >= b.size_dt_strings
  /\ \A i \in 0 .. b.size_dt_strings - 1 :
       c.mem[c.off_dt_strings + i] = b.mem[b.off_dt_strings + i]
SameNames(b, c) == \A n \in 0 .. b.size_dt_strings - 1 : fdt_string(c, n) = fdt_string(b, n)

LEMMA StringOf ==
  ASSUME NEW b, NEW N, NEW size, Block(b, N, size), NEW n \in Nat, NEW e \in Nat,
         n <= e, e < b.size_dt_strings, b.mem[b.off_dt_strings + e] = NUL,
         \A q \in n .. e - 1 : b.mem[b.off_dt_strings + q] # NUL
  PROVE  fdt_string(b, n) = Bytes(b.mem, b.off_dt_strings + n, e - n)
  <1> DEFINE s == b.off_dt_strings
             p == s + n
             x == s + e
             m == b.mem
             z == b.size_dt_strings
  <1>1. s \in Nat /\ N \in Nat /\ z \in Nat /\ s + z <= N /\ Maps(m, 0 .. N - 1, Byte)
    BY DEF Block
  <1>2. p \in Nat /\ x \in Nat /\ p <= x /\ x < N /\ x - p = e - n
    <2> HIDE DEF s, z
    <2>1. e < z
      BY DEF z
    <2> QED
      BY <1>1, <2>1
  <1>3. m[x] = NUL
    OBVIOUS
  <1>4. ASSUME NEW q \in p .. x - 1 PROVE m[q] # NUL
    <2> DEFINE o == q - s
    <2>1. o \in n .. e - 1 /\ s + o = q
      <3> HIDE DEF s
      <3> QED
        BY <1>1, <1>2
    <2>2. m[s + o] # NUL
      <3> HIDE DEF o
      <3> QED
        BY <2>1
    <2> HIDE DEF o, m, s
    <2> QED
      BY <2>1, <2>2
  <1>5. fdt_string(b, n) = StringAt(m, p)
    BY DEF fdt_string
  <1> HIDE DEF x, p, m, s
  <1>6. StringAt(m, p) = Bytes(m, p, x - p)
    BY <1>1, <1>2, <1>3, <1>4, StringIs
  <1>7. Bytes(m, p, x - p) = Bytes(m, p, e - n)
    BY <1>2, Zenon
  <1>8. fdt_string(b, n) = Bytes(m, p, e - n)
    BY <1>5, <1>6, <1>7, Zenon
  <1> QED
    BY <1>8 DEF p, m, s

LEMMA SameStringsNames ==
  ASSUME NEW b, NEW N, NEW size, Block(b, N, size), LastNul(b),
         NEW c, NEW M, NEW csize, Block(c, M, csize), SameStrings(b, c)
  PROVE  SameNames(b, c)
  <1> DEFINE z == b.size_dt_strings
  <1>1. /\ z \in Nat /\ b.off_dt_strings \in Nat /\ c.off_dt_strings \in Nat
        /\ c.size_dt_strings \in Nat
    BY DEF Block
  <1> SUFFICES ASSUME NEW n \in 0 .. z - 1 PROVE fdt_string(c, n) = fdt_string(b, n)
    BY DEF SameNames
  <1> DEFINE S == {i \in n .. z - 1 : b.mem[b.off_dt_strings + i] = NUL}
  <1>2. z - 1 \in S
    <2>1. z > 0 /\ z - 1 \in n .. z - 1
      BY <1>1
    <2>2. b.off_dt_strings + (z - 1) = b.off_dt_strings + z - 1
      BY <1>1
    <2> QED
      BY <2>1, <2>2 DEF LastNul
  <1>3. PICK e \in S : \A i \in S : e <= i
    <2>1. S \subseteq Nat /\ S # {}
      BY <1>1, <1>2
    <2> HIDE DEF S
    <2> QED
      BY <2>1, Smallest
  <1>4. /\ e \in Nat /\ n \in Nat /\ n <= e /\ e < z /\ b.mem[b.off_dt_strings + e] = NUL
        /\ \A q \in n .. e - 1 : b.mem[b.off_dt_strings + q] # NUL
    <2>1. e \in Nat /\ n \in Nat /\ n <= e /\ e < z /\ b.mem[b.off_dt_strings + e] = NUL
      <3> HIDE DEF z
      <3> QED
        BY <1>1
    <2>2. ASSUME NEW q \in n .. e - 1, b.mem[b.off_dt_strings + q] = NUL PROVE FALSE
      <3>1. q \in S /\ ~(e <= q)
        <4> HIDE DEF z
        <4> QED
          BY <1>1, <2>1, <2>2
      <3> QED
        BY <1>3, <3>1
    <2> QED
      BY <2>1, <2>2
  <1> HIDE DEF S
  <1>5. fdt_string(b, n) = Bytes(b.mem, b.off_dt_strings + n, e - n)
    BY <1>4, StringOf
  <1>6. \A i \in 0 .. z - 1 : c.mem[c.off_dt_strings + i] = b.mem[b.off_dt_strings + i]
    BY DEF SameStrings
  <1>7. e < c.size_dt_strings
    <2> HIDE DEF z
    <2>1. c.size_dt_strings >= z
      BY DEF SameStrings, z
    <2> QED
      BY <1>1, <1>4, <2>1
  <1> HIDE DEF z
  <1>8. e \in 0 .. z - 1 /\ \A q \in n .. e - 1 : q \in 0 .. z - 1
    BY <1>1, <1>4
  <1>9. /\ c.mem[c.off_dt_strings + e] = NUL
        /\ \A q \in n .. e - 1 : c.mem[c.off_dt_strings + q] # NUL
    BY <1>4, <1>6, <1>8
  <1>10. fdt_string(c, n) = Bytes(c.mem, c.off_dt_strings + n, e - n)
    BY <1>4, <1>7, <1>9, StringOf
  <1>11. Bytes(c.mem, c.off_dt_strings + n, e - n) = Bytes(b.mem, b.off_dt_strings + n, e - n)
    <2> DEFINE x == c.off_dt_strings + n
               y == b.off_dt_strings + n
               l == e - n
    <2>1. ASSUME NEW i \in 1 .. l PROVE c.mem[x + (i - 1)] = b.mem[y + (i - 1)]
      <3> DEFINE j == n + (i - 1)
      <3>1. j \in 0 .. z - 1 /\ x + (i - 1) = c.off_dt_strings + j
            /\ y + (i - 1) = b.off_dt_strings + j
        BY <1>1, <1>4
      <3> HIDE DEF x, y, j
      <3> QED
        BY <1>6, <3>1
    <2> HIDE DEF x, y, l
    <2>2. Bytes(c.mem, x, l) = Bytes(b.mem, y, l)
      BY <2>1 DEF Bytes
    <2> QED
      BY <2>2 DEF x, y, l
  <1> QED
    BY <1>5, <1>10, <1>11

-----------------------------------------------------------------------------
(* What a whole tag says. *)
LEMMA ItemIs ==
  ASSUME NEW b, NEW N, NEW size, Block(b, N, size),
         NEW off \in Nat, NEW end \in off + 1 .. size, Whole(b, off, end)
  PROVE  Item(b, off) =
           [tag |-> WordAt(b, off),
            name |-> CASE WordAt(b, off) = FDT_BEGIN_NODE -> NameOf(b, off, end)
                       [] WordAt(b, off) = FDT_PROP -> fdt_string(b, PropNameOff(b, off))
                       [] OTHER -> << >>,
            val |-> IF WordAt(b, off) = FDT_PROP THEN PropValue(b, off) ELSE << >>]
  <1>1. fdt_next_tag(b, off).tag = WordAt(b, off)
    BY WholeTag
  <1>2. WordAt(b, off) = FDT_BEGIN_NODE => fdt_get_name(b, off) = NameOf(b, off, end)
    BY NameIs
  <1> QED
    BY <1>1, <1>2, Codes DEF Item, PropName

LEMMA SameItem ==
  ASSUME NEW b, NEW N, NEW size, Block(b, N, size),
         NEW o \in Nat, NEW end \in o + 1 .. size, Whole(b, o, end),
         NEW c, NEW M, NEW csize, Block(c, M, csize),
         NEW p \in Nat, p + (end - o) <= csize, SameBytes(b, o, c, p, end - o),
         SameNames(b, c),
         WordAt(b, o) = FDT_PROP => PropNameOff(b, o) \in 0 .. b.size_dt_strings - 1
  PROVE  /\ Whole(c, p, p + (end - o)) /\ SameTag(b, o, c, p)
         /\ p + (end - o) \in p + 1 .. csize
         /\ Item(c, p) = Item(b, o)
  <1> DEFINE n == end - o
             q == p + n
             w == WordAt(b, o)
  <1>1. b.off_dt_struct \in Nat /\ c.off_dt_struct \in Nat /\ size \in Nat /\ csize \in Nat
    BY DEF Block
  <1>2. n \in Nat /\ n >= 1 /\ q \in p + 1 .. csize
    BY <1>1
  <1>3. Whole(c, p, q) /\ SameTag(b, o, c, p)
    BY <1>1, SameWhole
  <1>4. WordAt(c, p) = w
    BY <1>3 DEF SameTag
  <1>5. w = FDT_BEGIN_NODE => NameOf(c, p, q) = NameOf(b, o, end)
    <2> SUFFICES ASSUME w = FDT_BEGIN_NODE PROVE NameOf(c, p, q) = NameOf(b, o, end)
      OBVIOUS
    <2>0. (o + FDT_TAGSIZE) + 1 <= end /\ end \in Nat
      BY WholeIn
    <2> DEFINE k == FDT_TAGSIZE
               l == (n - 1) - k
    <2>1. k \in Nat /\ l \in Nat /\ k + l <= n
      BY <2>0, Sizes
    <2>2. (q - 1) - (p + k) = l /\ (end - 1) - (o + k) = l
      BY <1>2, <2>0, <2>1
    <2>3. SameBytes(b, o, c, p, n)
      OBVIOUS
    <2> HIDE DEF k, l, n, q
    <2>4. Bytes(c.mem, c.off_dt_struct + (p + k), l) = Bytes(b.mem, b.off_dt_struct + (o + k), l)
      BY <1>1, <1>2, <2>1, <2>3, SameBytesBytes
    <2> QED
      BY <2>2, <2>4 DEF NameOf, k
  <1>6. w = FDT_PROP =>
          /\ PropNameOff(c, p) = PropNameOff(b, o)
          /\ fdt_string(c, PropNameOff(b, o)) = fdt_string(b, PropNameOff(b, o))
          /\ PropValue(c, p) = PropValue(b, o)
    <2> SUFFICES ASSUME w = FDT_PROP
                 PROVE  /\ PropNameOff(c, p) = PropNameOff(b, o)
                        /\ fdt_string(c, PropNameOff(b, o)) = fdt_string(b, PropNameOff(b, o))
                        /\ PropValue(c, p) = PropValue(b, o)
      OBVIOUS
    <2> DEFINE k == PropSize
               l == PropLen(b, o)
    <2>1. l \in Nat /\ (o + PropSize) + l = end
      BY WholeIn
    <2>2. PropLen(c, p) = l /\ PropNameOff(c, p) = PropNameOff(b, o)
      BY <1>3 DEF SameTag
    <2>3. fdt_string(c, PropNameOff(b, o)) = fdt_string(b, PropNameOff(b, o))
      BY DEF SameNames
    <2>4. SameBytes(b, o, c, p, n)
      OBVIOUS
    <2>5. k \in Nat /\ k + l <= n
      <3> HIDE DEF l
      <3> QED
        BY <2>1, Sizes
    <2>6. c.off_dt_struct + p + k = c.off_dt_struct + (p + k)
          /\ b.off_dt_struct + o + k = b.off_dt_struct + (o + k)
      <3> HIDE DEF k
      <3> QED
        BY <1>1, <2>5
    <2> HIDE DEF k, l, n
    <2>7. Bytes(c.mem, c.off_dt_struct + (p + k), l) = Bytes(b.mem, b.off_dt_struct + (o + k), l)
      BY <1>1, <1>2, <2>1, <2>4, <2>5, SameBytesBytes
    <2>8. PropValue(c, p) = Bytes(c.mem, c.off_dt_struct + p + k, PropLen(c, p))
          /\ PropValue(b, o) = Bytes(b.mem, b.off_dt_struct + o + k, PropLen(b, o))
      BY DEF PropValue, k
    <2>9. PropValue(c, p) = PropValue(b, o)
      BY <2>2, <2>6, <2>7, <2>8 DEF l
    <2> QED
      BY <2>2, <2>3, <2>9
  <1>7. Item(b, o) =
           [tag |-> w,
            name |-> CASE w = FDT_BEGIN_NODE -> NameOf(b, o, end)
                       [] w = FDT_PROP -> fdt_string(b, PropNameOff(b, o))
                       [] OTHER -> << >>,
            val |-> IF w = FDT_PROP THEN PropValue(b, o) ELSE << >>]
    BY ItemIs
  <1>8. Item(c, p) =
           [tag |-> WordAt(c, p),
            name |-> CASE WordAt(c, p) = FDT_BEGIN_NODE -> NameOf(c, p, q)
                       [] WordAt(c, p) = FDT_PROP -> fdt_string(c, PropNameOff(c, p))
                       [] OTHER -> << >>,
            val |-> IF WordAt(c, p) = FDT_PROP THEN PropValue(c, p) ELSE << >>]
    <2> HIDE DEF q
    <2> QED
      BY <1>2, <1>3, ItemIs
  <1> HIDE DEF w, q, n
  <1>9. Item(c, p) = Item(b, o)
    BY <1>4, <1>5, <1>6, <1>7, <1>8, Codes
  <1> QED
    BY <1>2, <1>3, <1>9 DEF q, n

-----------------------------------------------------------------------------
(* The tags of a block, one by one. *)
EndsAt(b, size, at, i, end) ==
  /\ end \in at[i] + 1 .. size /\ Whole(b, at[i], end)
  /\ i = Len(at) => WordAt(b, at[i]) = FDT_END
  /\ i < Len(at) => WordAt(b, at[i]) # FDT_END /\ at[i + 1] = FDT_TAGALIGN(end)

LEMMA ListedIs ==
  ASSUME NEW b, NEW size, NEW at
  PROVE  Listed(b, size, at) <=>
           /\ at \in Seq(Nat) /\ Len(at) >= 1 /\ at[1] = 0
           /\ \A i \in 1 .. Len(at) : \E end : EndsAt(b, size, at, i, end)
  <1>1. CASE at \in Seq(Nat)
    <2>1. DOMAIN at = 1 .. Len(at) /\ Len(at) \in Nat /\ (at # << >> <=> Len(at) >= 1)
      BY <1>1
    <2>2. ASSUME NEW i \in 1 .. Len(at), NEW end
          PROVE  EndsAt(b, size, at, i, end) <=>
                   /\ end \in at[i] + 1 .. size
                   /\ Whole(b, at[i], end)
                   /\ IF i = Len(at) THEN WordAt(b, at[i]) = FDT_END
                      ELSE WordAt(b, at[i]) # FDT_END /\ at[i + 1] = FDT_TAGALIGN(end)
      <3> DEFINE A == end \in at[i] + 1 .. size /\ Whole(b, at[i], end)
                 w == WordAt(b, at[i])
                 n == Len(at)
                 B == at[i + 1] = FDT_TAGALIGN(end)
      <3>1. EndsAt(b, size, at, i, end) <=>
              A /\ (i = n => w = FDT_END) /\ (i < n => w # FDT_END /\ B)
        BY DEF EndsAt
      <3>2. (i < n) <=> ~(i = n)
        <4>1. n \in Nat /\ i \in 1 .. n
          BY <2>1
        <4> HIDE DEF A, w, B, n
        <4> QED
          BY <4>1
      <3> SUFFICES EndsAt(b, size, at, i, end) <=>
                     A /\ (IF i = n THEN w = FDT_END ELSE w # FDT_END /\ B)
        OBVIOUS
      <3> HIDE DEF A, w, B, n
      <3> QED
        BY <3>1, <3>2
    <2> QED
      BY <1>1, <2>1, <2>2 DEF Listed
  <1>2. CASE at \notin Seq(Nat)
    BY <1>2 DEF Listed
  <1> QED
    BY <1>1, <1>2

TagFacts(b, size, at, i) ==
  LET t == fdt_next_tag(b, at[i]) IN
  /\ at[i] \in Nat /\ at[i] \in Aligned /\ at[i] < size
  /\ t.tag = WordAt(b, at[i]) /\ t.tag \in Kinds
  /\ i = Len(at) => t.tag = FDT_END /\ t.next \in Nat
  /\ i < Len(at) => t.tag # FDT_END /\ t.next = at[i + 1] /\ at[i] < at[i + 1]
Chain(b, size, at) ==
  /\ at \in Seq(Nat) /\ Len(at) >= 1 /\ at[1] = 0
  /\ \A i \in 1 .. Len(at) : TagFacts(b, size, at, i)

-----------------------------------------------------------------------------
(* The tags a walk comes by are those. *)
TagStop(b) == {x \in Offsets(b) : fdt_next_tag(b, x).tag = FDT_END}

LEMMA TagLists ==
  ASSUME NEW b, Sound(b)
  PROVE  \E f : /\ Lists(f, Offsets(b), TagStop(b), TagSucc(b))
                /\ TagOffsets(b) = f[0]
  <1> DEFINE S == Offsets(b)
             Stop == TagStop(b)
             succ == TagSucc(b)
             from == CHOOSE f : f = [off \in S |->
                       LET t == fdt_next_tag(b, off) IN
                       <<off>> \o (IF t.tag = FDT_END THEN << >> ELSE f[t.next])]
  <1>1. TagOffsets(b) = from[0]
    BY DEF TagOffsets
  <1>2. \A f : (f = [off \in S |->
                       LET t == fdt_next_tag(b, off) IN
                       <<off>> \o (IF t.tag = FDT_END THEN << >> ELSE f[t.next])])
               <=> Lists(f, S, Stop, succ)
    <2>1. ASSUME NEW f
          PROVE  [off \in S |->
                       LET t == fdt_next_tag(b, off) IN
                       <<off>> \o (IF t.tag = FDT_END THEN << >> ELSE f[t.next])]
                 = [x \in S |-> <<x>> \o (IF x \in Stop THEN << >> ELSE f[succ[x]])]
      <3>1. ASSUME NEW x \in S
            PROVE  (IF fdt_next_tag(b, x).tag = FDT_END THEN << >>
                    ELSE f[fdt_next_tag(b, x).next])
                   = (IF x \in Stop THEN << >> ELSE f[succ[x]])
        BY DEF TagStop, TagSucc
      <3> HIDE DEF S, Stop, succ
      <3> QED
        BY <3>1
    <2> HIDE DEF S, Stop, succ
    <2> QED
      BY <2>1, Zenon DEF Lists
  <1>3. Falls(S, Stop, succ, TagRank(b), FDT_SIZE_MAX)
    <2>1. \A x \in Offsets(b) : x \notin TagStop(b) => fdt_next_tag(b, x).tag # FDT_END
      BY DEF TagStop
    <2> QED
      BY <2>1, TagsFall
  <1>4. \E f : Lists(f, S, Stop, succ)
    BY <1>3, Sizes, ListRecursion
  <1> HIDE DEF S, Stop, succ
  <1>5. Lists(from, S, Stop, succ)
    BY <1>2, <1>4, Zenon
  <1> HIDE DEF from
  <1> QED
    BY <1>1, <1>5 DEF S, Stop, succ

LEMMA PrependIs ==
  ASSUME NEW S, NEW x \in S, NEW r \in Seq(S)
  PROVE  /\ <<x>> \o r \in Seq(S) /\ Len(<<x>> \o r) = Len(r) + 1
         /\ (<<x>> \o r)[1] = x
         /\ \A k \in 1 .. Len(r) : (<<x>> \o r)[k + 1] = r[k]
  OBVIOUS

LEMMA TagOffsetsAre ==
  ASSUME NEW b, Sound(b), NEW at, Chain(b, b.size_dt_struct, at)
  PROVE  TagOffsets(b) = at
  <1> DEFINE S == Offsets(b)
             n == Len(at)
             Rest(i) == [k \in 1 .. (n - i) + 1 |-> at[(i - 1) + k]]
  <1>1. PICK f : Lists(f, S, TagStop(b), TagSucc(b)) /\ TagOffsets(b) = f[0]
    BY TagLists
  <1>2. /\ at \in Seq(Nat) /\ n >= 1 /\ at[1] = 0 /\ n \in Nat
        /\ \A i \in 1 .. n : TagFacts(b, b.size_dt_struct, at, i)
    BY DEF Chain
  <1>3. ASSUME NEW x \in S
        PROVE  f[x] = <<x>> \o (IF x \in TagStop(b) THEN << >> ELSE f[TagSucc(b)[x]])
    <2> DEFINE g == [y \in S |-> <<y>> \o (IF y \in TagStop(b) THEN << >>
                                           ELSE f[TagSucc(b)[y]])]
    <2>1. f = g
      BY <1>1 DEF Lists
    <2>2. f[x] = g[x]
      BY <2>1, Zenon
    <2> QED
      BY <2>2
  <1>4. ASSUME NEW i \in 1 .. n
        PROVE  /\ at[i] \in S
               /\ i = n => f[at[i]] = <<at[i]>> \o << >>
               /\ i < n => f[at[i]] = <<at[i]>> \o f[at[i + 1]]
    <2>1. TagFacts(b, b.size_dt_struct, at, i)
      BY <1>2
    <2>2. at[i] \in S
      <3>1. at[i] \in Nat /\ at[i] < b.size_dt_struct /\ b.size_dt_struct \in Nat
        BY <2>1, SoundBlock DEF TagFacts, Block
      <3>2. at[i] <= b.size_dt_struct + FDT_TAGSIZE - 1
        BY <3>1, Sizes
      <3> QED
        BY <3>1, <3>2, InOffsets
    <2>3. f[at[i]] = <<at[i]>> \o (IF at[i] \in TagStop(b) THEN << >>
                                   ELSE f[TagSucc(b)[at[i]]])
      BY <1>3, <2>2
    <2>4. CASE i = n
      <3>1. at[i] \in TagStop(b)
        BY <2>1, <2>2, <2>4 DEF TagFacts, TagStop
      <3> QED
        BY <1>2, <2>2, <2>3, <2>4, <3>1
    <2>5. CASE i < n
      <3>1. at[i] \notin TagStop(b) /\ TagSucc(b)[at[i]] = at[i + 1]
        BY <2>1, <2>2, <2>5 DEF TagFacts, TagStop, TagSucc
      <3> QED
        BY <1>2, <2>2, <2>3, <2>5, <3>1
    <2> QED
      BY <2>4, <2>5, <1>2
  <1> DEFINE T == {j \in Nat : j < n => f[at[n - j]] = Rest(n - j)}
  <1>5. 0 \in T
    <2>1. n - 0 = n /\ n \in 1 .. n
      BY <1>2
    <2>2. f[at[n]] = <<at[n]>> \o << >>
      BY <1>4, <2>1
    <2>3. Rest(n) = <<at[n]>>
      <3>1. (n - n) + 1 = 1 /\ (n - 1) + 1 = n
        BY <1>2
      <3>2. Rest(n) = [k \in 1 .. 1 |-> at[(n - 1) + k]]
        BY <3>1
      <3> HIDE DEF Rest
      <3> QED
        BY <3>1, <3>2
    <2>4. <<at[n]>> \o << >> = <<at[n]>>
      OBVIOUS
    <2> HIDE DEF Rest
    <2> QED
      BY <2>1, <2>2, <2>3, <2>4
  <1>6. ASSUME NEW j \in Nat, j \in T PROVE j + 1 \in T
    <2>0. ASSUME j + 1 < n PROVE f[at[n - (j + 1)]] = Rest(n - (j + 1))
      <3> DEFINE i == n - (j + 1)
                 x == at[i]
                 r == Rest(i + 1)
      <3>1. i \in 1 .. n /\ i < n /\ i + 1 = n - j /\ j < n
        BY <1>2, <2>0
      <3>2. f[at[i + 1]] = r
        BY <1>6, <3>1
      <3> HIDE DEF i
      <3>3. f[x] = <<x>> \o r
        <4> HIDE DEF r
        <4> QED
          BY <1>4, <3>1, <3>2
      <3>4. r \in Seq(Nat) /\ Len(r) = n - i /\ \A k \in 1 .. n - i : r[k] = at[i + k]
        <4>1. (n - (i + 1)) + 1 = n - i /\ \A k \in 1 .. n - i : ((i + 1) - 1) + k = i + k
          BY <1>2, <3>1
        <4>2. r = [k \in 1 .. n - i |-> at[((i + 1) - 1) + k]]
          BY <4>1
        <4>3. \A k \in 1 .. n - i : at[((i + 1) - 1) + k] \in Nat
          BY <1>2, <3>1
        <4> HIDE DEF r
        <4> QED
          BY <1>2, <3>1, <4>1, <4>2, <4>3
      <3> HIDE DEF r
      <3> DEFINE w == <<x>> \o r
      <3>5. x \in Nat
        BY <1>2, <3>1
      <3>6. /\ w \in Seq(Nat) /\ Len(w) = Len(r) + 1 /\ w[1] = x
            /\ \A k \in 1 .. Len(r) : w[k + 1] = r[k]
        <4> HIDE DEF x
        <4> QED
          BY <3>4, <3>5, PrependIs
      <3> HIDE DEF w
      <3>7. ASSUME NEW k \in 1 .. (n - i) + 1 PROVE w[k] = at[(i - 1) + k]
        <4>1. CASE k = 1
          <5>1. (i - 1) + k = i
            BY <1>2, <3>1, <4>1
          <5> QED
            BY <3>6, <4>1, <5>1
        <4>2. CASE k # 1
          <5> DEFINE l == k - 1
          <5>1. l \in 1 .. n - i /\ (i - 1) + k = i + l /\ k = l + 1
            BY <1>2, <3>1, <4>2
          <5> HIDE DEF l
          <5>2. w[l + 1] = r[l]
            BY <3>4, <3>6, <5>1
          <5> QED
            BY <3>4, <5>1, <5>2
        <4> QED
          BY <4>1, <4>2
      <3>8. w = [k \in 1 .. (n - i) + 1 |-> w[k]]
        <4>1. DOMAIN w = 1 .. Len(w) /\ w = [k \in DOMAIN w |-> w[k]]
          BY <3>6
        <4> QED
          BY <3>4, <3>6, <4>1
      <3>9. w = Rest(i)
        BY <3>7, <3>8, Zenon
      <3> HIDE DEF Rest
      <3> QED
        BY <3>3, <3>9 DEF i, w
    <2>1. j + 1 \in Nat
      OBVIOUS
    <2> HIDE DEF Rest
    <2> QED
      BY <2>0, <2>1
  <1>7. Nat \subseteq T
    <2> HIDE DEF T
    <2> QED
      BY <1>5, <1>6, Induct
  <1>8. f[at[1]] = Rest(1)
    <2>1. n - 1 \in T /\ n - 1 < n /\ n - (n - 1) = 1
      <3> HIDE DEF T, Rest
      <3> QED
        BY <1>2, <1>7
    <2> HIDE DEF Rest
    <2> QED
      BY <2>1
  <1>9. Rest(1) = at
    <2>1. (n - 1) + 1 = n /\ \A k \in 1 .. n : (1 - 1) + k = k
      BY <1>2
    <2>2. Rest(1) = [k \in 1 .. n |-> at[(1 - 1) + k]]
      BY <2>1
    <2>3. at = [k \in 1 .. n |-> at[k]]
      BY <1>2
    <2> HIDE DEF Rest, n
    <2> QED
      BY <2>1, <2>2, <2>3
  <1> QED
    BY <1>1, <1>2, <1>8, <1>9

-----------------------------------------------------------------------------
(* What a whole tag says, and where it ends. *)
Says(b, size, o, end, it) ==
  /\ o \in Nat /\ end \in Nat /\ o < end /\ end <= size /\ Whole(b, o, end)
  /\ WordAt(b, o) = FDT_PROP => PropNameOff(b, o) \in 0 .. b.size_dt_strings - 1
  /\ Item(b, o) = it

Said(b, o, end, it) ==
  /\ it.tag = WordAt(b, o) /\ it.tag \in Kinds
  /\ fdt_next_tag(b, o) = [tag |-> it.tag, next |-> FDT_TAGALIGN(end)]
  /\ FDT_TAGALIGN(end) \in Nat /\ FDT_TAGALIGN(end) \in Aligned /\ end <= FDT_TAGALIGN(end)
  /\ o + FDT_TAGSIZE <= end
  /\ it.tag = FDT_PROP =>
       /\ PropLen(b, o) \in Nat /\ (o + PropSize) + PropLen(b, o) = end
       /\ it.name = PropName(b, o) /\ it.val = PropValue(b, o)
       /\ it = [tag |-> FDT_PROP, name |-> it.name, val |-> it.val]
  /\ it.tag = FDT_BEGIN_NODE =>
       /\ it = [tag |-> FDT_BEGIN_NODE, name |-> NameOf(b, o, end), val |-> << >>]
  /\ it.tag \notin {FDT_PROP, FDT_BEGIN_NODE} =>
       it = [tag |-> it.tag, name |-> << >>, val |-> << >>]

LEMMA SaysIs ==
  ASSUME NEW b, NEW N, NEW size, Block(b, N, size), NEW o, NEW end, NEW it,
         Says(b, size, o, end, it)
  PROVE  Said(b, o, end, it)
  <1> DEFINE w == WordAt(b, o)
  <1>1. o \in Nat /\ end \in o + 1 .. size /\ Whole(b, o, end) /\ end \in Nat
        /\ Item(b, o) = it
    BY DEF Says, Block
  <1>2. it = [tag |-> w,
            name |-> CASE w = FDT_BEGIN_NODE -> NameOf(b, o, end)
                       [] w = FDT_PROP -> fdt_string(b, PropNameOff(b, o))
                       [] OTHER -> << >>,
            val |-> IF w = FDT_PROP THEN PropValue(b, o) ELSE << >>]
    BY <1>1, ItemIs
  <1>3. fdt_next_tag(b, o) = [tag |-> w, next |-> FDT_TAGALIGN(end)]
    BY <1>1, WholeTag
  <1>4. /\ FDT_TAGALIGN(end) \in Nat /\ FDT_TAGALIGN(end) \in Aligned
        /\ end <= FDT_TAGALIGN(end)
    BY <1>1, TagAlign
  <1>5. /\ o + FDT_TAGSIZE <= end /\ w \in Kinds
        /\ w = FDT_PROP => PropLen(b, o) \in Nat /\ (o + PropSize) + PropLen(b, o) = end
    BY <1>1, WholeIn
  <1>6. it.tag = w
    BY <1>2
  <1> HIDE DEF w
  <1>7. w = FDT_PROP =>
          /\ it.name = PropName(b, o) /\ it.val = PropValue(b, o)
          /\ it = [tag |-> FDT_PROP, name |-> it.name, val |-> it.val]
    BY <1>2, Codes DEF PropName
  <1>8. w = FDT_BEGIN_NODE =>
          it = [tag |-> FDT_BEGIN_NODE, name |-> NameOf(b, o, end), val |-> << >>]
    BY <1>2, Codes
  <1>9. w \notin {FDT_PROP, FDT_BEGIN_NODE} => it = [tag |-> it.tag, name |-> << >>, val |-> << >>]
    BY <1>2, <1>6
  <1> QED
    BY <1>3, <1>4, <1>5, <1>6, <1>7, <1>8, <1>9 DEF Said, w

(* What a structure block tells, tag by tag: each ends before the next.    *)
Tells(b, size, n, at, ends, items) ==
  /\ n \in Nat /\ n >= 1 /\ at[1] = 0
  /\ Maps(at, 1 .. n, Nat) /\ Maps(ends, 1 .. n, Nat) /\ items = [i \in 1 .. n |-> items[i]]
  /\ \A i \in 1 .. n : Says(b, size, at[i], ends[i], items[i])
  /\ \A i \in 1 .. n - 1 : items[i].tag # FDT_END /\ at[i + 1] = FDT_TAGALIGN(ends[i])
  /\ items[n].tag = FDT_END
  /\ LastNul(b)

LEMMA ListedTells ==
  ASSUME NEW b, NEW N, NEW size, Block(b, N, size), NEW at, Listed(b, size, at),
         Named(b, at)
  PROVE  \E ends : Tells(b, size, Len(at), at, ends, [i \in 1 .. Len(at) |-> Item(b, at[i])])
  <1> DEFINE n == Len(at)
             e(i) == CHOOSE end : EndsAt(b, size, at, i, end)
             ends == [i \in 1 .. n |-> e(i)]
             items == [i \in 1 .. n |-> Item(b, at[i])]
  <1>1. /\ at \in Seq(Nat) /\ n >= 1 /\ at[1] = 0 /\ n \in Nat
        /\ \A i \in 1 .. n : \E end : EndsAt(b, size, at, i, end)
        /\ Maps(at, 1 .. n, Nat) /\ DOMAIN at = 1 .. n
    <2>1. at \in Seq(Nat) /\ n >= 1 /\ at[1] = 0
          /\ \A i \in 1 .. n : \E end : EndsAt(b, size, at, i, end)
      BY ListedIs
    <2> QED
      BY <2>1 DEF Maps
  <1>2. ASSUME NEW i \in 1 .. n PROVE EndsAt(b, size, at, i, ends[i])
    <2>1. EndsAt(b, size, at, i, e(i))
      <3>1. \E end : EndsAt(b, size, at, i, end)
        BY <1>1
      <3> QED
        BY <3>1, Zenon
    <2>2. ends[i] = e(i)
      OBVIOUS
    <2> HIDE DEF e, ends
    <2> QED
      BY <2>1, <2>2
  <1>3. ASSUME NEW i \in 1 .. n
        PROVE  /\ ends[i] \in Nat
               /\ Says(b, size, at[i], ends[i], items[i])
               /\ items[i].tag = WordAt(b, at[i])
    <2> DEFINE o == at[i]
               end == ends[i]
               it == items[i]
    <2>1. o \in Nat /\ size \in Nat /\ EndsAt(b, size, at, i, end)
      BY <1>1, <1>2 DEF Maps, Block
    <2>2. it = Item(b, o)
      OBVIOUS
    <2>3. WordAt(b, o) = FDT_PROP => PropNameOff(b, o) \in 0 .. b.size_dt_strings - 1
      BY <1>1 DEF Named
    <2>4. end \in o + 1 .. size /\ Whole(b, o, end)
      <3> HIDE DEF end
      <3> QED
        BY <2>1 DEF EndsAt
    <2> HIDE DEF o, end, it
    <2>5. end \in Nat /\ Says(b, size, o, end, it)
      BY <2>1, <2>2, <2>3, <2>4 DEF Says
    <2>6. it.tag = WordAt(b, o)
      BY <2>5, SaysIs DEF Said
    <2> QED
      BY <2>5, <2>6 DEF o, end, it
  <1>4. Maps(ends, 1 .. n, Nat)
    <2> HIDE DEF e
    <2> QED
      BY <1>3 DEF Maps
  <1>5. \A i \in 1 .. n - 1 : items[i].tag # FDT_END /\ at[i + 1] = FDT_TAGALIGN(ends[i])
    <2> TAKE i \in 1 .. n - 1
    <2>1. i \in 1 .. n /\ i < n
      BY <1>1
    <2>2. EndsAt(b, size, at, i, ends[i]) /\ items[i].tag = WordAt(b, at[i])
      BY <1>2, <1>3, <2>1
    <2> HIDE DEF ends, items
    <2> QED
      BY <2>1, <2>2 DEF EndsAt
  <1>6. items[n].tag = FDT_END
    <2>1. n \in 1 .. n
      BY <1>1
    <2>2. EndsAt(b, size, at, n, ends[n]) /\ items[n].tag = WordAt(b, at[n])
      BY <1>2, <1>3, <2>1
    <2> HIDE DEF ends, items
    <2> QED
      BY <2>2 DEF EndsAt
  <1>7. LastNul(b)
    BY DEF Named, LastNul
  <1>8. items = [i \in 1 .. n |-> items[i]]
    OBVIOUS
  <1>9. \A i \in 1 .. n : Says(b, size, at[i], ends[i], items[i])
    BY <1>3
  <1> HIDE DEF ends
  <1>10. Tells(b, size, n, at, ends, items)
    <2> HIDE DEF items, n
    <2> QED
      BY <1>1, <1>4, <1>5, <1>6, <1>7, <1>8, <1>9 DEF Tells
  <1> QED
    BY <1>10

(* One after the other, and each at a word. *)
LEMMA TellsOrder ==
  ASSUME NEW b, NEW N, NEW size, Block(b, N, size), NEW n, NEW at, NEW ends, NEW items,
         Tells(b, size, n, at, ends, items)
  PROVE  /\ \A i \in 1 .. n : /\ at[i] \in Nat /\ at[i] \in Aligned /\ ends[i] \in Nat
                              /\ at[i] < ends[i] /\ ends[i] <= size
                              /\ Said(b, at[i], ends[i], items[i])
         /\ \A i \in 1 .. n - 1 : at[i] < at[i + 1] /\ ends[i] <= at[i + 1]
         /\ \A j \in 1 .. n : \A i \in 1 .. j : at[i] <= at[j]
  <1>1. /\ n \in Nat /\ n >= 1 /\ at[1] = 0
        /\ \A i \in 1 .. n : Says(b, size, at[i], ends[i], items[i])
        /\ \A i \in 1 .. n - 1 : at[i + 1] = FDT_TAGALIGN(ends[i])
    BY DEF Tells
  <1>2. ASSUME NEW i \in 1 .. n
        PROVE  /\ at[i] \in Nat /\ ends[i] \in Nat /\ at[i] < ends[i] /\ ends[i] <= size
               /\ Said(b, at[i], ends[i], items[i])
    <2>1. Says(b, size, at[i], ends[i], items[i])
      BY <1>1
    <2> QED
      BY <2>1, SaysIs DEF Says
  <1>3. ASSUME NEW i \in 1 .. n - 1
        PROVE at[i] < at[i + 1] /\ ends[i] <= at[i + 1] /\ at[i + 1] \in Aligned
    <2>1. i \in 1 .. n
      BY <1>1
    <2>2. at[i + 1] = FDT_TAGALIGN(ends[i])
      BY <1>1
    <2>3. /\ FDT_TAGALIGN(ends[i]) \in Nat /\ FDT_TAGALIGN(ends[i]) \in Aligned
          /\ ends[i] <= FDT_TAGALIGN(ends[i])
      BY <1>2, <2>1 DEF Said
    <2>4. at[i] \in Nat /\ ends[i] \in Nat /\ at[i] < ends[i]
      BY <1>2, <2>1
    <2> QED
      BY <2>2, <2>3, <2>4
  <1>4. ASSUME NEW i \in 1 .. n PROVE at[i] \in Aligned
    <2>1. CASE i = 1
      <3>1. 0 \in Aligned
        BY Sizes DEF Aligned
      <3> QED
        BY <1>1, <2>1, <3>1
    <2>2. CASE i > 1
      <3>1. i - 1 \in 1 .. n - 1 /\ (i - 1) + 1 = i
        BY <1>1, <2>2
      <3>2. at[(i - 1) + 1] \in Aligned
        BY <1>3, <3>1
      <3> QED
        BY <3>1, <3>2
    <2> QED
      BY <2>1, <2>2
  <1> DEFINE T == {j \in 1 .. n : \A i \in 1 .. j : at[i] <= at[j]}
  <1>5. 1 .. n \subseteq T
    <2>1. n >= 1 => 1 \in T
      BY <1>1
    <2>2. ASSUME NEW j \in 1 .. n - 1, j \in T PROVE j + 1 \in T
      <3>1. j + 1 \in 1 .. n /\ j \in 1 .. n
        BY <1>1
      <3>2. at[j] < at[j + 1] /\ at[j] \in Nat /\ at[j + 1] \in Nat
        BY <1>2, <1>3, <3>1
      <3>3. ASSUME NEW i \in 1 .. j + 1 PROVE at[i] <= at[j + 1]
        <4>1. CASE i = j + 1
          BY <3>2, <4>1
        <4>2. CASE i # j + 1
          <5>1. i \in 1 .. j /\ i \in 1 .. n
            <6>1. i \in Nat /\ j \in Nat /\ n \in Nat /\ 1 <= i /\ i <= j + 1 /\ j < n
              BY <1>1
            <6> HIDE DEF T
            <6> QED
              BY <4>2, <6>1
          <5>2. at[i] <= at[j] /\ at[i] \in Nat
            BY <1>2, <2>2, <5>1
          <5> QED
            BY <3>2, <5>2
        <4> QED
          BY <4>1, <4>2
      <3> QED
        BY <3>1, <3>3
    <2> HIDE DEF T
    <2> QED
      BY <1>1, <2>1, <2>2, InductFromOne
  <1>6. \A j \in 1 .. n : \A i \in 1 .. j : at[i] <= at[j]
    BY <1>5
  <1> QED
    BY <1>2, <1>3, <1>4, <1>6

LEMMA TellsItems ==
  ASSUME NEW b, Sound(b), NEW n, NEW at, NEW ends, NEW items,
         Tells(b, b.size_dt_struct, n, at, ends, items)
  PROVE  TagOffsets(b) = at /\ Items(b) = items
  <1> DEFINE size == b.size_dt_struct
  <1>1. Block(b, FDT_SIZE_MAX, size)
    BY SoundBlock
  <1>2. size \in Nat
    BY <1>1 DEF Block
  <1>3. /\ n \in Nat /\ n >= 1 /\ at[1] = 0 /\ Maps(at, 1 .. n, Nat)
        /\ items = [i \in 1 .. n |-> items[i]]
        /\ \A i \in 1 .. n : Says(b, size, at[i], ends[i], items[i])
        /\ \A i \in 1 .. n - 1 : items[i].tag # FDT_END /\ at[i + 1] = FDT_TAGALIGN(ends[i])
        /\ items[n].tag = FDT_END
    BY DEF Tells
  <1>4. at \in Seq(Nat) /\ Len(at) = n /\ DOMAIN at = 1 .. n
    BY <1>3 DEF Maps
  <1> HIDE DEF size
  <1>5. ASSUME NEW i \in 1 .. n PROVE TagFacts(b, size, at, i)
    <2> DEFINE t == fdt_next_tag(b, at[i])
               x == FDT_TAGALIGN(ends[i])
    <2>1. /\ at[i] \in Nat /\ at[i] \in Aligned /\ ends[i] \in Nat /\ at[i] < ends[i]
          /\ ends[i] <= size /\ Said(b, at[i], ends[i], items[i])
      BY <1>1, TellsOrder DEF size
    <2>2. /\ t = [tag |-> items[i].tag, next |-> x] /\ x \in Nat
          /\ items[i].tag = WordAt(b, at[i]) /\ items[i].tag \in Kinds
      BY <2>1 DEF Said
    <2>3. i < n => items[i].tag # FDT_END /\ at[i + 1] = x /\ at[i] < at[i + 1]
      <3> SUFFICES ASSUME i < n
                   PROVE items[i].tag # FDT_END /\ at[i + 1] = x /\ at[i] < at[i + 1]
        OBVIOUS
      <3>1. i \in 1 .. n - 1
        BY <1>3
      <3>2. at[i] < at[i + 1]
        BY <1>1, <3>1, TellsOrder DEF size
      <3> QED
        BY <1>3, <3>1, <3>2
    <2>4. i = n => items[i].tag = FDT_END
      BY <1>3
    <2>5. t.tag = items[i].tag /\ t.next = x
      BY <2>2
    <2>6. at[i] < size
      BY <1>2, <2>1
    <2> HIDE DEF t, x
    <2>7. /\ i = Len(at) => t.tag = FDT_END /\ t.next \in Nat
          /\ i < Len(at) => t.tag # FDT_END /\ t.next = at[i + 1] /\ at[i] < at[i + 1]
      BY <1>4, <2>2, <2>3, <2>4, <2>5
    <2> QED
      BY <2>1, <2>2, <2>5, <2>6, <2>7 DEF TagFacts, t
  <1>6. TagOffsets(b) = at
    <2>1. Chain(b, size, at)
      BY <1>3, <1>4, <1>5 DEF Chain
    <2> QED
      BY <2>1, TagOffsetsAre DEF size
  <1>7. Items(b) = [i \in 1 .. n |-> Item(b, at[i])]
    BY <1>4, <1>6 DEF Items
  <1>8. \A i \in 1 .. n : Item(b, at[i]) = items[i]
    BY <1>3 DEF Says
  <1> QED
    BY <1>3, <1>6, <1>7, <1>8

-----------------------------------------------------------------------------
(* Whole words further on, or back. *)
LEMMA TagShift ==
  ASSUME NEW x \in Nat, NEW k \in Int, NEW d, d = k * FDT_TAGSIZE, x + d \in Nat
  PROVE  FDT_TAGALIGN(x + d) = FDT_TAGALIGN(x) + d
  <1> DEFINE w == FDT_TAGSIZE
             y == x + w - 1
             q == y \div w
             z == (x + d) + w - 1
             r == z \div w
  <1>1. w \in Nat /\ w > 0 /\ d \in Int
    BY Sizes
  <1>2. y \in Nat /\ z \in Nat /\ z = y + d
    <2> HIDE DEF w
    <2> QED
      BY <1>1
  <1>3. q \in Nat /\ w * q <= y /\ y < w * q + w
    <2> HIDE DEF w, y
    <2>1. q \in Nat /\ w * q <= y /\ y < w * (q + 1)
      BY <1>1, <1>2
    <2>2. w * (q + 1) = w * q + w
      <3> HIDE DEF q
      <3> QED
        BY <1>1, <2>1
    <2> QED
      BY <2>1, <2>2
  <1>4. r \in Nat /\ w * r <= z /\ z < w * r + w
    <2> HIDE DEF w, z
    <2>1. r \in Nat /\ w * r <= z /\ z < w * (r + 1)
      BY <1>1, <1>2
    <2>2. w * (r + 1) = w * r + w
      <3> HIDE DEF r
      <3> QED
        BY <1>1, <2>1
    <2> QED
      BY <2>1, <2>2
  <1>5. r = q + k
    <2> DEFINE e == r - (q + k)
    <2>0. d = k * w
      OBVIOUS
    <2> HIDE DEF w, y, z, q, r
    <2>1. e \in Int /\ w * e = w * r - w * q - w * k /\ d = w * k
      <3> DEFINE v == q + k
      <3>1. v \in Int /\ w * v = w * q + w * k
        BY <1>1, <1>3
      <3>2. e = r - v /\ e \in Int
        BY <1>3, <1>4
      <3> HIDE DEF v, e
      <3>3. w * (r - v) = w * r - w * v
        BY <1>1, <1>4, <3>1
      <3>4. w * r \in Int /\ w * q \in Int /\ w * k \in Int
        BY <1>1, <1>3, <1>4
      <3>5. d = w * k
        BY <2>0, <1>1
      <3> QED
        BY <3>1, <3>2, <3>3, <3>4, <3>5
    <2>2. w * r \in Int /\ w * q \in Int /\ w * k \in Int
      BY <1>1, <1>3, <1>4
    <2>3. w * e < w /\ -w < w * e
      <3> DEFINE wr == w * r
                 wq == w * q
                 wk == w * k
                 we == w * e
      <3>1. we = wr - wq - wk /\ d = wk /\ wr \in Int /\ wq \in Int /\ wk \in Int
        BY <2>1, <2>2
      <3>2. wr <= z /\ z < wr + w /\ wq <= y /\ y < wq + w
        BY <1>3, <1>4
      <3> HIDE DEF wr, wq, wk, we
      <3>3. we < w /\ -w < we
        BY <1>1, <1>2, <3>1, <3>2
      <3> QED
        BY <3>3 DEF we
    <2> HIDE DEF e
    <2>4. ASSUME e >= 1 PROVE FALSE
      <3>1. PICK g \in Nat : e = g + 1
        BY <2>1, <2>4
      <3>2. w * e = w * g + w /\ w * g \in Nat
        BY <1>1, <3>1
      <3> QED
        BY <1>1, <2>3, <3>2
    <2>5. ASSUME e <= -1 PROVE FALSE
      <3>1. PICK g \in Nat : e = -(g + 1)
        <4>1. -e - 1 \in Nat /\ e = -((-e - 1) + 1)
          BY <2>1, <2>5
        <4> QED
          BY <4>1
      <3>2. w * e = -(w * g) - w /\ w * g \in Nat
        BY <1>1, <3>1
      <3> QED
        BY <1>1, <2>3, <3>2
    <2>6. e = 0
      BY <2>1, <2>4, <2>5
    <2> QED
      BY <2>6, <1>3, <1>4 DEF e
  <1>6. FDT_TAGALIGN(x) = q * w /\ FDT_TAGALIGN(x + d) = r * w
    BY DEF FDT_TAGALIGN, FDT_ALIGN
  <1>7. r * w = q * w + k * w
    <2> HIDE DEF w, q, r
    <2> QED
      BY <1>1, <1>3, <1>5
  <1> HIDE DEF q, r
  <1> QED
    BY <1>6, <1>7

LEMMA SaysSame ==
  ASSUME NEW b, NEW N, NEW size, Block(b, N, size), NEW c, NEW M, NEW csize,
         Block(c, M, csize), SameNames(b, c), c.size_dt_strings >= b.size_dt_strings,
         NEW o, NEW end, NEW it, Says(b, size, o, end, it),
         NEW p \in Nat, p + (end - o) <= csize, SameBytes(b, o, c, p, end - o)
  PROVE  Says(c, csize, p, p + (end - o), it)
  <1>1. o \in Nat /\ end \in o + 1 .. size /\ Whole(b, o, end) /\ end \in Nat
        /\ Item(b, o) = it /\ size \in Nat /\ csize \in Nat
        /\ b.size_dt_strings \in Nat /\ c.size_dt_strings \in Nat
    BY DEF Says, Block
  <1>2. WordAt(b, o) = FDT_PROP => PropNameOff(b, o) \in 0 .. b.size_dt_strings - 1
    BY DEF Says
  <1> DEFINE e == p + (end - o)
  <1>3. Whole(c, p, e) /\ SameTag(b, o, c, p) /\ e \in p + 1 .. csize /\ Item(c, p) = Item(b, o)
    BY <1>1, <1>2, SameItem
  <1>4. WordAt(c, p) = FDT_PROP => PropNameOff(c, p) \in 0 .. c.size_dt_strings - 1
    <2> SUFFICES ASSUME WordAt(c, p) = FDT_PROP
                 PROVE PropNameOff(c, p) \in 0 .. c.size_dt_strings - 1
      OBVIOUS
    <2>1. PropNameOff(c, p) = PropNameOff(b, o)
          /\ PropNameOff(b, o) \in 0 .. b.size_dt_strings - 1
      BY <1>2, <1>3 DEF SameTag
    <2> QED
      BY <1>1, <2>1
  <1> HIDE DEF e
  <1>5. e \in Nat /\ p < e /\ e <= csize
    BY <1>1, <1>3
  <1> QED
    BY <1>1, <1>3, <1>4, <1>5 DEF Says, e

(* A structure block at another place, or of another blob. *)
LEMMA TellsSame ==
  ASSUME NEW b, NEW N, NEW size, Block(b, N, size), NEW c, NEW M,
         Block(c, M, size), SameBytes(b, 0, c, 0, size), SameStrings(b, c), LastNul(c),
         NEW n, NEW at, NEW ends, NEW items, Tells(b, size, n, at, ends, items)
  PROVE  Tells(c, size, n, at, ends, items)
  <1>1. \A i \in 1 .. n : Says(b, size, at[i], ends[i], items[i])
    BY DEF Tells
  <1>2. SameNames(b, c) /\ c.size_dt_strings >= b.size_dt_strings
    BY SameStringsNames DEF Tells, SameStrings
  <1>3. ASSUME NEW i \in 1 .. n PROVE Says(c, size, at[i], ends[i], items[i])
    <2> DEFINE o == at[i]
               e == ends[i]
               it == items[i]
    <2>1. Says(b, size, o, e, it)
      BY <1>1
    <2> HIDE DEF o, e, it
    <2>2. o \in Nat /\ e \in Nat /\ o < e /\ e <= size /\ size \in Nat
          /\ b.off_dt_struct \in Nat /\ c.off_dt_struct \in Nat
      BY <2>1 DEF Says, Block
    <2>3. o + (e - o) = e
      BY <2>2
    <2>4. SameBytes(b, o, c, o, e - o)
      <3> SUFFICES ASSUME NEW j \in 0 .. (e - o) - 1
                   PROVE c.mem[(c.off_dt_struct + o) + j] = b.mem[(b.off_dt_struct + o) + j]
        BY DEF SameBytes
      <3>1. o + j \in 0 .. size - 1
        BY <2>2
      <3>2. c.mem[(c.off_dt_struct + 0) + (o + j)] = b.mem[(b.off_dt_struct + 0) + (o + j)]
        BY <3>1 DEF SameBytes
      <3>3. /\ (c.off_dt_struct + 0) + (o + j) = (c.off_dt_struct + o) + j
            /\ (b.off_dt_struct + 0) + (o + j) = (b.off_dt_struct + o) + j
        BY <2>2
      <3> QED
        BY <3>2, <3>3
    <2>5. Says(c, size, o, o + (e - o), it)
      BY <1>2, <2>1, <2>2, <2>3, <2>4, SaysSame
    <2> QED
      BY <2>3, <2>5 DEF o, e, it
  <1> QED
    BY <1>3 DEF Tells

(* After the first k tags another one, and after it those that were there, *)
(* all (s = 1) or but the first (s = 0).                                   *)
Put(items, n, k, s, it) ==
  [i \in 1 .. n + s |-> IF i <= k THEN items[i] ELSE IF i = k + 1 THEN it ELSE items[i - s]]

Moved(b, size, c, x, z, d) ==
  /\ \A q \in 0 .. x - 1 : c.mem[c.off_dt_struct + q] = b.mem[b.off_dt_struct + q]
  /\ \A q \in z .. size - 1 : c.mem[c.off_dt_struct + (q + d)] = b.mem[b.off_dt_struct + q]

LEMMA TellsPut ==
  ASSUME NEW b, NEW N, NEW size, Block(b, N, size), NEW c, NEW M, NEW csize,
         Block(c, M, csize), SameNames(b, c), c.size_dt_strings >= b.size_dt_strings,
         LastNul(c), NEW n, NEW at, NEW ends, NEW items, Tells(b, size, n, at, ends, items),
         NEW k \in Nat, NEW s \in {0, 1}, k >= 1, (k + 2) - s <= n, k < n,
         NEW d \in Int, NEW g \in Int, d = g * FDT_TAGSIZE, csize = size + d,
         Moved(b, size, c, at[k + 1], at[(k + 2) - s], d),
         NEW y, NEW it, Says(c, csize, at[k + 1], y, it), it.tag # FDT_END,
         FDT_TAGALIGN(y) = at[(k + 2) - s] + d
  PROVE  \E cat, cends : /\ Tells(c, csize, n + s, cat, cends, Put(items, n, k, s, it))
                         /\ \A i \in 1 .. k : cat[i] = at[i]
  <1> DEFINE x == at[k + 1]
             z == at[(k + 2) - s]
             m == n + s
             cat == [i \in 1 .. m |-> IF i <= k + 1 THEN at[i] ELSE at[i - s] + d]
             cends == [i \in 1 .. m |-> IF i <= k THEN ends[i]
                                        ELSE IF i = k + 1 THEN y ELSE ends[i - s] + d]
             citems == Put(items, n, k, s, it)
  <1>1. /\ n \in Nat /\ n >= 1 /\ at[1] = 0
        /\ \A i \in 1 .. n : Says(b, size, at[i], ends[i], items[i])
        /\ \A i \in 1 .. n - 1 : items[i].tag # FDT_END /\ at[i + 1] = FDT_TAGALIGN(ends[i])
        /\ items[n].tag = FDT_END
    BY DEF Tells
  <1>2. /\ \A i \in 1 .. n : /\ at[i] \in Nat /\ at[i] \in Aligned /\ ends[i] \in Nat
                              /\ at[i] < ends[i] /\ ends[i] <= size
        /\ \A i \in 1 .. n - 1 : at[i] < at[i + 1] /\ ends[i] <= at[i + 1]
        /\ \A j \in 1 .. n : \A i \in 1 .. j : at[i] <= at[j]
    BY TellsOrder
  <1>3. /\ k + 1 \in 1 .. n /\ (k + 2) - s \in 1 .. n /\ m \in Nat /\ k + 2 <= m
        /\ k \in 1 .. n
    BY <1>1
  <1>4. x \in Nat /\ z \in Nat /\ y \in Nat /\ x < y /\ z + d \in Nat /\ size \in Nat
        /\ csize \in Nat /\ b.off_dt_struct \in Nat /\ c.off_dt_struct \in Nat
    <2>1. x \in Nat /\ z \in Nat
      BY <1>2, <1>3
    <2>2. y \in Nat /\ x < y
      BY DEF Says
    <2>3. FDT_TAGALIGN(y) \in Nat
      BY <2>2, TagAlign
    <2> QED
      BY <2>1, <2>2, <2>3 DEF Block
  <1>5. ASSUME NEW i \in 1 .. k
        PROVE  Says(c, csize, at[i], ends[i], items[i])
    <2> DEFINE o == at[i]
               e == ends[i]
               t == items[i]
    <2>1. i \in 1 .. n /\ i \in 1 .. n - 1 /\ i + 1 \in 1 .. k + 1
      BY <1>1, <1>3
    <2>2. Says(b, size, o, e, t)
      BY <1>1, <2>1
    <2>3. o \in Nat /\ e \in Nat /\ o < e /\ e <= x
      <3>1. e <= at[i + 1] /\ at[i + 1] <= x /\ at[i + 1] \in Nat
        <4>1. i + 1 \in 1 .. n
          BY <1>1, <2>1
        <4> QED
          BY <1>2, <1>3, <2>1, <4>1
      <3>2. o \in Nat /\ e \in Nat /\ o < e
        BY <1>2, <2>1
      <3> HIDE DEF o, e, x
      <3> QED
        BY <1>4, <3>1, <3>2
    <2>4. Moved(b, size, c, x, z, d)
      OBVIOUS
    <2>5. x <= csize
      <3>1. Says(c, csize, x, y, it)
        OBVIOUS
      <3> HIDE DEF x
      <3> QED
        BY <1>4, <3>1 DEF Says
    <2> HIDE DEF o, e, t, x, z
    <2>6. SameBytes(b, o, c, o, e - o)
      <3> SUFFICES ASSUME NEW j \in 0 .. (e - o) - 1
                   PROVE c.mem[(c.off_dt_struct + o) + j] = b.mem[(b.off_dt_struct + o) + j]
        BY DEF SameBytes
      <3>1. o + j \in 0 .. x - 1
        BY <1>4, <2>3
      <3>2. c.mem[c.off_dt_struct + (o + j)] = b.mem[b.off_dt_struct + (o + j)]
        BY <2>4, <3>1 DEF Moved
      <3>3. /\ c.off_dt_struct + (o + j) = (c.off_dt_struct + o) + j
            /\ b.off_dt_struct + (o + j) = (b.off_dt_struct + o) + j
        BY <1>4, <2>3
      <3> QED
        BY <3>2, <3>3
    <2>7. o + (e - o) = e /\ e <= csize
      BY <1>4, <2>3, <2>5
    <2>8. Says(c, csize, o, o + (e - o), t)
      BY <2>2, <2>3, <2>6, <2>7, SaysSame
    <2> QED
      BY <2>7, <2>8 DEF o, e, t
  <1>6. ASSUME NEW i \in (k + 2) - s .. n
        PROVE  /\ at[i] + d \in Nat /\ ends[i] + d \in Nat
               /\ Says(c, csize, at[i] + d, ends[i] + d, items[i])
    <2> DEFINE o == at[i]
               e == ends[i]
               t == items[i]
    <2>1. i \in 1 .. n /\ (k + 2) - s \in 1 .. i
      BY <1>1, <1>3
    <2>2. Says(b, size, o, e, t)
      BY <1>1, <2>1
    <2>3. o \in Nat /\ e \in Nat /\ o < e /\ e <= size /\ z <= o
      BY <1>2, <2>1
    <2>4. Moved(b, size, c, x, z, d)
      OBVIOUS
    <2> HIDE DEF o, e, t, x, z
    <2>5. o + d \in Nat /\ e + d \in Nat /\ (o + d) + (e - o) = e + d /\ e + d <= csize
      BY <1>4, <2>3
    <2>6. SameBytes(b, o, c, o + d, e - o)
      <3> SUFFICES ASSUME NEW j \in 0 .. (e - o) - 1
                   PROVE c.mem[(c.off_dt_struct + (o + d)) + j]
                           = b.mem[(b.off_dt_struct + o) + j]
        BY DEF SameBytes
      <3>1. o + j \in z .. size - 1
        BY <1>4, <2>3
      <3>2. c.mem[c.off_dt_struct + ((o + j) + d)] = b.mem[b.off_dt_struct + (o + j)]
        BY <2>4, <3>1 DEF Moved
      <3>3. /\ c.off_dt_struct + ((o + j) + d) = (c.off_dt_struct + (o + d)) + j
            /\ b.off_dt_struct + (o + j) = (b.off_dt_struct + o) + j
        BY <1>4, <2>3
      <3> QED
        BY <3>2, <3>3
    <2>7. Says(c, csize, o + d, (o + d) + (e - o), t)
      BY <2>2, <2>5, <2>6, SaysSame
    <2> QED
      BY <2>5, <2>7 DEF o, e, t
  <1>7. ASSUME NEW i \in 1 .. m
        PROVE  /\ i <= k => cat[i] = at[i] /\ cends[i] = ends[i] /\ citems[i] = items[i]
               /\ i = k + 1 => cat[i] = x /\ cends[i] = y /\ citems[i] = it
               /\ i > k + 1 => /\ cat[i] = at[i - s] + d /\ cends[i] = ends[i - s] + d
                               /\ citems[i] = items[i - s]
    BY <1>1, <1>3 DEF Put
  <1>8. DOMAIN cat = 1 .. m /\ DOMAIN cends = 1 .. m /\ citems = [i \in 1 .. m |-> citems[i]]
        /\ cat = [i \in 1 .. m |-> cat[i]] /\ cends = [i \in 1 .. m |-> cends[i]]
    BY DEF Put
  <1>9. ASSUME NEW i \in 1 .. m
        PROVE  /\ cat[i] \in Nat /\ cends[i] \in Nat
               /\ Says(c, csize, cat[i], cends[i], citems[i])
    <2>1. CASE i <= k
      <3>1. i \in 1 .. k /\ i \in 1 .. n
        BY <1>1, <1>3, <2>1
      <3>2. cat[i] = at[i] /\ cends[i] = ends[i] /\ citems[i] = items[i]
        BY <1>7, <2>1
      <3> HIDE DEF cat, cends, citems
      <3> QED
        BY <1>2, <1>5, <3>1, <3>2
    <2>2. CASE i = k + 1
      <3>1. cat[i] = x /\ cends[i] = y /\ citems[i] = it
        BY <1>7, <2>2
      <3> HIDE DEF cat, cends, citems
      <3> QED
        BY <1>4, <3>1
    <2>3. CASE i > k + 1
      <3>1. i - s \in (k + 2) - s .. n
        BY <1>1, <1>3, <2>3
      <3>2. cat[i] = at[i - s] + d /\ cends[i] = ends[i - s] + d /\ citems[i] = items[i - s]
        BY <1>7, <2>3
      <3> HIDE DEF cat, cends, citems
      <3> QED
        BY <1>6, <3>1, <3>2
    <2> QED
      BY <2>1, <2>2, <2>3, <1>3
  <1>10. ASSUME NEW i \in 1 .. m - 1
         PROVE citems[i].tag # FDT_END /\ cat[i + 1] = FDT_TAGALIGN(cends[i])
    <2>1. i \in 1 .. m /\ i + 1 \in 1 .. m
      BY <1>3
    <2>2. CASE i <= k
      <3>1. i \in 1 .. n - 1 /\ i + 1 <= k + 1
        BY <1>1, <1>3, <2>2
      <3>2. cends[i] = ends[i] /\ citems[i] = items[i]
        BY <1>7, <2>1, <2>2
      <3>3. cat[i + 1] = at[i + 1]
        <4>1. CASE i + 1 <= k
          BY <1>7, <2>1, <4>1
        <4>2. CASE i + 1 = k + 1
          BY <1>7, <2>1, <4>2
        <4> QED
          BY <2>2, <4>1, <4>2, <1>3
      <3> HIDE DEF cat, cends, citems
      <3> QED
        BY <1>1, <3>1, <3>2, <3>3
    <2>3. CASE i = k + 1
      <3>1. cends[i] = y /\ citems[i] = it
        BY <1>7, <2>1, <2>3
      <3>2. i + 1 > k + 1 /\ (i + 1) - s = (k + 2) - s
        BY <1>3, <2>3
      <3>3. cat[i + 1] = at[(i + 1) - s] + d
        BY <1>7, <2>1, <3>2
      <3> HIDE DEF cat, cends, citems
      <3> QED
        BY <3>1, <3>2, <3>3
    <2>4. CASE i > k + 1
      <3> DEFINE j == i - s
      <3>1. j \in (k + 2) - s .. n /\ j \in 1 .. n - 1 /\ (i + 1) - s = j + 1 /\ i + 1 > k + 1
            /\ j \in 1 .. n
        BY <1>1, <1>3, <2>4
      <3>2. cends[i] = ends[j] + d /\ citems[i] = items[j]
        BY <1>7, <2>1, <2>4
      <3>3. cat[i + 1] = at[(i + 1) - s] + d
        BY <1>7, <2>1, <3>1
      <3> HIDE DEF j, cat, cends, citems
      <3>4. ends[j] \in Nat /\ ends[j] + d \in Nat
        BY <1>2, <1>6, <3>1
      <3>5. FDT_TAGALIGN(ends[j] + d) = FDT_TAGALIGN(ends[j]) + d
        BY <3>4, TagShift
      <3> QED
        BY <1>1, <3>1, <3>2, <3>3, <3>5
    <2> QED
      BY <2>2, <2>3, <2>4, <1>3
  <1>11. citems[m].tag = FDT_END
    <2>1. m \in 1 .. m /\ m > k + 1 /\ m - s = n
      BY <1>1, <1>3
    <2>2. citems[m] = items[m - s]
      BY <1>7, <2>1
    <2> HIDE DEF citems
    <2> QED
      BY <1>1, <2>1, <2>2
  <1>12. cat[1] = 0
    <2>1. 1 \in 1 .. m /\ 1 <= k
      BY <1>3
    <2> QED
      BY <1>1, <1>7, <2>1
  <1>13. Maps(cat, 1 .. m, Nat) /\ Maps(cends, 1 .. m, Nat)
    <2> HIDE DEF cat, cends
    <2> QED
      BY <1>8, <1>9 DEF Maps
  <1>0. \A i \in 1 .. k : cat[i] = at[i]
    <2>1. \A i \in 1 .. k : i \in 1 .. m /\ i <= k
      BY <1>3
    <2> QED
      BY <1>7, <2>1
  <1> HIDE DEF cat, cends, citems
  <1>14. Tells(c, csize, m, cat, cends, citems)
    <2> HIDE DEF m
    <2> QED
      <3>1. m \in Nat /\ m >= 1
        BY <1>3
      <3>2. citems = [i \in 1 .. m |-> citems[i]]
        BY <1>8
      <3>3. \A i \in 1 .. m : Says(c, csize, cat[i], cends[i], citems[i])
        BY <1>9
      <3>4. \A i \in 1 .. m - 1 : citems[i].tag # FDT_END /\ cat[i + 1] = FDT_TAGALIGN(cends[i])
        BY <1>10
      <3> QED
        BY <1>11, <1>12, <1>13, <3>1, <3>2, <3>3, <3>4 DEF Tells
  <1> QED
    BY <1>0, <1>14 DEF citems

-----------------------------------------------------------------------------
(* The tree that items tell of, item by item.                              *)
Prop(S) == [name : S, val : S]
NodeOf(S) == [depth : Int, name : S, props : Seq(Prop(S))]
Growth(S) == [depth : Int, seq : Seq(NodeOf(S))]
ItemOf(S) == [tag : Kinds, name : S, val : S]
PropOf(it) == [name |-> it.name, val |-> it.val]
NodeFor(g, it) == [depth |-> g.depth, name |-> it.name, props |-> << >>]
WithLast(v, y) == [v EXCEPT !.props = Append(@, y)]

Grew(g, it, h) ==
  /\ it.tag = FDT_BEGIN_NODE =>
       h.depth = g.depth + 1 /\ h.seq = Append(g.seq, NodeFor(g, it))
  /\ it.tag = FDT_END_NODE => h.depth = g.depth - 1 /\ h.seq = g.seq
  /\ it.tag = FDT_PROP =>
       /\ h.depth = g.depth
       /\ h.seq = [l \in 1 .. Len(g.seq) |-> IF l = Len(g.seq) THEN WithLast(g.seq[l], PropOf(it)) ELSE g.seq[l]]
  /\ it.tag \in {FDT_NOP, FDT_END} => h = g

LEMMA GrowIs ==
  ASSUME NEW S, NEW g \in Growth(S), NEW it \in ItemOf(S)
  PROVE  Grow(g, it) \in Growth(S) /\ Grew(g, it, Grow(g, it))
  <1> DEFINE h == Grow(g, it)
             V == NodeOf(S)
             n == Len(g.seq)
  <1>1. /\ g = [depth |-> g.depth, seq |-> g.seq] /\ g.depth \in Int /\ g.seq \in Seq(V)
        /\ it.tag \in Kinds /\ it.name \in S /\ it.val \in S
    BY DEF Growth, ItemOf
  <1>2. n \in Nat /\ DOMAIN g.seq = 1 .. n
    <2> HIDE DEF V
    <2> QED
      BY <1>1
  <1>3. CASE it.tag = FDT_BEGIN_NODE
    <2>1. h = [depth |-> g.depth + 1, seq |-> Append(g.seq, NodeFor(g, it))]
      BY <1>3, Codes DEF Grow, NodeFor
    <2>2. NodeFor(g, it) \in V
      <3>1. << >> \in Seq(Prop(S))
        OBVIOUS
      <3> QED
        BY <1>1, <3>1 DEF NodeFor, NodeOf
    <2>3. Append(g.seq, NodeFor(g, it)) \in Seq(V)
      <3> HIDE DEF V
      <3> QED
        BY <1>1, <2>2
    <2>4. h \in Growth(S)
      <3> HIDE DEF h
      <3> QED
        BY <1>1, <2>1, <2>3 DEF Growth
    <2> HIDE DEF h
    <2> QED
      BY <1>3, <2>1, <2>4, Codes DEF Grew, h
  <1>4. CASE it.tag = FDT_END_NODE
    <2>1. h = [depth |-> g.depth - 1, seq |-> g.seq]
      BY <1>1, <1>4, Codes DEF Grow
    <2>2. h \in Growth(S)
      <3> HIDE DEF h
      <3> QED
        BY <1>1, <2>1 DEF Growth
    <2> HIDE DEF h
    <2> QED
      BY <1>4, <2>1, <2>2, Codes DEF Grew, h
  <1>5. CASE it.tag = FDT_PROP
    <2> DEFINE w == WithLast(g.seq[n], PropOf(it))
               s == [l \in 1 .. n |-> IF l = n THEN w ELSE g.seq[l]]
    <2>1. h = [depth |-> g.depth, seq |-> s]
      <3>1. h = [g EXCEPT !.seq[n].props = Append(@, PropOf(it))]
        BY <1>5, Codes DEF Grow, PropOf
      <3>2. h = [g EXCEPT !.seq = [g.seq EXCEPT ![n] =
                   [g.seq[n] EXCEPT !.props = Append(g.seq[n].props, PropOf(it))]]]
        BY <3>1
      <3>3. h = [g EXCEPT !.seq = [g.seq EXCEPT ![n] = w]]
        BY <3>2 DEF WithLast
      <3> HIDE DEF h, w
      <3>4. [g.seq EXCEPT ![n] = w] = s
        <4> HIDE DEF n
        <4> QED
          BY <1>2
      <3> HIDE DEF s
      <3> QED
        BY <1>1, <3>3, <3>4
    <2>2. n >= 1 => w \in V
      <3> SUFFICES ASSUME n >= 1 PROVE w \in V
        OBVIOUS
      <3> DEFINE v == g.seq[n]
                 P == Prop(S)
                 y == PropOf(it)
      <3>1. v \in V
        <4> HIDE DEF V
        <4> QED
          BY <1>1, <1>2
      <3>2. y \in P
        BY <1>1 DEF PropOf, Prop
      <3>3. w = [v EXCEPT !.props = Append(@, y)]
        BY DEF WithLast
      <3> HIDE DEF v, w, P, y
      <3>4. v.props \in Seq(P) /\ v = [depth |-> v.depth, name |-> v.name, props |-> v.props]
            /\ v.depth \in Int /\ v.name \in S
        BY <3>1 DEF NodeOf, P
      <3>5. Append(v.props, y) \in Seq(P)
        BY <3>2, <3>4
      <3>6. w = [depth |-> v.depth, name |-> v.name, props |-> Append(v.props, y)]
        BY <3>3, <3>4
      <3> QED
        BY <3>4, <3>5, <3>6 DEF NodeOf, P
    <2>3. s \in Seq(V)
      <3>1. \A l \in 1 .. n : g.seq[l] \in V
        <4> HIDE DEF V
        <4> QED
          BY <1>1, <1>2
      <3>2. \A l \in 1 .. n : s[l] \in V
        <4> HIDE DEF V, w
        <4> QED
          BY <1>2, <2>2, <3>1
      <3>3. s = [l \in 1 .. n |-> s[l]]
        OBVIOUS
      <3> HIDE DEF s, V, n
      <3> QED
        BY <1>2, <3>2, <3>3
    <2>4. h \in Growth(S)
      <3> HIDE DEF h, s
      <3> QED
        BY <1>1, <2>1, <2>3 DEF Growth
    <2>5. Grew(g, it, h)
      <3> HIDE DEF h
      <3> QED
        BY <1>5, <2>1, Codes DEF Grew
    <2> QED
      BY <2>4, <2>5
  <1>6. CASE it.tag \in {FDT_NOP, FDT_END}
    <2>1. h = g
      BY <1>6, Codes DEF Grow
    <2> HIDE DEF h
    <2>2. Grew(g, it, h)
      BY <1>6, <2>1, Codes DEF Grew
    <2> QED
      BY <2>1, <2>2 DEF h
  <1> QED
    BY <1>1, <1>3, <1>4, <1>5, <1>6 DEF Kinds

Grown(f, n, items, S) ==
  /\ f[0] = Empty
  /\ \A i \in 1 .. n : f[i] = Grow(f[i - 1], items[i])
  /\ \A i \in 0 .. n : f[i] \in Growth(S)

LEMMA EmptyType ==
  ASSUME NEW S
  PROVE  Empty \in Growth(S) /\ Empty.depth = 0 /\ Empty.seq = << >> /\ Len(Empty.seq) = 0
  <1> DEFINE V == NodeOf(S)
  <1>1. << >> \in Seq(V)
    <2> HIDE DEF V
    <2> QED
      OBVIOUS
  <1> QED
    BY <1>1 DEF Empty, Growth

LEMMA ReadingIs ==
  ASSUME NEW S, NEW n \in Nat, NEW items, items = [i \in 1 .. n |-> items[i]],
         \A i \in 1 .. n : items[i] \in ItemOf(S)
  PROVE  /\ Len(items) = n
         /\ \E f : Grown(f, n, items, S) /\ Reading(items) = f
  <1> DEFINE D == Growth(S)
             step == [p \in Nat \X D |-> IF p[1] \in 1 .. n THEN Grow(p[2], items[p[1]])
                                         ELSE p[2]]
             after == CHOOSE f : f = [i \in 0 .. n |-> IF i = 0 THEN Empty
                                                        ELSE Grow(f[i - 1], items[i])]
  <1>1. Len(items) = n
    <2>1. items \in Seq({items[i] : i \in 1 .. n}) /\ DOMAIN items = 1 .. n
      OBVIOUS
    <2> QED
      BY <2>1
  <1>2. Reading(items) = after
    BY <1>1 DEF Reading
  <1>3. PICK r : Recursive(r, Empty, step)
    <2> HIDE DEF step
    <2> QED
      BY RecursionExists
  <1>4. \A k \in Nat, d \in D : step[<<k + 1, d>>] \in D
    <2> TAKE k \in Nat, d \in D
    <2> DEFINE p == <<k + 1, d>>
    <2>1. p \in Nat \X D /\ p[1] = k + 1 /\ p[2] = d
      OBVIOUS
    <2>2. step[p] = IF p[1] \in 1 .. n THEN Grow(p[2], items[p[1]]) ELSE p[2]
      <3> HIDE DEF p, D
      <3> QED
        BY <2>1
    <2>3. k + 1 \in 1 .. n => Grow(d, items[k + 1]) \in D
      BY GrowIs
    <2> HIDE DEF p, D, step
    <2>4. step[p] \in D
      BY <2>1, <2>2, <2>3
    <2> QED
      BY <2>4 DEF p
  <1>5. \A k \in Nat : r[k] \in D
    <2> HIDE DEF step
    <2> QED
      BY <1>3, <1>4, EmptyType, RecursionType
  <1>6. r[0] = Empty /\ \A i \in 1 .. n : r[i] = Grow(r[i - 1], items[i])
    <2>1. \A i \in Nat : r[i] = IF i = 0 THEN Empty ELSE step[<<i, r[i - 1]>>]
      <3> HIDE DEF step
      <3> QED
        BY <1>3 DEF Recursive
    <2>2. ASSUME NEW i \in 1 .. n PROVE r[i] = Grow(r[i - 1], items[i])
      <3>1. i \in Nat /\ i # 0 /\ i - 1 \in Nat
        OBVIOUS
      <3> DEFINE d == r[i - 1]
                 p == <<i, d>>
      <3>2. d \in D
        BY <1>5, <3>1
      <3> HIDE DEF d
      <3>3. p \in Nat \X D /\ p[1] = i /\ p[2] = d
        BY <3>1, <3>2
      <3>4. step[p] = IF p[1] \in 1 .. n THEN Grow(p[2], items[p[1]]) ELSE p[2]
        <4> HIDE DEF p, D
        <4> QED
          BY <3>3
      <3> HIDE DEF step, p
      <3>5. step[p] = Grow(d, items[i])
        BY <3>3, <3>4
      <3>6. r[i] = step[p]
        BY <2>1, <3>1 DEF p, d
      <3> QED
        BY <3>5, <3>6 DEF d
    <2> HIDE DEF step
    <2> QED
      BY <2>1, <2>2
  <1> DEFINE f0 == [i \in 0 .. n |-> r[i]]
  <1>7. f0 = [i \in 0 .. n |-> IF i = 0 THEN Empty ELSE Grow(f0[i - 1], items[i])]
    <2>1. ASSUME NEW i \in 0 .. n
          PROVE  r[i] = IF i = 0 THEN Empty ELSE Grow(f0[i - 1], items[i])
      <3>1. CASE i = 0
        BY <1>6, <3>1
      <3>2. CASE i # 0
        <4>1. i \in 1 .. n /\ i - 1 \in 0 .. n
          BY <3>2
        <4>2. f0[i - 1] = r[i - 1]
          BY <4>1
        <4> HIDE DEF f0
        <4> QED
          BY <1>6, <3>2, <4>1, <4>2
      <3> QED
        BY <3>1, <3>2
    <2> QED
      BY <2>1, Zenon
  <1>8. after = [i \in 0 .. n |-> IF i = 0 THEN Empty ELSE Grow(after[i - 1], items[i])]
    <2> HIDE DEF f0
    <2> QED
      BY <1>7, Zenon
  <1> HIDE DEF after, f0, step
  <1>9. after[0] = Empty /\ \A i \in 1 .. n : after[i] = Grow(after[i - 1], items[i])
    <2> DEFINE k == [i \in 0 .. n |-> IF i = 0 THEN Empty ELSE Grow(after[i - 1], items[i])]
    <2>1. after = k
      BY <1>8
    <2>2. ASSUME NEW i \in 0 .. n
          PROVE  after[i] = IF i = 0 THEN Empty ELSE Grow(after[i - 1], items[i])
      <3>1. after[i] = k[i]
        BY <2>1, Zenon
      <3> QED
        BY <3>1
    <2>3. 0 \in 0 .. n
      OBVIOUS
    <2>4. ASSUME NEW i \in 1 .. n PROVE after[i] = Grow(after[i - 1], items[i])
      <3>1. i \in 0 .. n /\ i # 0
        OBVIOUS
      <3> QED
        BY <2>2, <3>1
    <2> HIDE DEF k
    <2> QED
      BY <2>2, <2>3, <2>4
  <1> DEFINE T == {i \in 0 .. n : after[i] \in D}
  <1>10. 0 .. n \subseteq T
    <2>1. 0 \in T
      BY <1>9, EmptyType
    <2>2. ASSUME NEW m \in 0 .. n - 1, m \in T PROVE m + 1 \in T
      <3>1. m + 1 \in 1 .. n /\ (m + 1) - 1 = m /\ m + 1 \in 0 .. n
        OBVIOUS
      <3>2. after[m + 1] = Grow(after[m], items[m + 1]) /\ after[m] \in D
        BY <1>9, <2>2, <3>1
      <3>3. Grow(after[m], items[m + 1]) \in D
        BY <3>1, <3>2, GrowIs
      <3> QED
        BY <3>1, <3>2, <3>3
    <2> HIDE DEF T
    <2> QED
      BY <2>1, <2>2, InductUpTo
  <1>11. Grown(after, n, items, S)
    BY <1>9, <1>10 DEF Grown
  <1> QED
    BY <1>1, <1>2, <1>11

LEMMA TreeIs ==
  ASSUME NEW S, NEW n \in Nat, NEW items, items = [i \in 1 .. n |-> items[i]],
         \A i \in 1 .. n : items[i] \in ItemOf(S)
  PROVE  \E f : Grown(f, n, items, S) /\ TreeOf(items) = f[n].seq
  BY ReadingIs DEF TreeOf

-----------------------------------------------------------------------------
Stepped(f, items, S, i) ==
  /\ f[i - 1] \in Growth(S) /\ f[i] \in Growth(S)
  /\ Grew(f[i - 1], items[i], f[i]) /\ f[i] = Grow(f[i - 1], items[i])
  /\ Len(f[i - 1].seq) \in Nat /\ Len(f[i].seq) \in Nat
  /\ Len(f[i].seq) = IF items[i].tag = FDT_BEGIN_NODE THEN Len(f[i - 1].seq) + 1
                     ELSE Len(f[i - 1].seq)

LEMMA GrownStep ==
  ASSUME NEW S, NEW n \in Nat, NEW items, \A i \in 1 .. n : items[i] \in ItemOf(S),
         NEW f, Grown(f, n, items, S), NEW i \in 1 .. n
  PROVE  Stepped(f, items, S, i)
  <1> DEFINE g == f[i - 1]
             it == items[i]
             h == f[i]
             V == NodeOf(S)
  <1>1. i - 1 \in 0 .. n /\ i \in 0 .. n
    OBVIOUS
  <1>2. g \in Growth(S) /\ h \in Growth(S) /\ h = Grow(g, it) /\ it \in ItemOf(S)
    BY <1>1 DEF Grown
  <1> HIDE DEF g, it, h
  <1>3. Grew(g, it, h)
    BY <1>2, GrowIs
  <1>4. g.seq \in Seq(V) /\ h.seq \in Seq(V) /\ it.tag \in Kinds
    BY <1>2 DEF Growth, ItemOf
  <1>5. Len(g.seq) \in Nat /\ Len(h.seq) \in Nat
    <2> HIDE DEF V
    <2> QED
      BY <1>4
  <1>6. Len(h.seq) = IF it.tag = FDT_BEGIN_NODE THEN Len(g.seq) + 1 ELSE Len(g.seq)
    <2>1. CASE it.tag = FDT_BEGIN_NODE
      <3>1. h.seq = Append(g.seq, NodeFor(g, it))
        BY <1>3, <2>1 DEF Grew
      <3>2. Len(Append(g.seq, NodeFor(g, it))) = Len(g.seq) + 1
        BY <1>4
      <3> QED
        BY <2>1, <3>1, <3>2
    <2>2. CASE it.tag = FDT_PROP
      <3> DEFINE m == Len(g.seq)
                 s == [l \in 1 .. m |-> IF l = m THEN WithLast(g.seq[l], PropOf(it)) ELSE g.seq[l]]
      <3>1. h.seq = s
        BY <1>3, <2>2 DEF Grew
      <3>2. Len(s) = m
        <4> HIDE DEF m
        <4>1. s \in Seq({s[l] : l \in 1 .. m}) /\ DOMAIN s = 1 .. m
          BY <1>5 DEF m
        <4> QED
          BY <4>1, <1>5 DEF m
      <3> HIDE DEF s
      <3> QED
        BY <2>2, <3>1, <3>2, Codes
    <2>3. CASE it.tag \notin {FDT_BEGIN_NODE, FDT_PROP}
      <3>1. h.seq = g.seq
        BY <1>3, <1>4, <2>3 DEF Grew, Kinds
      <3> QED
        BY <2>3, <3>1
    <2> QED
      BY <2>1, <2>2, <2>3
  <1>7. f[i - 1] \in Growth(S) /\ f[i] \in Growth(S) /\ f[i] = Grow(f[i - 1], items[i])
    BY <1>2 DEF g, h, it
  <1> QED
    BY <1>3, <1>5, <1>6, <1>7 DEF g, h, it, Stepped

LEMMA GrownOrder ==
  ASSUME NEW S, NEW n \in Nat, NEW items, \A i \in 1 .. n : items[i] \in ItemOf(S),
         NEW f, Grown(f, n, items, S)
  PROVE  \A j \in 0 .. n : Len(f[j].seq) \in Nat
                           /\ \A i \in 0 .. j : Len(f[i].seq) <= Len(f[j].seq)
  <1> DEFINE L(i) == Len(f[i].seq)
             T == {j \in 0 .. n : L(j) \in Nat /\ \A i \in 0 .. j : L(i) <= L(j)}
  <1>1. 0 \in T
    <2>1. L(0) = 0
      BY EmptyType DEF Grown
    <2>2. \A i \in 0 .. 0 : i = 0
      OBVIOUS
    <2> HIDE DEF L
    <2> QED
      BY <2>1, <2>2
  <1>2. ASSUME NEW m \in 0 .. n - 1, m \in T PROVE m + 1 \in T
    <2>1. m + 1 \in 1 .. n /\ (m + 1) - 1 = m /\ m + 1 \in 0 .. n
      OBVIOUS
    <2>2. L(m + 1) \in Nat /\ L(m) \in Nat /\ L(m) <= L(m + 1)
      <3>1. /\ Len(f[(m + 1) - 1].seq) \in Nat /\ Len(f[m + 1].seq) \in Nat
            /\ Len(f[m + 1].seq) = IF items[m + 1].tag = FDT_BEGIN_NODE
                                   THEN Len(f[(m + 1) - 1].seq) + 1
                                   ELSE Len(f[(m + 1) - 1].seq)
        <4>1. Stepped(f, items, S, m + 1)
          BY <2>1, GrownStep
        <4> QED
          BY <4>1 DEF Stepped
      <3>2. L(m) = Len(f[(m + 1) - 1].seq) /\ L(m + 1) = Len(f[m + 1].seq)
        BY <2>1
      <3> HIDE DEF L
      <3> QED
        BY <3>1, <3>2
    <2>3. \A i \in 0 .. m : L(i) <= L(m)
      BY <1>2
    <2>4. ASSUME NEW i \in 0 .. m + 1 PROVE L(i) <= L(m + 1)
      <3>1. CASE i = m + 1
        <4> HIDE DEF L
        <4> QED
          BY <2>2, <3>1
      <3>2. CASE i # m + 1
        <4>1. i \in 0 .. m /\ i \in 0 .. n
          BY <3>2
        <4>2. L(i) \in Nat
          <5>1. f[i] \in Growth(S)
            BY <4>1 DEF Grown
          <5>2. f[i].seq \in Seq(NodeOf(S))
            BY <5>1 DEF Growth
          <5> QED
            BY <5>2
        <4>3. L(i) <= L(m)
          BY <2>3, <4>1
        <4> HIDE DEF L
        <4> QED
          BY <2>2, <4>2, <4>3
      <3> QED
        BY <3>1, <3>2
    <2> HIDE DEF L
    <2> QED
      BY <2>1, <2>2, <2>4
  <1>3. 0 .. n \subseteq T
    <2> HIDE DEF T
    <2> QED
      BY <1>1, <1>2, InductUpTo
  <1> QED
    BY <1>3

(* Each node comes from the tag that begins it. *)
Born(f, items, i, l, j) ==
  /\ items[j].tag = FDT_BEGIN_NODE /\ Len(f[j - 1].seq) + 1 = l
  /\ f[i].seq[l].depth = f[j - 1].depth /\ f[i].seq[l].name = items[j].name

LEMMA BornAt ==
  ASSUME NEW S, NEW n \in Nat, NEW items, \A i \in 1 .. n : items[i] \in ItemOf(S),
         NEW f, Grown(f, n, items, S)
  PROVE  \A i \in 0 .. n : \A l \in 1 .. Len(f[i].seq) :
           \E j \in 1 .. i : Born(f, items, i, l, j)
  <1> DEFINE T == {i \in 0 .. n : \A l \in 1 .. Len(f[i].seq) :
                                    \E j \in 1 .. i : Born(f, items, i, l, j)}
  <1>1. 0 \in T
    <2>1. Len(f[0].seq) = 0
      BY EmptyType DEF Grown
    <2> QED
      BY <2>1
  <1>2. ASSUME NEW m \in 0 .. n - 1, m \in T PROVE m + 1 \in T
    <2> DEFINE k == m + 1
               g == f[m]
               h == f[k]
               it == items[k]
               V == NodeOf(S)
    <2>1. k \in 1 .. n /\ k - 1 = m /\ k \in 0 .. n
      OBVIOUS
    <2>2. /\ g \in Growth(S) /\ h \in Growth(S) /\ Grew(g, it, h)
          /\ Len(g.seq) \in Nat /\ Len(h.seq) \in Nat
          /\ Len(h.seq) = IF it.tag = FDT_BEGIN_NODE THEN Len(g.seq) + 1 ELSE Len(g.seq)
      <3>1. f[k - 1] = g
        BY <2>1
      <3> HIDE DEF k, T
      <3>2. /\ f[k - 1] \in Growth(S) /\ f[k] \in Growth(S)
            /\ Grew(f[k - 1], items[k], f[k])
            /\ Len(f[k - 1].seq) \in Nat /\ Len(f[k].seq) \in Nat
            /\ Len(f[k].seq) = IF items[k].tag = FDT_BEGIN_NODE THEN Len(f[k - 1].seq) + 1
                               ELSE Len(f[k - 1].seq)
        <4>1. Stepped(f, items, S, k)
          BY <2>1, GrownStep
        <4> QED
          BY <4>1 DEF Stepped
      <3>3. h = f[k] /\ it = items[k]
        OBVIOUS
      <3> HIDE DEF g, h, it
      <3> QED
        BY <3>1, <3>2, <3>3
    <2>3. g.seq \in Seq(V) /\ it.tag \in Kinds
      BY <2>1, <2>2 DEF Growth, ItemOf
    <2>4. ASSUME NEW l \in 1 .. Len(h.seq)
          PROVE  \E j \in 1 .. k : Born(f, items, k, l, j)
      <3>1. CASE l <= Len(g.seq)
        <4>1. PICK j \in 1 .. m : Born(f, items, m, l, j)
          <5>1. l \in 1 .. Len(g.seq)
            <6> HIDE DEF g, h
            <6> QED
              BY <2>2, <3>1
          <5> QED
            BY <1>2, <5>1
        <4>2. h.seq[l].depth = g.seq[l].depth /\ h.seq[l].name = g.seq[l].name
          <5> HIDE DEF g, h, it, k
          <5>1. l \in 1 .. Len(g.seq)
            BY <2>2, <3>1
          <5>2. CASE it.tag = FDT_BEGIN_NODE
            <6>1. h.seq = Append(g.seq, NodeFor(g, it))
              BY <2>2, <5>2 DEF Grew
            <6>2. Append(g.seq, NodeFor(g, it))[l] = g.seq[l]
              BY <2>3, <5>1
            <6> QED
              BY <6>1, <6>2
          <5>3. CASE it.tag = FDT_PROP
            <6>1. h.seq[l] = IF l = Len(g.seq) THEN WithLast(g.seq[l], PropOf(it)) ELSE g.seq[l]
              BY <2>2, <5>1, <5>3 DEF Grew
            <6>2. l = Len(g.seq) => /\ WithLast(g.seq[l], PropOf(it)).depth = g.seq[l].depth
                                    /\ WithLast(g.seq[l], PropOf(it)).name = g.seq[l].name
              <7>1. g.seq[l] \in V
                <8> HIDE DEF V
                <8> QED
                  BY <2>3, <5>1
              <7> QED
                BY <7>1 DEF WithLast, NodeOf
            <6> QED
              BY <6>1, <6>2
          <5>4. CASE it.tag \notin {FDT_BEGIN_NODE, FDT_PROP}
            <6>1. h.seq = g.seq
              BY <2>2, <2>3, <5>4 DEF Grew, Kinds
            <6> QED
              BY <6>1
          <5> QED
            BY <5>2, <5>3, <5>4
        <4>3. Born(f, items, k, l, j)
          <5> HIDE DEF k
          <5> QED
            BY <4>1, <4>2 DEF Born, g, h
        <4>4. j \in 1 .. k
          OBVIOUS
        <4> QED
          BY <4>3, <4>4
      <3>2. CASE ~(l <= Len(g.seq))
        <4> HIDE DEF g, h, it
        <4>1. it.tag = FDT_BEGIN_NODE /\ l = Len(g.seq) + 1
          BY <2>2, <3>2
        <4>2. h.seq = Append(g.seq, NodeFor(g, it))
          BY <2>2, <4>1 DEF Grew
        <4>3. Append(g.seq, NodeFor(g, it))[Len(g.seq) + 1] = NodeFor(g, it)
          BY <2>3
        <4>4. h.seq[l].depth = g.depth /\ h.seq[l].name = it.name
          BY <4>1, <4>2, <4>3 DEF NodeFor
        <4>5. f[k - 1] = g /\ f[k] = h /\ items[k] = it /\ k \in 1 .. k
          BY <2>1 DEF g, h, it
        <4> HIDE DEF k
        <4>6. Born(f, items, k, l, k)
          BY <4>1, <4>4, <4>5 DEF Born
        <4> QED
          BY <4>5, <4>6
      <3> QED
        BY <3>1, <3>2
    <2> QED
      BY <2>1, <2>4
  <1>3. 0 .. n \subseteq T
    <2> HIDE DEF T
    <2> QED
      BY <1>1, <1>2, InductUpTo
  <1> QED
    BY <1>3

-----------------------------------------------------------------------------
(* A change of the properties of a node, now or after the tags to come.    *)
OnNode(v, G) == [depth |-> v.depth, name |-> v.name, props |-> G[v.props]]
On(g, L, G) ==
  [depth |-> g.depth, seq |-> [g.seq EXCEPT ![L] = OnNode(g.seq[L], G)]]

Commutes(G, D, P) ==
  /\ D \subseteq Seq(P) /\ G \in [D -> Seq(P)]
  /\ \A ps \in D, y \in P : Append(ps, y) \in D /\ G[Append(ps, y)] = Append(G[ps], y)

LEMMA GrowOn ==
  ASSUME NEW S, NEW g \in Growth(S), NEW it \in ItemOf(S), NEW L \in 1 .. Len(g.seq),
         NEW D, NEW G, Commutes(G, D, Prop(S)), g.seq[L].props \in D
  PROVE  /\ Grow(On(g, L, G), it) = On(Grow(g, it), L, G)
         /\ L \in 1 .. Len(Grow(g, it).seq) /\ Grow(g, it).seq[L].props \in D
         /\ On(g, L, G) \in Growth(S)
  <1> DEFINE V == NodeOf(S)
             P == Prop(S)
             n == Len(g.seq)
             s == g.seq
             v == s[L]
             w == OnNode(v, G)
             u == [s EXCEPT ![L] = w]
             k == [depth |-> g.depth, seq |-> u]
             h == Grow(g, it)
             y == PropOf(it)
  <1>1. /\ g = [depth |-> g.depth, seq |-> s] /\ g.depth \in Int /\ s \in Seq(V)
        /\ it.tag \in Kinds /\ y \in P
    BY DEF Growth, ItemOf, PropOf, Prop
  <1>2. n \in Nat /\ L \in 1 .. n /\ DOMAIN s = 1 .. n
    <2> HIDE DEF V
    <2> QED
      BY <1>1
  <1>3. v \in V
    <2> HIDE DEF V
    <2> QED
      BY <1>1, <1>2
  <1>4. /\ v = [depth |-> v.depth, name |-> v.name, props |-> v.props]
        /\ v.depth \in Int /\ v.name \in S /\ v.props \in D
    <2> HIDE DEF v
    <2>1. v.props \in D
      BY DEF v
    <2> QED
      BY <1>3, <2>1 DEF NodeOf
  <1>5. G[v.props] \in Seq(P) /\ Append(v.props, y) \in D
        /\ G[Append(v.props, y)] = Append(G[v.props], y)
    <2> HIDE DEF v, y, P
    <2> QED
      BY <1>1, <1>4 DEF Commutes, P
  <1>6. On(g, L, G) = k
    BY DEF On
  <1>7. w \in V
    <2> HIDE DEF v
    <2> QED
      BY <1>4, <1>5 DEF NodeOf, OnNode
  <1> HIDE DEF w
  <1>8. u \in Seq(V) /\ Len(u) = n /\ u[L] = w /\ \A l \in 1 .. n : l # L => u[l] = s[l]
    <2> HIDE DEF V, v
    <2> QED
      BY <1>1, <1>2, <1>7
  <1>9. k \in Growth(S) /\ k.depth = g.depth /\ k.seq = u
    <2> HIDE DEF u
    <2> QED
      BY <1>1, <1>8 DEF Growth
  <1>10. h \in Growth(S) /\ Grew(g, it, h)
    BY GrowIs
  <1> DEFINE r == Grow(k, it)
  <1>11. r \in Growth(S) /\ Grew(k, it, r)
    <2> HIDE DEF k
    <2> QED
      BY <1>9, GrowIs
  <1> HIDE DEF k, h, r
  <1>12. /\ h = [depth |-> h.depth, seq |-> h.seq] /\ r = [depth |-> r.depth, seq |-> r.seq]
         /\ h.seq \in Seq(V) /\ r.seq \in Seq(V)
    BY <1>10, <1>11 DEF Growth
  <1>13. /\ r.depth = h.depth
         /\ Len(r.seq) = Len(h.seq) /\ L \in 1 .. Len(h.seq) /\ h.seq[L].props \in D
         /\ r.seq[L] = OnNode(h.seq[L], G)
         /\ \A l \in 1 .. Len(h.seq) : l # L => r.seq[l] = h.seq[l]
    <2>0. OnNode(v, G) = w
      BY DEF w
    <2>1. CASE it.tag = FDT_BEGIN_NODE
      <3> DEFINE x == NodeFor(g, it)
      <3>1. h.depth = g.depth + 1 /\ h.seq = Append(s, x)
        BY <1>10, <2>1 DEF Grew
      <3>2. NodeFor(k, it) = x
        BY <1>9 DEF NodeFor
      <3>3. r.depth = g.depth + 1 /\ r.seq = Append(u, x)
        BY <1>9, <1>11, <2>1, <3>2 DEF Grew
      <3> HIDE DEF x, u, s, v, V, n
      <3>4. /\ Len(Append(s, x)) = n + 1 /\ Len(Append(u, x)) = n + 1
            /\ \A l \in 1 .. n : Append(s, x)[l] = s[l] /\ Append(u, x)[l] = u[l]
            /\ Append(s, x)[n + 1] = x /\ Append(u, x)[n + 1] = x
        BY <1>1, <1>8 DEF n, s
      <3>5. h.seq[L] = v /\ r.seq[L] = w
        BY <1>2, <1>8, <3>1, <3>3, <3>4 DEF v
      <3>6. Len(h.seq) = n + 1 /\ Len(r.seq) = n + 1 /\ L \in 1 .. n + 1
        BY <1>2, <3>1, <3>3, <3>4
      <3>7. \A l \in 1 .. n + 1 : l # L => r.seq[l] = h.seq[l]
        BY <1>2, <1>8, <3>1, <3>3, <3>4
      <3> QED
        BY <1>4, <2>0, <3>1, <3>3, <3>5, <3>6, <3>7
    <2>2. CASE it.tag = FDT_PROP
      <3> DEFINE hs == [l \in 1 .. n |-> IF l = n THEN WithLast(s[l], y) ELSE s[l]]
                 rs == [l \in 1 .. n |-> IF l = n THEN WithLast(u[l], y) ELSE u[l]]
      <3>1. h.depth = g.depth /\ h.seq = hs
        BY <1>10, <2>2 DEF Grew
      <3>2. r.depth = g.depth /\ r.seq = rs
        <4>1. /\ r.depth = k.depth
              /\ r.seq = [l \in 1 .. Len(k.seq) |-> IF l = Len(k.seq) THEN WithLast(k.seq[l], y)
                                                    ELSE k.seq[l]]
          BY <1>11, <2>2 DEF Grew
        <4>2. k.seq = u /\ Len(u) = n /\ k.depth = g.depth
          BY <1>8, <1>9
        <4> HIDE DEF u, n
        <4> QED
          BY <4>1, <4>2
      <3>3. Len(hs) = n /\ Len(rs) = n
        <4>1. Len(h.seq) = n
          <5>1. DOMAIN h.seq = 1 .. n
            BY <3>1
          <5> HIDE DEF n, V
          <5> QED
            BY <1>2, <1>12, <5>1
        <4>2. Len(r.seq) = n
          <5>1. DOMAIN r.seq = 1 .. n
            BY <3>2
          <5> HIDE DEF n, V
          <5> QED
            BY <1>2, <1>12, <5>1
        <4> QED
          BY <3>1, <3>2, <4>1, <4>2
      <3>5. \A l \in 1 .. n : /\ hs[l] = IF l = n THEN WithLast(s[l], y) ELSE s[l]
                              /\ rs[l] = IF l = n THEN WithLast(u[l], y) ELSE u[l]
        OBVIOUS
      <3> HIDE DEF hs, rs, u, s, V, n, y
      <3>6. \A l \in 1 .. n : l # L => rs[l] = hs[l]
        <4> TAKE l \in 1 .. n
        <4>1. CASE l = n
          BY <1>8, <3>5, <4>1
        <4>2. CASE l # n
          BY <1>8, <3>5, <4>2
        <4> QED
          BY <4>1, <4>2
      <3>7. hs[L].props \in D /\ rs[L] = OnNode(hs[L], G)
        <4>1. CASE L = n
          <5> DEFINE ap == Append(v.props, y)
          <5>1. hs[L] = [v EXCEPT !.props = Append(@, y)]
                /\ rs[L] = [w EXCEPT !.props = Append(@, y)]
            BY <1>2, <1>8, <3>5, <4>1 DEF v, WithLast
          <5>2. w = [depth |-> v.depth, name |-> v.name, props |-> G[v.props]]
            BY DEF w, OnNode
          <5> HIDE DEF v
          <5>3. hs[L] = [depth |-> v.depth, name |-> v.name, props |-> ap]
            BY <1>4, <5>1
          <5>4. rs[L] = [depth |-> v.depth, name |-> v.name, props |-> Append(G[v.props], y)]
            BY <5>1, <5>2
          <5> HIDE DEF w
          <5>5. ap \in D /\ G[ap] = Append(G[v.props], y)
            BY <1>5
          <5> HIDE DEF ap
          <5>6. hs[L].props = ap /\ hs[L].depth = v.depth /\ hs[L].name = v.name
            BY <5>3
          <5>7. OnNode(hs[L], G) = [depth |-> v.depth, name |-> v.name, props |-> G[ap]]
            BY <5>6 DEF OnNode
          <5> QED
            BY <5>4, <5>5, <5>6, <5>7
        <4>2. CASE L # n
          <5>1. hs[L] = v /\ rs[L] = w
            BY <1>2, <1>8, <3>5, <4>2 DEF v
          <5> HIDE DEF v
          <5> QED
            BY <1>4, <2>0, <5>1
        <4> QED
          BY <4>1, <4>2
      <3> QED
        BY <1>2, <3>1, <3>2, <3>3, <3>6, <3>7
    <2>3. CASE it.tag \in {FDT_END_NODE, FDT_NOP, FDT_END}
      <3>1. h.seq = s /\ r.seq = u /\ r.depth = h.depth
        BY <1>9, <1>10, <1>11, <2>3, Codes DEF Grew
      <3>2. h.seq[L] = v /\ r.seq[L] = w
        BY <1>8, <3>1
      <3>3. Len(h.seq) = n /\ Len(r.seq) = n
        BY <1>8, <3>1
      <3> HIDE DEF v, u, s, n
      <3> QED
        BY <1>2, <1>4, <1>8, <2>0, <3>1, <3>2, <3>3
    <2> QED
      BY <1>1, <2>1, <2>2, <2>3 DEF Kinds
  <1>14. r = On(h, L, G)
    <2> DEFINE a == h.seq
               z == [a EXCEPT ![L] = OnNode(a[L], G)]
    <2>1. z = r.seq
      <3> DEFINE m == Len(a)
      <3>1. a \in Seq(V) /\ r.seq \in Seq(V) /\ Len(r.seq) = m /\ L \in 1 .. m
        BY <1>12, <1>13
      <3>2. DOMAIN a = 1 .. m /\ DOMAIN r.seq = 1 .. m /\ r.seq = [l \in 1 .. m |-> r.seq[l]]
        <4> HIDE DEF V
        <4> QED
          BY <3>1
      <3>3. z = [l \in 1 .. m |-> IF l = L THEN OnNode(a[L], G) ELSE a[l]]
        <4> HIDE DEF a, m
        <4> QED
          BY <3>2
      <3>4. \A l \in 1 .. m : r.seq[l] = IF l = L THEN OnNode(a[L], G) ELSE a[l]
        BY <1>13
      <3> HIDE DEF z, a, m
      <3> QED
        BY <3>2, <3>3, <3>4
    <2> HIDE DEF z
    <2>2. On(h, L, G) = [depth |-> h.depth, seq |-> z]
      BY DEF On, z
    <2> QED
      BY <1>12, <1>13, <2>1, <2>2
  <1> QED
    BY <1>6, <1>9, <1>13, <1>14 DEF r, h

-----------------------------------------------------------------------------
LEMMA GrownAt ==
  ASSUME NEW S, NEW n \in Nat, NEW items, NEW f, Grown(f, n, items, S), NEW i \in 0 .. n
  PROVE  f[i] \in Growth(S) /\ f[i].seq \in Seq(NodeOf(S)) /\ Len(f[i].seq) \in Nat
  <1>1. f[i] \in Growth(S)
    BY DEF Grown
  <1>2. f[i].seq \in Seq(NodeOf(S))
    BY <1>1 DEF Growth
  <1> DEFINE V == NodeOf(S)
  <1>3. f[i].seq \in Seq(V)
    BY <1>2
  <1>4. Len(f[i].seq) \in Nat
    <2> HIDE DEF V
    <2> QED
      BY <1>3
  <1> QED
    BY <1>1, <1>2, <1>4

(* The properties of a node after a tag: one more, of the last node begun, *)
(* after a property.                                                       *)
PropsAt(f, i, L) == f[i].seq[L].props

LEMMA PropsStep ==
  ASSUME NEW S, NEW n \in Nat, NEW items, \A i \in 1 .. n : items[i] \in ItemOf(S),
         NEW f, Grown(f, n, items, S), NEW i \in 1 .. n, NEW L \in 1 .. Len(f[i - 1].seq)
  PROVE  /\ L \in 1 .. Len(f[i].seq) /\ PropsAt(f, i - 1, L) \in Seq(Prop(S))
         /\ items[i].tag = FDT_PROP /\ L = Len(f[i - 1].seq) =>
              PropsAt(f, i, L) = Append(PropsAt(f, i - 1, L), PropOf(items[i]))
         /\ ~(items[i].tag = FDT_PROP /\ L = Len(f[i - 1].seq)) =>
              PropsAt(f, i, L) = PropsAt(f, i - 1, L)
  <1> DEFINE g == f[i - 1]
             h == f[i]
             it == items[i]
             V == NodeOf(S)
  <1>1. Stepped(f, items, S, i)
    BY GrownStep
  <1>2. /\ g \in Growth(S) /\ Grew(g, it, h) /\ Len(g.seq) \in Nat /\ Len(h.seq) \in Nat
        /\ Len(h.seq) = IF it.tag = FDT_BEGIN_NODE THEN Len(g.seq) + 1 ELSE Len(g.seq)
    BY <1>1 DEF Stepped
  <1>3. L \in 1 .. Len(g.seq) /\ it \in ItemOf(S)
    OBVIOUS
  <1> HIDE DEF g, h, it
  <1>4. g.seq \in Seq(V) /\ it.tag \in Kinds
    BY <1>2, <1>3 DEF Growth, ItemOf
  <1>5. L \in 1 .. Len(h.seq)
    BY <1>2, <1>3
  <1>6. g.seq[L] \in V
    <2> HIDE DEF V
    <2> QED
      BY <1>3, <1>4
  <1>7. g.seq[L].props \in Seq(Prop(S))
    BY <1>6 DEF NodeOf
  <1>8. CASE it.tag = FDT_BEGIN_NODE
    <2>1. h.seq = Append(g.seq, NodeFor(g, it))
      BY <1>2, <1>8 DEF Grew
    <2>2. Append(g.seq, NodeFor(g, it))[L] = g.seq[L]
      BY <1>3, <1>4
    <2> QED
      BY <1>5, <1>7, <1>8, <2>1, <2>2, Codes DEF PropsAt, g, h, it
  <1>9. CASE it.tag = FDT_PROP
    <2>1. h.seq[L] = IF L = Len(g.seq) THEN WithLast(g.seq[L], PropOf(it)) ELSE g.seq[L]
      BY <1>2, <1>3, <1>9 DEF Grew
    <2>2. WithLast(g.seq[L], PropOf(it)).props = Append(g.seq[L].props, PropOf(it))
      BY <1>6 DEF WithLast, NodeOf
    <2> QED
      BY <1>5, <1>7, <1>9, <2>1, <2>2 DEF PropsAt, g, h, it
  <1>10. CASE it.tag \notin {FDT_BEGIN_NODE, FDT_PROP}
    <2>1. h.seq = g.seq
      BY <1>2, <1>4, <1>10 DEF Grew, Kinds
    <2> QED
      BY <1>5, <1>7, <1>10, <2>1 DEF PropsAt, g, h, it
  <1> QED
    BY <1>8, <1>9, <1>10

LEMMA PropsNone ==
  ASSUME NEW S, NEW n \in Nat, NEW items, \A i \in 1 .. n : items[i] \in ItemOf(S),
         NEW f, Grown(f, n, items, S), NEW i \in 1 .. n, items[i].tag = FDT_BEGIN_NODE
  PROVE  /\ Len(f[i].seq) >= 1 /\ Len(f[i].seq) = Len(f[i - 1].seq) + 1
         /\ Len(f[i].seq) \in Nat /\ Len(f[i - 1].seq) \in Nat
         /\ PropsAt(f, i, Len(f[i].seq)) = << >>
  <1> DEFINE g == f[i - 1]
             h == f[i]
             it == items[i]
  <1>1. Stepped(f, items, S, i)
    BY GrownStep
  <1>2. /\ g \in Growth(S) /\ Grew(g, it, h) /\ Len(g.seq) \in Nat /\ Len(h.seq) \in Nat
        /\ Len(h.seq) = Len(g.seq) + 1
    BY <1>1 DEF Stepped
  <1>3. h.seq = Append(g.seq, NodeFor(g, it))
    BY <1>2 DEF Grew
  <1>4. g.seq \in Seq(NodeOf(S))
    BY <1>2 DEF Growth
  <1> HIDE DEF g, h, it
  <1>5. Append(g.seq, NodeFor(g, it))[Len(g.seq) + 1] = NodeFor(g, it)
    BY <1>4
  <1> QED
    BY <1>2, <1>3, <1>5 DEF PropsAt, NodeFor, g, h

(* The same tags first, the same tree up to there. *)
LEMMA SamePrefix ==
  ASSUME NEW S, NEW n \in Nat, NEW items, NEW f, Grown(f, n, items, S),
         NEW m \in Nat, NEW citems, NEW h, Grown(h, m, citems, S),
         NEW k \in Nat, k <= n, k <= m, \A i \in 1 .. k : citems[i] = items[i]
  PROVE  \A i \in 0 .. k : h[i] = f[i]
  <1> DEFINE T == {i \in 0 .. k : h[i] = f[i]}
  <1>1. 0 \in T
    BY DEF Grown
  <1>2. ASSUME NEW j \in 0 .. k - 1, j \in T PROVE j + 1 \in T
    <2>1. j + 1 \in 1 .. n /\ j + 1 \in 1 .. m /\ j + 1 \in 1 .. k /\ (j + 1) - 1 = j
          /\ j + 1 \in 0 .. k
      OBVIOUS
    <2>2. h[j + 1] = Grow(h[(j + 1) - 1], citems[j + 1])
          /\ f[j + 1] = Grow(f[(j + 1) - 1], items[j + 1])
      BY <2>1 DEF Grown
    <2>3. h[j] = f[j] /\ citems[j + 1] = items[j + 1]
      BY <1>2, <2>1
    <2>4. h[j + 1] = f[j + 1]
      BY <2>1, <2>2, <2>3
    <2> QED
      BY <2>1, <2>4
  <1>3. 0 .. k \subseteq T
    <2> HIDE DEF T
    <2> QED
      BY <1>1, <1>2, InductUpTo
  <1> QED
    BY <1>3

(* A node that has changed when the same tags follow still has after them. *)
Shifted(items, citems, a, n, s) == \A i \in a + 1 .. n : citems[i + s] = items[i]
OnAt(f, a, L, G, D, S) ==
  L \in 1 .. Len(f[a].seq) /\ f[a].seq[L].props \in D /\ Commutes(G, D, Prop(S))

LEMMA Later ==
  ASSUME NEW S, NEW n \in Nat, NEW items, \A i \in 1 .. n : items[i] \in ItemOf(S),
         NEW f, Grown(f, n, items, S),
         NEW s \in {0, 1}, NEW citems, NEW m, m = n + s, NEW h, Grown(h, m, citems, S),
         NEW a \in 0 .. n, Shifted(items, citems, a, n, s),
         NEW D, NEW G, NEW L, OnAt(f, a, L, G, D, S), h[a + s] = On(f[a], L, G)
  PROVE  h[m] = On(f[n], L, G) /\ OnAt(f, n, L, G, D, S)
  <1>0. /\ L \in 1 .. Len(f[a].seq) /\ f[a].seq[L].props \in D /\ Commutes(G, D, Prop(S))
        /\ \A i \in a + 1 .. n : citems[i + s] = items[i]
    BY DEF OnAt, Shifted
  <1> DEFINE R(i) == /\ h[i + s] = On(f[i], L, G) /\ L \in 1 .. Len(f[i].seq)
                     /\ f[i].seq[L].props \in D
             T == {j \in 0 .. n - a : R(a + j)}
  <1>1. 0 \in T
    <2>1. a + 0 = a /\ 0 \in 0 .. n - a
      OBVIOUS
    <2>2. R(a)
      BY <1>0
    <2> HIDE DEF R
    <2> QED
      BY <2>1, <2>2
  <1>2. ASSUME NEW j \in 0 .. (n - a) - 1, j \in T PROVE j + 1 \in T
    <2> DEFINE i == a + j
    <2>1. /\ i \in 0 .. n /\ i + 1 \in 1 .. n /\ (i + 1) - 1 = i /\ i + 1 \in a + 1 .. n
          /\ (i + 1) + s \in 1 .. n + s /\ ((i + 1) + s) - 1 = i + s
          /\ j + 1 \in 0 .. n - a /\ a + (j + 1) = i + 1
      OBVIOUS
    <2>2. R(i)
      BY <1>2
    <2> HIDE DEF i
    <2>3. f[i + 1] = Grow(f[i], items[i + 1])
      <3>1. f[i + 1] = Grow(f[(i + 1) - 1], items[i + 1])
        BY <2>1 DEF Grown
      <3> QED
        BY <2>1, <3>1
    <2>4. h[(i + 1) + s] = Grow(h[i + s], items[i + 1])
      <3> DEFINE l == (i + 1) + s
      <3>1. l \in 1 .. n + s /\ l - 1 = i + s /\ citems[l] = items[i + 1]
        BY <1>0, <2>1
      <3> HIDE DEF l
      <3>2. h[l] = Grow(h[l - 1], citems[l])
        BY <3>1 DEF Grown
      <3> QED
        BY <3>1, <3>2 DEF l
    <2>5. f[i] \in Growth(S) /\ items[i + 1] \in ItemOf(S)
      BY <2>1 DEF Grown
    <2>6. /\ Grow(On(f[i], L, G), items[i + 1]) = On(Grow(f[i], items[i + 1]), L, G)
          /\ L \in 1 .. Len(Grow(f[i], items[i + 1]).seq)
          /\ Grow(f[i], items[i + 1]).seq[L].props \in D
      <3> DEFINE g == f[i]
                 it == items[i + 1]
      <3>1. g \in Growth(S) /\ it \in ItemOf(S) /\ L \in 1 .. Len(g.seq)
            /\ g.seq[L].props \in D
        BY <2>2, <2>5
      <3> HIDE DEF g, it
      <3>2. /\ Grow(On(g, L, G), it) = On(Grow(g, it), L, G)
            /\ L \in 1 .. Len(Grow(g, it).seq) /\ Grow(g, it).seq[L].props \in D
        BY <1>0, <3>1, GrowOn
      <3> QED
        BY <3>2 DEF g, it
    <2>7. R(i + 1)
      BY <2>2, <2>3, <2>4, <2>6
    <2> HIDE DEF R
    <2> QED
      BY <2>1, <2>7
  <1>3. n - a \in T
    <2>1. n - a \in Nat
      OBVIOUS
    <2> HIDE DEF T
    <2>2. 0 .. n - a \subseteq T
      BY <1>1, <1>2, <2>1, InductUpTo
    <2> QED
      BY <2>1, <2>2
  <1>4. a + (n - a) = n
    OBVIOUS
  <1>5. R(n)
    <2> HIDE DEF R
    <2> QED
      BY <1>3, <1>4
  <1> QED
    BY <1>0, <1>5 DEF OnAt

-----------------------------------------------------------------------------
(* Properties of which none has the name. *)
Nameless(ps, p) == \A j \in 1 .. Len(ps) : ps[j].name # p

LEMMA AppendNameless ==
  ASSUME NEW P, NEW ps \in Seq(P), NEW y, NEW p, Nameless(ps, p), y.name # p
  PROVE  Nameless(Append(ps, y), p)
  <1>1. Len(Append(ps, y)) = Len(ps) + 1 /\ Len(ps) \in Nat
        /\ Append(ps, y)[Len(ps) + 1] = y
        /\ \A j \in 1 .. Len(ps) : Append(ps, y)[j] = ps[j]
    OBVIOUS
  <1> SUFFICES ASSUME NEW j \in 1 .. Len(ps) + 1 PROVE Append(ps, y)[j].name # p
    BY <1>1 DEF Nameless
  <1>2. CASE j = Len(ps) + 1
    BY <1>1, <1>2
  <1>3. CASE j # Len(ps) + 1
    <2>1. j \in 1 .. Len(ps)
      BY <1>1, <1>3
    <2> QED
      BY <1>1, <2>1 DEF Nameless
  <1> QED
    BY <1>2, <1>3

(* Tags of properties that do not have the name. *)
Run(items, p, i, K) ==
  \A m \in i .. K - 1 : /\ items[m].tag \in {FDT_PROP, FDT_NOP}
                        /\ items[m].tag = FDT_PROP => items[m].name # p

LEMMA RunNone ==
  ASSUME NEW S, NEW n \in Nat, NEW items, \A i \in 1 .. n : items[i] \in ItemOf(S),
         NEW f, Grown(f, n, items, S), NEW c \in 1 .. n, items[c].tag = FDT_BEGIN_NODE,
         NEW p, NEW K \in c + 1 .. n + 1, Run(items, p, c + 1, K)
  PROVE  \A i \in c .. K - 1 :
           Len(f[i].seq) = Len(f[c].seq) /\ Nameless(PropsAt(f, i, Len(f[c].seq)), p)
  <1> DEFINE L == Len(f[c].seq)
             R(i) == Len(f[i].seq) = L /\ Nameless(PropsAt(f, i, L), p)
             T == {j \in 0 .. (K - 1) - c : R(c + j)}
  <1>1. L \in Nat /\ L >= 1 /\ PropsAt(f, c, L) = << >>
    BY PropsNone
  <1>2. 0 \in T
    <2>1. c + 0 = c /\ 0 \in 0 .. (K - 1) - c
      OBVIOUS
    <2>2. R(c)
      <3>1. Len(<< >>) = 0
        OBVIOUS
      <3> QED
        BY <1>1, <3>1 DEF Nameless
    <2> HIDE DEF R
    <2> QED
      BY <2>1, <2>2
  <1>3. ASSUME NEW j \in 0 .. ((K - 1) - c) - 1, j \in T PROVE j + 1 \in T
    <2> DEFINE i == c + j
               k == i + 1
    <2>1. /\ k \in 1 .. n /\ k - 1 = i /\ k \in c + 1 .. K - 1 /\ i \in 0 .. n
          /\ j + 1 \in 0 .. (K - 1) - c /\ c + (j + 1) = k
      OBVIOUS
    <2>2. R(i)
      BY <1>3
    <2>3. items[k].tag \in {FDT_PROP, FDT_NOP} /\ (items[k].tag = FDT_PROP => items[k].name # p)
      BY <2>1 DEF Run
    <2> HIDE DEF k, i, T
    <2>4. Stepped(f, items, S, k)
      BY <2>1, GrownStep
    <2>5. Len(f[k].seq) = L
      BY <2>1, <2>2, <2>3, <2>4, Codes DEF Stepped
    <2>6. L \in 1 .. Len(f[k - 1].seq)
      BY <1>1, <2>1, <2>2
    <2>7. /\ PropsAt(f, k - 1, L) \in Seq(Prop(S))
          /\ items[k].tag = FDT_PROP /\ L = Len(f[k - 1].seq) =>
               PropsAt(f, k, L) = Append(PropsAt(f, k - 1, L), PropOf(items[k]))
          /\ ~(items[k].tag = FDT_PROP /\ L = Len(f[k - 1].seq)) =>
               PropsAt(f, k, L) = PropsAt(f, k - 1, L)
      <3> HIDE DEF L
      <3> QED
        BY <2>1, <2>6, PropsStep
    <2>8. Nameless(PropsAt(f, k, L), p)
      <3>1. CASE items[k].tag = FDT_PROP
        <4>1. PropOf(items[k]).name # p
          BY <2>3, <3>1 DEF PropOf
        <4>2. L = Len(f[k - 1].seq) /\ Nameless(PropsAt(f, k - 1, L), p)
          BY <2>1, <2>2
        <4> HIDE DEF L
        <4>3. Nameless(Append(PropsAt(f, k - 1, L), PropOf(items[k])), p)
          BY <2>7, <4>1, <4>2, AppendNameless
        <4> QED
          BY <2>7, <3>1, <4>2, <4>3
      <3>2. CASE items[k].tag # FDT_PROP
        BY <2>1, <2>2, <2>7, <3>2
      <3> QED
        BY <3>1, <3>2
    <2>9. R(k)
      BY <2>5, <2>8
    <2> HIDE DEF R
    <2> QED
      BY <2>1, <2>9 DEF T
  <1>4. 0 .. (K - 1) - c \subseteq T
    <2>1. (K - 1) - c \in Nat
      OBVIOUS
    <2> HIDE DEF T
    <2> QED
      BY <1>2, <1>3, <2>1, InductUpTo
  <1> SUFFICES ASSUME NEW i \in c .. K - 1 PROVE R(i)
    OBVIOUS
  <1>5. i - c \in 0 .. (K - 1) - c /\ c + (i - c) = i
    OBVIOUS
  <1> HIDE DEF R
  <1> QED
    BY <1>4, <1>5

(* After the last of them the node has no such property, and gets none:    *)
(* what is not of this run is of another node.                             *)
PropsStepped(f, items, S, i, L) ==
  /\ PropsAt(f, i - 1, L) \in Seq(Prop(S))
  /\ ~(items[i].tag = FDT_PROP /\ L = Len(f[i - 1].seq)) =>
       PropsAt(f, i, L) = PropsAt(f, i - 1, L)

LEMMA PropsSteps ==
  ASSUME NEW S, NEW n \in Nat, NEW items, \A i \in 1 .. n : items[i] \in ItemOf(S),
         NEW f, Grown(f, n, items, S), NEW i \in 1 .. n, NEW L \in 1 .. Len(f[i - 1].seq)
  PROVE  PropsStepped(f, items, S, i, L)
  BY PropsStep DEF PropsStepped

LEMMA RunEnd ==
  ASSUME NEW S, NEW n \in Nat, NEW items, DOMAIN items = 1 .. n,
         \A i \in 1 .. n : items[i] \in ItemOf(S), Orderly(items),
         NEW f, Grown(f, n, items, S), NEW c \in 1 .. n, items[c].tag = FDT_BEGIN_NODE,
         NEW p, NEW K \in c + 1 .. n, Run(items, p, c + 1, K),
         items[K].tag \notin {FDT_PROP, FDT_NOP}
  PROVE  \A i \in c .. n : /\ Len(f[c].seq) \in 1 .. Len(f[i].seq)
                           /\ Nameless(PropsAt(f, i, Len(f[c].seq)), p)
  <1> DEFINE L == Len(f[c].seq)
             N(i) == Nameless(PropsAt(f, i, L), p)
             T == {j \in 0 .. n - (K - 1) : N((K - 1) + j)}
  <1>1. L \in Nat /\ L >= 1
    BY PropsNone
  <1>2. ASSUME NEW i \in c .. n PROVE L \in 1 .. Len(f[i].seq)
    <2>1. i \in 0 .. n /\ c \in 0 .. i
      OBVIOUS
    <2>2. Len(f[i].seq) \in Nat /\ Len(f[c].seq) <= Len(f[i].seq)
      BY <2>1, GrownOrder
    <2> QED
      BY <1>1, <2>2
  <1>3. ASSUME NEW i \in c .. K - 1 PROVE N(i)
    <2>1. K \in c + 1 .. n + 1
      OBVIOUS
    <2> QED
      BY <2>1, RunNone
  <1>4. 0 \in T
    <2>1. K - 1 \in c .. K - 1 /\ (K - 1) + 0 = K - 1 /\ 0 \in 0 .. n - (K - 1)
      OBVIOUS
    <2> HIDE DEF N
    <2> QED
      BY <1>3, <2>1
  <1>5. ASSUME NEW j \in 0 .. (n - (K - 1)) - 1, j \in T PROVE j + 1 \in T
    <2> DEFINE i == (K - 1) + j
               k == i + 1
    <2>1. /\ k \in 1 .. n /\ k - 1 = i /\ k \in K .. n /\ i \in c .. n
          /\ j + 1 \in 0 .. n - (K - 1) /\ (K - 1) + (j + 1) = k
      OBVIOUS
    <2>2. N(i)
      BY <1>5
    <2> HIDE DEF k, i, T
    <2>3. L \in 1 .. Len(f[k - 1].seq)
      BY <1>2, <2>1
    <2>4. /\ PropsAt(f, k - 1, L) \in Seq(Prop(S))
          /\ ~(items[k].tag = FDT_PROP /\ L = Len(f[k - 1].seq)) =>
               PropsAt(f, k, L) = PropsAt(f, k - 1, L)
      <3>1. PropsStepped(f, items, S, k, L)
        <4> HIDE DEF L, N
        <4> QED
          BY <2>1, <2>3, PropsSteps
      <3> HIDE DEF L
      <3> QED
        BY <3>1 DEF PropsStepped
    <2>5. ASSUME items[k].tag = FDT_PROP, L = Len(f[k - 1].seq) PROVE FALSE
      <3>1. k \in DOMAIN items
        BY <2>1
      <3>2. PICK b \in 1 .. k - 1 : /\ items[b].tag = FDT_BEGIN_NODE
                                    /\ \A m \in b + 1 .. k - 1 :
                                         items[m].tag \in {FDT_PROP, FDT_NOP}
        BY <2>5, <3>1 DEF Orderly
      <3>3. K # k
        BY <2>5
      <3>4. b >= K
        <4>1. ASSUME b < K PROVE FALSE
          <5>1. K \in b + 1 .. k - 1
            BY <2>1, <3>3, <4>1
          <5> QED
            BY <3>2, <5>1
        <4> QED
          BY <4>1, <2>1
      <3>5. b \in 1 .. n /\ b - 1 \in c .. n /\ k - 1 \in 0 .. n /\ b \in 0 .. k - 1
        BY <2>1, <3>4
      <3>6. L \in 1 .. Len(f[b - 1].seq)
        BY <1>2, <3>5
      <3>7. /\ Len(f[b].seq) = Len(f[b - 1].seq) + 1 /\ Len(f[b].seq) \in Nat
            /\ Len(f[b - 1].seq) \in Nat
        BY <3>2, <3>5, PropsNone
      <3>8. Len(f[k - 1].seq) \in Nat /\ Len(f[b].seq) <= Len(f[k - 1].seq)
        BY <3>5, GrownOrder
      <3> DEFINE x == Len(f[k - 1].seq)
                 y == Len(f[b].seq)
                 z == Len(f[b - 1].seq)
      <3>9. L = x /\ L \in 1 .. z /\ y = z + 1 /\ y <= x /\ x \in Nat /\ y \in Nat /\ z \in Nat
        BY <2>5, <3>6, <3>7, <3>8
      <3> HIDE DEF L, x, y, z
      <3> QED
        BY <3>9
    <2>6. N(k)
      <3>1. PropsAt(f, k, L) = PropsAt(f, k - 1, L)
        BY <2>4, <2>5
      <3> QED
        BY <2>1, <2>2, <3>1
    <2> HIDE DEF N
    <2> QED
      BY <2>1, <2>6 DEF T
  <1>6. 0 .. n - (K - 1) \subseteq T
    <2>1. n - (K - 1) \in Nat
      OBVIOUS
    <2> HIDE DEF T
    <2> QED
      BY <1>4, <1>5, <2>1, InductUpTo
  <1>7. ASSUME NEW i \in c .. n PROVE N(i)
    <2>1. CASE i <= K - 1
      <3>1. i \in c .. K - 1
        BY <2>1
      <3> HIDE DEF N
      <3> QED
        BY <1>3, <3>1
    <2>2. CASE ~(i <= K - 1)
      <3>1. i - (K - 1) \in 0 .. n - (K - 1) /\ (K - 1) + (i - (K - 1)) = i
        BY <2>2
      <3> HIDE DEF N
      <3> QED
        BY <1>6, <3>1
    <2> QED
      BY <2>1, <2>2
  <1> QED
    BY <1>2, <1>7

-----------------------------------------------------------------------------
(* The tag that begins the node of the settings: of the first items, and   *)
(* so of those that have the same up to it.                                *)
FirstItems(items, c) == [i \in 1 .. c |-> items[i]]
Spot(items, n, c) ==
  /\ c \in 1 .. n /\ items[c].tag = FDT_BEGIN_NODE
  /\ Chosens(TreeOf(items)) # {}
  /\ Len(TreeOf(FirstItems(items, c))) = Least(Chosens(TreeOf(items)))

LEMMA FrontIs ==
  ASSUME NEW S, NEW n \in Nat, NEW items, \A i \in 1 .. n : items[i] \in ItemOf(S),
         NEW f, Grown(f, n, items, S), NEW c \in 1 .. n
  PROVE  TreeOf(FirstItems(items, c)) = f[c].seq
  <1> DEFINE fr == FirstItems(items, c)
  <1>1. /\ fr = [i \in 1 .. c |-> fr[i]] /\ \A i \in 1 .. c : fr[i] = items[i]
        /\ \A i \in 1 .. c : fr[i] \in ItemOf(S)
    BY DEF FirstItems
  <1> HIDE DEF fr
  <1>2. c \in Nat
    OBVIOUS
  <1>3. PICK h : Grown(h, c, fr, S) /\ TreeOf(fr) = h[c].seq
    BY <1>1, <1>2, TreeIs
  <1>4. \A i \in 0 .. c : h[i] = f[i]
    <2>1. c <= n /\ c <= c
      OBVIOUS
    <2>2. Grown(h, c, fr, S)
      BY <1>3
    <2>3. \A i \in 1 .. c : fr[i] = items[i]
      BY <1>1
    <2> QED
      BY <1>2, <2>1, <2>2, <2>3, SamePrefix
  <1>5. h[c] = f[c]
    BY <1>2, <1>4
  <1> QED
    BY <1>3, <1>5 DEF fr

LEMMA ChosensIn ==
  ASSUME NEW S, NEW t \in Seq(NodeOf(S)), Chosens(t) # {}
  PROVE  /\ Least(Chosens(t)) \in Chosens(t) /\ Least(Chosens(t)) \in 1 .. Len(t)
         /\ Least(Chosens(t)) \in Nat
  <1> DEFINE V == NodeOf(S)
  <1>1. DOMAIN t = 1 .. Len(t) /\ Len(t) \in Nat
    <2>1. t \in Seq(V)
      OBVIOUS
    <2> HIDE DEF V
    <2> QED
      BY <2>1
  <1>2. Chosens(t) \subseteq 1 .. Len(t)
    BY <1>1 DEF Chosens
  <1>3. Chosens(t) \subseteq Nat
    BY <1>1, <1>2
  <1>4. Least(Chosens(t)) \in Chosens(t)
    BY <1>3, LeastOf
  <1> QED
    BY <1>2, <1>3, <1>4

(* A change of the properties of that node: the same nodes are called      *)
(* chosen.                                                                 *)
OnTree(t, L, G) == [t EXCEPT ![L] = OnNode(t[L], G)]

LEMMA OnChosens ==
  ASSUME NEW S, NEW t \in Seq(NodeOf(S)), NEW L \in 1 .. Len(t), NEW G
  PROVE  Chosens(OnTree(t, L, G)) = Chosens(t)
  <1> DEFINE V == NodeOf(S)
             u == OnTree(t, L, G)
  <1>1. DOMAIN t = 1 .. Len(t) /\ Len(t) \in Nat /\ t[L] \in V
    <2>1. t \in Seq(V)
      OBVIOUS
    <2> HIDE DEF V
    <2> QED
      BY <2>1
  <1>2. DOMAIN u = DOMAIN t
    BY DEF OnTree
  <1>3. ASSUME NEW i \in DOMAIN t PROVE u[i].depth = t[i].depth /\ u[i].name = t[i].name
    <2>1. CASE i = L
      <3>1. u[L] = OnNode(t[L], G)
        BY <1>1 DEF OnTree
      <3> QED
        BY <2>1, <3>1 DEF OnNode
    <2>2. CASE i # L
      <3>1. u[i] = t[i]
        BY <1>1, <2>2 DEF OnTree
      <3> QED
        BY <3>1
    <2> QED
      BY <2>1, <2>2
  <1> HIDE DEF V
  <1> QED
    BY <1>2, <1>3 DEF Chosens

-----------------------------------------------------------------------------
LEMMA SpotAt ==
  ASSUME NEW S, NEW n \in Nat, NEW items, \A i \in 1 .. n : items[i] \in ItemOf(S),
         NEW f, Grown(f, n, items, S), TreeOf(items) = f[n].seq,
         NEW c, Spot(items, n, c)
  PROVE  /\ c \in 1 .. n /\ items[c].tag = FDT_BEGIN_NODE
         /\ Len(f[c].seq) = Least(Chosens(f[n].seq)) /\ Len(f[c].seq) \in 1 .. Len(f[n].seq)
  <1>1. /\ c \in 1 .. n /\ items[c].tag = FDT_BEGIN_NODE /\ Chosens(f[n].seq) # {}
        /\ Len(TreeOf(FirstItems(items, c))) = Least(Chosens(f[n].seq))
    BY DEF Spot
  <1>2. TreeOf(FirstItems(items, c)) = f[c].seq
    BY <1>1, FrontIs
  <1>3. f[n].seq \in Seq(NodeOf(S))
    <2>1. n \in 0 .. n
      OBVIOUS
    <2> QED
      BY <2>1, GrownAt
  <1>4. Least(Chosens(f[n].seq)) \in 1 .. Len(f[n].seq)
    BY <1>1, <1>3, ChosensIn
  <1> QED
    BY <1>1, <1>2, <1>4

Renewed(items, citems, m, c, L, G, S) ==
  /\ Spot(citems, m, c) /\ L = Least(Chosens(TreeOf(items)))
  /\ L \in 1 .. Len(TreeOf(items)) /\ TreeOf(items) \in Seq(NodeOf(S))
  /\ TreeOf(citems) = OnTree(TreeOf(items), L, G)

LEMMA NewTree ==
  ASSUME NEW S, NEW n \in Nat, NEW items, \A i \in 1 .. n : items[i] \in ItemOf(S),
         NEW f, Grown(f, n, items, S), TreeOf(items) = f[n].seq,
         NEW c, Spot(items, n, c), NEW m \in Nat, NEW citems,
         \A i \in 1 .. m : citems[i] \in ItemOf(S), c <= m,
         NEW h, Grown(h, m, citems, S), TreeOf(citems) = h[m].seq,
         \A i \in 1 .. c : citems[i] = items[i],
         NEW L, L = Len(f[c].seq), NEW G, h[m] = On(f[n], L, G)
  PROVE  Renewed(items, citems, m, c, L, G, S)
  <1> DEFINE t == TreeOf(items)
             u == TreeOf(citems)
  <1>1. /\ c \in 1 .. n /\ items[c].tag = FDT_BEGIN_NODE
        /\ L = Least(Chosens(t)) /\ L \in 1 .. Len(t)
    BY SpotAt
  <1>2. u = OnTree(t, L, G)
    BY DEF On, OnTree
  <1>3. t \in Seq(NodeOf(S))
    <2>1. n \in 0 .. n
      OBVIOUS
    <2> QED
      BY <2>1, GrownAt
  <1>4. Chosens(u) = Chosens(t)
    <2> HIDE DEF t, u
    <2> QED
      BY <1>1, <1>2, <1>3, OnChosens
  <1>5. c \in 1 .. m /\ citems[c] = items[c]
    BY <1>1
  <1>6. TreeOf(FirstItems(citems, c)) = TreeOf(FirstItems(items, c))
    <2>1. FirstItems(citems, c) = FirstItems(items, c)
      BY DEF FirstItems
    <2> QED
      BY <2>1
  <1>7. Spot(citems, m, c)
    <2> HIDE DEF t, u
    <2>1. Chosens(t) # {} /\ Len(TreeOf(FirstItems(items, c))) = Least(Chosens(t))
      BY DEF Spot, t
    <2> QED
      BY <1>1, <1>4, <1>5, <1>6, <2>1 DEF Spot, u
  <1> QED
    BY <1>1, <1>2, <1>3, <1>7 DEF Renewed

(* One more property first.                                                *)
Lead(P, y) == [ps \in Seq(P) |-> <<y>> \o ps]

LEMMA LeadCommutes ==
  ASSUME NEW P, NEW y \in P
  PROVE  Commutes(Lead(P, y), Seq(P), P)
  <1>1. \A ps \in Seq(P) : <<y>> \o ps \in Seq(P)
    OBVIOUS
  <1>2. ASSUME NEW ps \in Seq(P), NEW x \in P
        PROVE  Append(ps, x) \in Seq(P) /\ <<y>> \o Append(ps, x) = Append(<<y>> \o ps, x)
    OBVIOUS
  <1>3. Lead(P, y) \in [Seq(P) -> Seq(P)]
    BY <1>1 DEF Lead
  <1>4. ASSUME NEW ps \in Seq(P), NEW x \in P
        PROVE  Append(ps, x) \in Seq(P) /\ Lead(P, y)[Append(ps, x)] = Append(Lead(P, y)[ps], x)
    BY <1>2 DEF Lead
  <1> QED
    BY <1>3, <1>4 DEF Commutes

(* Another value of the first property that has the name. *)
FirstAt(P, q, p) ==
  {ps \in Seq(P) : q <= Len(ps) /\ ps[q].name = p /\ \A j \in 1 .. q - 1 : ps[j].name # p}
Swap(P, q, p, y) == [ps \in FirstAt(P, q, p) |-> [ps EXCEPT ![q] = y]]

LEMMA SwapCommutes ==
  ASSUME NEW P, NEW q \in Nat, q >= 1, NEW p, NEW y \in P
  PROVE  Commutes(Swap(P, q, p, y), FirstAt(P, q, p), P)
  <1> DEFINE D == FirstAt(P, q, p)
             G == Swap(P, q, p, y)
  <1>1. D \subseteq Seq(P)
    BY DEF FirstAt
  <1>2. ASSUME NEW ps \in D
        PROVE  ps \in Seq(P) /\ Len(ps) \in Nat /\ q \in 1 .. Len(ps)
               /\ [ps EXCEPT ![q] = y] \in Seq(P) /\ G[ps] = [ps EXCEPT ![q] = y]
    <2>1. ps \in Seq(P) /\ q <= Len(ps)
      BY DEF FirstAt
    <2>2. Len(ps) \in Nat /\ q \in 1 .. Len(ps)
      BY <2>1
    <2>3. [ps EXCEPT ![q] = y] \in Seq(P)
      BY <2>1, <2>2
    <2> QED
      BY <2>1, <2>2, <2>3 DEF Swap
  <1>3. G \in [D -> Seq(P)]
    <2>1. G = [ps \in D |-> [ps EXCEPT ![q] = y]]
      BY DEF Swap
    <2> HIDE DEF G, D
    <2> QED
      BY <1>2, <2>1
  <1>4. ASSUME NEW ps \in D, NEW x \in P
        PROVE  Append(ps, x) \in D /\ G[Append(ps, x)] = Append(G[ps], x)
    <2>1. ps \in Seq(P) /\ Len(ps) \in Nat /\ q \in 1 .. Len(ps) /\ G[ps] = [ps EXCEPT ![q] = y]
          /\ [ps EXCEPT ![q] = y] \in Seq(P)
      BY <1>2
    <2>2. Append(ps, x) \in Seq(P) /\ Len(Append(ps, x)) = Len(ps) + 1
          /\ Append(ps, x)[Len(ps) + 1] = x
          /\ \A j \in 1 .. Len(ps) : Append(ps, x)[j] = ps[j]
      BY <2>1
    <2>3. Append(ps, x) \in D
      <3>1. ps[q].name = p /\ \A j \in 1 .. q - 1 : ps[j].name # p
        BY DEF FirstAt
      <3>2. Append(ps, x)[q].name = p
        BY <2>1, <2>2, <3>1
      <3>3. ASSUME NEW j \in 1 .. q - 1 PROVE Append(ps, x)[j].name # p
        <4>1. j \in 1 .. Len(ps)
          BY <2>1
        <4> QED
          BY <2>2, <3>1, <4>1
      <3>4. q <= Len(Append(ps, x))
        BY <2>1, <2>2
      <3> QED
        BY <2>2, <3>2, <3>3, <3>4 DEF FirstAt
    <2>4. G[Append(ps, x)] = [Append(ps, x) EXCEPT ![q] = y]
      BY <2>3, <1>2
    <2>5. [Append(ps, x) EXCEPT ![q] = y] = Append([ps EXCEPT ![q] = y], x)
      <3> DEFINE k == Len(ps)
                 w == Append(ps, x)
                 a == [w EXCEPT ![q] = y]
                 e == [ps EXCEPT ![q] = y]
                 z == Append(e, x)
      <3>0. DOMAIN w = 1 .. k + 1 /\ w[k + 1] = x /\ (\A j \in 1 .. k : w[j] = ps[j])
            /\ DOMAIN ps = 1 .. k /\ k \in Nat /\ q \in 1 .. k
        BY <2>1, <2>2
      <3>1. DOMAIN a = 1 .. k + 1 /\ a = [j \in 1 .. k + 1 |-> a[j]]
        <4> HIDE DEF w, k
        <4> QED
          BY <3>0
      <3>2. e \in Seq(P) /\ Len(e) = k
        BY <2>1
      <3>3. Len(z) = k + 1 /\ z[k + 1] = x /\ (\A j \in 1 .. k : z[j] = e[j]) /\ z \in Seq(P)
        <4> HIDE DEF e
        <4> QED
          BY <2>1, <3>2
      <3>4. z = [j \in 1 .. k + 1 |-> z[j]]
        <4> HIDE DEF z
        <4> QED
          BY <3>3
      <3>5. ASSUME NEW j \in 1 .. k + 1 PROVE a[j] = z[j]
        <4>1. CASE j = k + 1
          <5>1. a[j] = x
            <6> HIDE DEF w, k
            <6> QED
              BY <3>0, <4>1
          <5> HIDE DEF a, z
          <5> QED
            BY <3>3, <4>1, <5>1
        <4>2. CASE j # k + 1
          <5>1. j \in 1 .. k
            BY <2>1, <4>2
          <5>2. a[j] = e[j]
            <6> HIDE DEF w, k
            <6> QED
              BY <3>0, <5>1
          <5> HIDE DEF a, z
          <5> QED
            BY <3>3, <5>1, <5>2
        <4> QED
          BY <4>1, <4>2
      <3>6. a = z
        <4> HIDE DEF a, z
        <4> QED
          BY <3>1, <3>4, <3>5
      <3> QED
        BY <3>6
    <2> QED
      BY <2>1, <2>3, <2>4, <2>5
  <1> QED
    BY <1>1, <1>3, <1>4 DEF Commutes

-----------------------------------------------------------------------------
LEMMA NodeIs ==
  ASSUME NEW S, NEW t \in Seq(NodeOf(S)), NEW L \in 1 .. Len(t)
  PROVE  /\ t[L] = [depth |-> t[L].depth, name |-> t[L].name, props |-> t[L].props]
         /\ t[L].props \in Seq(Prop(S)) /\ L \in DOMAIN t
  <1> DEFINE V == NodeOf(S)
  <1>1. t \in Seq(V) /\ L \in 1 .. Len(t)
    OBVIOUS
  <1>2. t[L] \in V /\ L \in DOMAIN t
    <2> HIDE DEF V
    <2> QED
      BY <1>1
  <1> QED
    BY <1>2 DEF NodeOf

LEMMA PropsIn ==
  ASSUME NEW P, NEW ps \in Seq(P)
  PROVE  DOMAIN ps = 1 .. Len(ps) /\ Len(ps) \in Nat /\ \A j \in 1 .. Len(ps) : ps[j] \in P
  OBVIOUS

LEMMA WithPropNew ==
  ASSUME NEW S, NEW t \in Seq(NodeOf(S)), NEW L \in 1 .. Len(t), L = Least(Chosens(t)),
         NEW p, NEW v, Nameless(t[L].props, p)
  PROVE  WithProp(t, p, v) = OnTree(t, L, Lead(Prop(S), [name |-> p, val |-> v]))
  <1> DEFINE y == [name |-> p, val |-> v]
             ps == t[L].props
             at == {k \in DOMAIN ps : ps[k].name = p}
             P == Prop(S)
  <1>1. /\ t[L] = [depth |-> t[L].depth, name |-> t[L].name, props |-> ps]
        /\ ps \in Seq(P) /\ L \in DOMAIN t
    BY NodeIs
  <1>2. at = {}
    <2>1. DOMAIN ps = 1 .. Len(ps)
      <3> HIDE DEF ps, P
      <3> QED
        BY <1>1, PropsIn
    <2> HIDE DEF P
    <2> QED
      BY <2>1 DEF Nameless
  <1>3. WithProp(t, p, v) = [t EXCEPT ![L] = [t[L] EXCEPT !.props = <<y>> \o ps]]
    <2>1. WithProp(t, p, v) = IF at = {} THEN [t EXCEPT ![L].props = <<y>> \o @]
                              ELSE [t EXCEPT ![L].props[Least(at)].val = v]
      BY DEF WithProp
    <2>2. WithProp(t, p, v) = [t EXCEPT ![L].props = <<y>> \o @]
      BY <1>2, <2>1
    <2> HIDE DEF y, at
    <2> QED
      BY <2>2
  <1>4. [t[L] EXCEPT !.props = <<y>> \o ps]
        = [depth |-> t[L].depth, name |-> t[L].name, props |-> <<y>> \o ps]
    <2> DEFINE r == <<y>> \o ps
               d == t[L].depth
               z == t[L].name
    <2>1. t[L] = [depth |-> d, name |-> z, props |-> ps]
      BY <1>1
    <2> HIDE DEF r, d, z, ps
    <2>2. [t[L] EXCEPT !.props = r] = [depth |-> d, name |-> z, props |-> r]
      BY <2>1
    <2> QED
      BY <2>2 DEF r, d, z
  <1>5. Lead(P, y)[ps] = <<y>> \o ps
    <2> HIDE DEF P, y, ps
    <2> QED
      BY <1>1 DEF Lead
  <1>6. OnNode(t[L], Lead(P, y)) = [depth |-> t[L].depth, name |-> t[L].name, props |-> <<y>> \o ps]
    BY <1>5 DEF OnNode
  <1>7. WithProp(t, p, v) = [t EXCEPT ![L] = OnNode(t[L], Lead(P, y))]
    <2> HIDE DEF y, P, ps
    <2> QED
      BY <1>3, <1>4, <1>6
  <1> HIDE DEF ps
  <1> QED
    BY <1>7 DEF OnTree

LEMMA WithPropOld ==
  ASSUME NEW S, NEW t \in Seq(NodeOf(S)), NEW L \in 1 .. Len(t), L = Least(Chosens(t)),
         NEW p, NEW v, NEW q \in Nat, q >= 1, t[L].props \in FirstAt(Prop(S), q, p)
  PROVE  WithProp(t, p, v) = OnTree(t, L, Swap(Prop(S), q, p, [name |-> p, val |-> v]))
  <1> DEFINE y == [name |-> p, val |-> v]
             ps == t[L].props
             at == {k \in DOMAIN ps : ps[k].name = p}
             P == Prop(S)
             ys == [ps EXCEPT ![q] = y]
  <1>1. /\ t[L] = [depth |-> t[L].depth, name |-> t[L].name, props |-> ps]
        /\ ps \in Seq(P) /\ L \in DOMAIN t
    BY NodeIs
  <1>2. /\ q <= Len(ps) /\ ps[q].name = p /\ \A j \in 1 .. q - 1 : ps[j].name # p
    BY DEF FirstAt
  <1>3. DOMAIN ps = 1 .. Len(ps) /\ Len(ps) \in Nat /\ \A j \in 1 .. Len(ps) : ps[j] \in P
    <2> HIDE DEF ps, P
    <2> QED
      BY <1>1, PropsIn
  <1>4. q \in at
    <2> HIDE DEF ps, P
    <2> QED
      BY <1>2, <1>3
  <1>5. at \subseteq Nat /\ at # {}
    <2>1. at # {}
      BY <1>4
    <2> HIDE DEF ps, P
    <2> QED
      BY <1>3, <2>1
  <1>6. Least(at) \in at /\ \A j \in at : Least(at) <= j
    <2> HIDE DEF at
    <2> QED
      BY <1>5, LeastOf
  <1>7. Least(at) = q
    <2> DEFINE l == Least(at)
    <2>1. l \in at /\ l <= q
      BY <1>4, <1>6
    <2>2. l \in Nat /\ l >= 1 /\ ps[l].name = p
      <3> HIDE DEF l, ps, P
      <3> QED
        BY <1>3, <2>1
    <2> HIDE DEF l, at, ps, P
    <2>3. l \notin 1 .. q - 1
      BY <1>2, <2>2
    <2>4. l = q
      BY <2>1, <2>2, <2>3
    <2> QED
      BY <2>4 DEF l
  <1>8. WithProp(t, p, v) = [t EXCEPT ![L].props[q].val = v]
    <2>1. WithProp(t, p, v) = IF at = {} THEN [t EXCEPT ![L].props = <<y>> \o @]
                              ELSE [t EXCEPT ![L].props[Least(at)].val = v]
      BY DEF WithProp
    <2> HIDE DEF at
    <2> QED
      BY <1>5, <1>7, <2>1
  <1>9. [ps[q] EXCEPT !.val = v] = y
    <2>1. ps[q] \in P /\ ps[q].name = p
      <3> HIDE DEF ps, P
      <3> QED
        BY <1>2, <1>3
    <2> HIDE DEF ps
    <2> QED
      BY <2>1 DEF Prop
  <1>10. WithProp(t, p, v) = [t EXCEPT ![L] = [t[L] EXCEPT !.props = ys]]
    <2>1. WithProp(t, p, v) = [t EXCEPT ![L] =
             [t[L] EXCEPT !.props = [t[L].props EXCEPT ![q] = [t[L].props[q] EXCEPT !.val = v]]]]
      BY <1>8
    <2> HIDE DEF y, P
    <2> QED
      BY <1>9, <2>1
  <1>11. [t[L] EXCEPT !.props = ys] = [depth |-> t[L].depth, name |-> t[L].name, props |-> ys]
    <2> DEFINE d == t[L].depth
               z == t[L].name
    <2>1. t[L] = [depth |-> d, name |-> z, props |-> ps]
      BY <1>1
    <2> HIDE DEF ys, d, z, ps
    <2>2. [t[L] EXCEPT !.props = ys] = [depth |-> d, name |-> z, props |-> ys]
      BY <2>1
    <2> QED
      BY <2>2 DEF d, z
  <1>12. Swap(P, q, p, y)[ps] = ys
    <2>1. ps \in FirstAt(P, q, p)
      OBVIOUS
    <2> HIDE DEF P, y, ps
    <2> QED
      BY <2>1 DEF Swap
  <1>13. OnNode(t[L], Swap(P, q, p, y)) = [depth |-> t[L].depth, name |-> t[L].name, props |-> ys]
    <2> HIDE DEF ys, y, P
    <2> QED
      BY <1>12 DEF OnNode
  <1>14. WithProp(t, p, v) = [t EXCEPT ![L] = OnNode(t[L], Swap(P, q, p, y))]
    <2> HIDE DEF y, P, ys, ps
    <2> QED
      BY <1>10, <1>11, <1>13
  <1> HIDE DEF ps
  <1> QED
    BY <1>14 DEF OnTree

-----------------------------------------------------------------------------
Indexed(items, n) == items = [i \in 1 .. n |-> items[i]]

IsPut(citems, items, n, k, s, it) ==
  /\ \A i \in 1 .. k : citems[i] = items[i]
  /\ citems[k + 1] = it
  /\ \A i \in (k + 2) - s .. n : citems[i + s] = items[i]

LEMMA TreeOfIs ==
  ASSUME NEW S, NEW n \in Nat, NEW items, Indexed(items, n),
         \A i \in 1 .. n : items[i] \in ItemOf(S)
  PROVE  \E f : Grown(f, n, items, S) /\ TreeOf(items) = f[n].seq
  BY TreeIs DEF Indexed

LEMMA PutIs ==
  ASSUME NEW n \in Nat, NEW k \in Nat, NEW s \in {0, 1}, k < n, NEW items, NEW it,
         NEW citems, citems = Put(items, n, k, s, it)
  PROVE  Indexed(citems, n + s) /\ n + s \in Nat /\ IsPut(citems, items, n, k, s, it)
  <1>1. citems = [i \in 1 .. n + s |-> IF i <= k THEN items[i] ELSE IF i = k + 1 THEN it
                                        ELSE items[i - s]]
    BY DEF Put
  <1>2. \A i \in 1 .. n + s : citems[i] = IF i <= k THEN items[i] ELSE IF i = k + 1 THEN it
                                           ELSE items[i - s]
    BY <1>1
  <1>3. citems = [i \in 1 .. n + s |-> citems[i]]
    BY <1>1
  <1>4. \A i \in 1 .. k : citems[i] = items[i]
    <2>1. \A i \in 1 .. k : i \in 1 .. n + s /\ i <= k
      OBVIOUS
    <2> QED
      BY <1>2, <2>1
  <1>5. citems[k + 1] = it
    <2>1. k + 1 \in 1 .. n + s /\ ~(k + 1 <= k)
      OBVIOUS
    <2> QED
      BY <1>2, <2>1
  <1>6. ASSUME NEW i \in (k + 2) - s .. n PROVE citems[i + s] = items[i]
    <2>1. i + s \in 1 .. n + s /\ ~(i + s <= k) /\ i + s # k + 1 /\ (i + s) - s = i
      OBVIOUS
    <2> DEFINE j == i + s
    <2>2. j \in 1 .. n + s /\ ~(j <= k) /\ j # k + 1 /\ j - s = i
      BY <2>1
    <2> HIDE DEF j
    <2>3. citems[j] = items[j - s]
      BY <1>2, <2>2
    <2> QED
      BY <2>2, <2>3 DEF j
  <1>7. n + s \in Nat /\ Indexed(citems, n + s)
    BY <1>3 DEF Indexed
  <1>8. IsPut(citems, items, n, k, s, it)
    BY <1>4, <1>5, <1>6 DEF IsPut
  <1> QED
    BY <1>7, <1>8

LEMMA PutType ==
  ASSUME NEW S, NEW n \in Nat, NEW items, \A i \in 1 .. n : items[i] \in ItemOf(S),
         NEW k \in Nat, NEW s \in {0, 1}, k < n, NEW it \in ItemOf(S)
  PROVE  \A i \in 1 .. n + s : Put(items, n, k, s, it)[i] \in ItemOf(S)
  <1> DEFINE citems == Put(items, n, k, s, it)
  <1>1. /\ \A i \in 1 .. k : citems[i] = items[i]
        /\ citems[k + 1] = it
        /\ \A i \in (k + 2) - s .. n : citems[i + s] = items[i]
    <2>1. IsPut(citems, items, n, k, s, it)
      <3> HIDE DEF citems
      <3>1. citems = Put(items, n, k, s, it)
        BY DEF citems
      <3> QED
        BY <3>1, PutIs
    <2> HIDE DEF citems
    <2> QED
      BY <2>1 DEF IsPut
  <1> HIDE DEF citems
  <1> SUFFICES ASSUME NEW j \in 1 .. n + s PROVE citems[j] \in ItemOf(S)
    BY DEF citems
  <1>2. CASE j <= k
    <2>1. j \in 1 .. k /\ j \in 1 .. n
      BY <1>2
    <2> QED
      BY <1>1, <2>1
  <1>3. CASE j = k + 1
    BY <1>1, <1>3
  <1>4. CASE ~(j <= k) /\ j # k + 1
    <2> DEFINE i == j - s
    <2>1. i \in (k + 2) - s .. n /\ i + s = j /\ i \in 1 .. n
      BY <1>4
    <2> HIDE DEF i
    <2>2. citems[i + s] = items[i]
      BY <1>1, <2>1
    <2> QED
      BY <2>1, <2>2
  <1> QED
    BY <1>2, <1>3, <1>4

LEMMA InsertStep ==
  ASSUME NEW S, NEW g \in Growth(S), NEW L, L = Len(g.seq), L >= 1, g.seq[L].props = << >>,
         NEW it \in ItemOf(S), it.tag = FDT_PROP, NEW y, y = PropOf(it)
  PROVE  Grow(g, it) = On(g, L, Lead(Prop(S), y))
  <1> DEFINE P == Prop(S)
             G == Lead(P, y)
             u == g.seq
             V == NodeOf(S)
             r == Grow(g, it)
  <1>1. u \in Seq(V) /\ L \in Nat /\ L >= 1 /\ u[L].props = << >>
    <2>1. u \in Seq(V)
      BY DEF Growth
    <2> HIDE DEF V
    <2> QED
      BY <2>1
  <1>4. r \in Growth(S) /\ Grew(g, it, r)
    BY GrowIs
  <1> HIDE DEF r
  <1>5. /\ r.depth = g.depth
        /\ r.seq = [l \in 1 .. Len(u) |-> IF l = Len(u) THEN WithLast(u[l], PropOf(it)) ELSE u[l]]
    BY <1>4 DEF Grew
  <1>6. u = [l \in 1 .. L |-> u[l]] /\ u[L] \in V
    <2> HIDE DEF V, u
    <2>1. u \in Seq(V) /\ L = Len(u)
      BY <1>1 DEF u
    <2> QED
      BY <1>1, <2>1
  <1>7. WithLast(u[L], y) = OnNode(u[L], G)
    <2> DEFINE w == u[L]
    <2>1. w \in V /\ w.props = << >>
      BY <1>1, <1>6
    <2> HIDE DEF w
    <2>2. w = [depth |-> w.depth, name |-> w.name, props |-> << >>]
      BY <2>1 DEF NodeOf
    <2>3. G[<< >>] = <<y>> \o << >>
      <3> HIDE DEF P
      <3> QED
        BY DEF Lead
    <2>4. <<y>> \o << >> = Append(<< >>, y)
      OBVIOUS
    <2>5. WithLast(w, y) = [depth |-> w.depth, name |-> w.name, props |-> Append(<< >>, y)]
      <3> DEFINE a == w.depth
                 e == w.name
      <3>1. w = [depth |-> a, name |-> e, props |-> << >>]
        BY <2>2
      <3> HIDE DEF a, e
      <3>2. WithLast(w, y) = [depth |-> a, name |-> e, props |-> Append(<< >>, y)]
        BY <3>1 DEF WithLast
      <3> QED
        BY <3>2 DEF a, e
    <2> HIDE DEF G
    <2>6. OnNode(w, G) = [depth |-> w.depth, name |-> w.name, props |-> G[<< >>]]
      BY <2>1 DEF OnNode
    <2>7. WithLast(w, y) = OnNode(w, G)
      BY <2>3, <2>4, <2>5, <2>6
    <2> QED
      BY <2>7 DEF w
  <1>8. r.seq = [u EXCEPT ![L] = OnNode(u[L], G)]
    <2> DEFINE x == OnNode(u[L], G)
    <2>1. r.seq = [l \in 1 .. L |-> IF l = L THEN x ELSE u[l]]
      BY <1>5, <1>7
    <2> HIDE DEF x, u
    <2>2. [u EXCEPT ![L] = x] = [l \in 1 .. L |-> IF l = L THEN x ELSE u[l]]
      BY <1>1, <1>6
    <2> QED
      BY <2>1, <2>2 DEF x
  <1>9. r = [depth |-> r.depth, seq |-> r.seq]
    BY <1>4 DEF Growth
  <1>10. r = On(g, L, G)
    <2> HIDE DEF G
    <2> QED
      BY <1>5, <1>8, <1>9 DEF On
  <1> QED
    BY <1>10 DEF r

(* A property put first in the node of the settings, which has none of     *)
(* that name.                                                              *)
LEMMA InsertTree ==
  ASSUME NEW S, NEW n \in Nat, NEW items, Indexed(items, n),
         \A i \in 1 .. n : items[i] \in ItemOf(S), Orderly(items),
         NEW c, Spot(items, n, c), NEW p \in S, NEW v \in S,
         NEW K \in c + 1 .. n, Run(items, p, c + 1, K), items[K].tag \notin {FDT_PROP, FDT_NOP},
         NEW it, it = [tag |-> FDT_PROP, name |-> p, val |-> v],
         NEW citems, citems = Put(items, n, c, 1, it)
  PROVE  Spot(citems, n + 1, c) /\ TreeOf(citems) = WithProp(TreeOf(items), p, v)
  <1>1. PICK m, y, G, D :
          m = n + 1 /\ y = [name |-> p, val |-> v] /\ G = Lead(Prop(S), y) /\ D = Seq(Prop(S))
    OBVIOUS
  <1>2. c \in 1 .. n /\ items[c].tag = FDT_BEGIN_NODE /\ c \in Nat /\ c < n /\ m \in Nat
        /\ c <= m /\ c \in 0 .. n
    BY <1>1 DEF Spot
  <1>3. it \in ItemOf(S) /\ it.tag = FDT_PROP /\ y = PropOf(it)
    <2>1. it.tag \in Kinds
      BY DEF Kinds
    <2> QED
      BY <1>1, <2>1 DEF ItemOf, PropOf
  <1>4. /\ Indexed(citems, m)
        /\ \A i \in 1 .. c : citems[i] = items[i]
        /\ citems[c + 1] = it
        /\ Shifted(items, citems, c, n, 1)
    <2>1. (c + 2) - 1 = c + 1
      BY <1>2
    <2>2. Indexed(citems, n + 1) /\ IsPut(citems, items, n, c, 1, it)
      BY <1>2, PutIs
    <2> QED
      BY <1>1, <2>1, <2>2 DEF IsPut, Shifted
  <1>5. \A i \in 1 .. m : citems[i] \in ItemOf(S)
    BY <1>1, <1>2, <1>3, PutType
  <1>6. PICK f : Grown(f, n, items, S) /\ TreeOf(items) = f[n].seq
    BY TreeOfIs
  <1>7. PICK h : Grown(h, m, citems, S) /\ TreeOf(citems) = h[m].seq
    BY <1>2, <1>4, <1>5, TreeOfIs
  <1>8. PICK L : L = Len(f[c].seq)
    OBVIOUS
  <1>9. f[c] \in Growth(S) /\ L \in Nat /\ L >= 1 /\ f[c].seq[L].props = << >>
    <2>1. f[c] \in Growth(S)
      BY <1>2, <1>6, GrownAt
    <2>2. L >= 1 /\ L \in Nat /\ PropsAt(f, c, L) = << >>
      BY <1>2, <1>6, <1>8, PropsNone
    <2> QED
      BY <2>1, <2>2 DEF PropsAt
  <1>10. h[c + 1] = On(f[c], L, G)
    <2>1. h[c] = f[c]
      <3>1. c <= n /\ c <= m /\ c \in 0 .. c
        BY <1>2
      <3>2. \A i \in 0 .. c : h[i] = f[i]
        BY <1>2, <1>4, <1>6, <1>7, <3>1, SamePrefix
      <3> QED
        BY <3>1, <3>2
    <2>2. h[c + 1] = Grow(h[(c + 1) - 1], citems[c + 1])
      <3>1. c + 1 \in 1 .. m
        BY <1>1, <1>2
      <3> QED
        BY <1>7, <3>1 DEF Grown
    <2>3. h[c + 1] = Grow(f[c], it)
      <3>1. (c + 1) - 1 = c
        BY <1>2
      <3> QED
        BY <1>4, <2>1, <2>2, <3>1
    <2>4. Grow(f[c], it) = On(f[c], L, G)
      BY <1>1, <1>3, <1>8, <1>9, InsertStep
    <2> QED
      BY <2>3, <2>4
  <1>11. OnAt(f, c, L, G, D, S)
    <2>1. y \in Prop(S)
      BY <1>1 DEF Prop
    <2>2. Commutes(G, D, Prop(S))
      BY <1>1, <2>1, LeadCommutes
    <2>3. << >> \in Seq(Prop(S)) /\ L \in 1 .. L
      BY <1>9
    <2> QED
      BY <1>1, <1>8, <1>9, <2>2, <2>3 DEF OnAt
  <1>12. h[m] = On(f[n], L, G)
    BY <1>1, <1>2, <1>4, <1>6, <1>7, <1>10, <1>11, Later
  <1>13. Renewed(items, citems, m, c, L, G, S)
    <2>1. c <= m /\ m \in Nat /\ (\A i \in 1 .. c : citems[i] = items[i])
      BY <1>2, <1>4
    <2> QED
      BY <1>5, <1>6, <1>7, <1>8, <1>12, <2>1, NewTree
  <1>14. Nameless(TreeOf(items)[L].props, p)
    <2>1. n \in c .. n
      BY <1>2
    <2>2. DOMAIN items = 1 .. n
      BY DEF Indexed
    <2>3. Nameless(PropsAt(f, n, Len(f[c].seq)), p)
      BY <1>2, <1>6, <2>1, <2>2, RunEnd
    <2> QED
      BY <1>6, <1>8, <2>3 DEF PropsAt
  <1>15. WithProp(TreeOf(items), p, v) = OnTree(TreeOf(items), L, G)
    BY <1>1, <1>13, <1>14, WithPropNew DEF Renewed
  <1> QED
    BY <1>1, <1>13, <1>15 DEF Renewed

-----------------------------------------------------------------------------
GrewProp(g, it, L, y, S) ==
  /\ Grow(g, it) = [depth |-> g.depth, seq |-> [g.seq EXCEPT ![L] = WithLast(g.seq[L], y)]]
  /\ L \in 1 .. L /\ DOMAIN g.seq = 1 .. L /\ g.seq[L] \in NodeOf(S)
  /\ g.seq[L].props \in Seq(Prop(S)) /\ y \in Prop(S)
  /\ WithLast(g.seq[L], y) = [depth |-> g.seq[L].depth, name |-> g.seq[L].name,
                              props |-> Append(g.seq[L].props, y)]

LEMMA GrowProp ==
  ASSUME NEW S, NEW g \in Growth(S), NEW L, L = Len(g.seq), L >= 1,
         NEW it \in ItemOf(S), it.tag = FDT_PROP, NEW y, y = PropOf(it)
  PROVE  GrewProp(g, it, L, y, S)
  <1> DEFINE u == g.seq
             V == NodeOf(S)
             r == Grow(g, it)
             w == u[L]
             x == WithLast(w, y)
  <1>1. u \in Seq(V) /\ L \in Nat /\ L >= 1 /\ DOMAIN u = 1 .. L /\ w \in V
    <2>1. u \in Seq(V)
      BY DEF Growth
    <2> HIDE DEF V
    <2> QED
      BY <2>1
  <1>4. r \in Growth(S) /\ Grew(g, it, r)
    BY GrowIs
  <1> HIDE DEF r
  <1>5. /\ r.depth = g.depth
        /\ r.seq = [l \in 1 .. Len(u) |-> IF l = Len(u) THEN WithLast(u[l], PropOf(it)) ELSE u[l]]
    BY <1>4 DEF Grew
  <1>6. u = [l \in 1 .. L |-> u[l]]
    <2> HIDE DEF V, u
    <2>1. u \in Seq(V) /\ L = Len(u)
      BY <1>1 DEF u
    <2> QED
      BY <1>1, <2>1
  <1>7. r.seq = [u EXCEPT ![L] = x]
    <2>1. r.seq = [l \in 1 .. L |-> IF l = L THEN x ELSE u[l]]
      BY <1>5
    <2> HIDE DEF x, u
    <2> QED
      BY <1>1, <1>6, <2>1
  <1>8. r = [depth |-> r.depth, seq |-> r.seq]
    BY <1>4 DEF Growth
  <1>9. y \in Prop(S)
    BY DEF PropOf, Prop, ItemOf
  <1>10. w.props \in Seq(Prop(S)) /\ x = [depth |-> w.depth, name |-> w.name,
                                          props |-> Append(w.props, y)]
    <2> HIDE DEF w
    <2>1. w = [depth |-> w.depth, name |-> w.name, props |-> w.props] /\ w.props \in Seq(Prop(S))
      BY <1>1 DEF NodeOf
    <2> DEFINE a == w.depth
               e == w.name
               ps == w.props
    <2>2. w = [depth |-> a, name |-> e, props |-> ps]
      BY <2>1
    <2> HIDE DEF a, e, ps
    <2>3. WithLast(w, y) = [depth |-> a, name |-> e, props |-> Append(ps, y)]
      <3>1. w.props = ps /\ WithLast(w, y) = [w EXCEPT !.props = Append(w.props, y)]
        BY <2>2 DEF WithLast
      <3> DEFINE j == Append(ps, y)
      <3>2. WithLast(w, y) = [w EXCEPT !.props = j]
        BY <3>1
      <3> HIDE DEF j
      <3>3. WithLast(w, y) = [depth |-> a, name |-> e, props |-> j]
        BY <2>2, <3>2
      <3> QED
        BY <3>3 DEF j
    <2> QED
      BY <2>1, <2>3 DEF a, e, ps
  <1>11. r = [depth |-> g.depth, seq |-> [u EXCEPT ![L] = x]]
    <2> HIDE DEF x, u
    <2> QED
      BY <1>5, <1>7, <1>8
  <1> QED
    BY <1>1, <1>9, <1>10, <1>11 DEF r, GrewProp

LEMMA SwapLast ==
  ASSUME NEW P, NEW ps \in Seq(P), NEW p, Nameless(ps, p), NEW z \in P, z.name = p,
         NEW y \in P, NEW q, q = Len(ps) + 1
  PROVE  /\ Append(ps, z) \in FirstAt(P, q, p) /\ q \in Nat /\ q >= 1
         /\ Swap(P, q, p, y)[Append(ps, z)] = Append(ps, y)
  <1> DEFINE a == Append(ps, z)
             e == Append(ps, y)
  <1>1. /\ a \in Seq(P) /\ Len(a) = q /\ a[q] = z /\ \A j \in 1 .. q - 1 : a[j] = ps[j]
        /\ e \in Seq(P) /\ Len(e) = q /\ e[q] = y /\ \A j \in 1 .. q - 1 : e[j] = ps[j]
        /\ q \in Nat /\ q >= 1 /\ Len(ps) = q - 1
    OBVIOUS
  <1> HIDE DEF a, e
  <1>2. a \in FirstAt(P, q, p)
    BY <1>1 DEF FirstAt, Nameless
  <1>3. Swap(P, q, p, y)[a] = [a EXCEPT ![q] = y]
    BY <1>2 DEF Swap
  <1>4. [a EXCEPT ![q] = y] = e
    <2>1. a = [j \in 1 .. q |-> a[j]] /\ e = [j \in 1 .. q |-> e[j]]
      BY <1>1
    <2>2. DOMAIN a = 1 .. q
      BY <1>1
    <2> DEFINE b == [a EXCEPT ![q] = y]
    <2>3. b = [j \in 1 .. q |-> IF j = q THEN y ELSE a[j]]
      BY <2>1, <2>2
    <2>4. \A j \in 1 .. q : b[j] = e[j]
      <3> SUFFICES ASSUME NEW j \in 1 .. q PROVE b[j] = e[j]
        OBVIOUS
      <3>1. b[j] = IF j = q THEN y ELSE a[j]
        BY <2>3
      <3>2. CASE j = q
        BY <1>1, <3>1, <3>2
      <3>3. CASE j # q
        <4>1. j \in 1 .. q - 1
          BY <1>1, <3>3
        <4> HIDE DEF b
        <4> QED
          BY <1>1, <3>1, <3>3, <4>1
      <3> QED
        BY <3>2, <3>3
    <2>5. b = [j \in 1 .. q |-> b[j]]
      BY <2>3
    <2> HIDE DEF b
    <2> QED
      BY <2>1, <2>4, <2>5 DEF b
  <1> QED
    BY <1>1, <1>2, <1>3, <1>4 DEF a, e

HasChanged(g, old, it, L, q, p, y, S) ==
  /\ Grow(g, it) = On(Grow(g, old), L, Swap(Prop(S), q, p, y))
  /\ L \in 1 .. Len(Grow(g, old).seq) /\ q \in Nat /\ q >= 1 /\ y \in Prop(S)
  /\ Grow(g, old).seq[L].props \in FirstAt(Prop(S), q, p)

LEMMA ChangeStep ==
  ASSUME NEW S, NEW g \in Growth(S), NEW L, L = Len(g.seq), L >= 1,
         NEW p, Nameless(g.seq[L].props, p),
         NEW old \in ItemOf(S), old.tag = FDT_PROP, old.name = p,
         NEW it \in ItemOf(S), it.tag = FDT_PROP, NEW y, y = PropOf(it),
         NEW q, q = Len(g.seq[L].props) + 1
  PROVE  HasChanged(g, old, it, L, q, p, y, S)
  <1> DEFINE u == g.seq
             w == u[L]
             z == PropOf(old)
             r == Grow(g, old)
             x == WithLast(w, z)
             k == WithLast(w, y)
             G == Swap(Prop(S), q, p, y)
             P == Prop(S)
             ps == w.props
  <1>1. /\ r = [depth |-> g.depth, seq |-> [u EXCEPT ![L] = x]]
        /\ L \in 1 .. L /\ DOMAIN u = 1 .. L
        /\ ps \in Seq(P) /\ z \in P
        /\ x = [depth |-> w.depth, name |-> w.name, props |-> Append(ps, z)]
    <2>1. GrewProp(g, old, L, z, S)
      BY GrowProp
    <2> QED
      BY <2>1 DEF GrewProp
  <1>2. /\ Grow(g, it) = [depth |-> g.depth, seq |-> [u EXCEPT ![L] = k]] /\ y \in P
        /\ k = [depth |-> w.depth, name |-> w.name, props |-> Append(ps, y)]
    <2>1. GrewProp(g, it, L, y, S)
      BY GrowProp
    <2> QED
      BY <2>1 DEF GrewProp
  <1>3. z.name = p
    BY DEF PropOf
  <1> HIDE DEF r, z
  <1>4. /\ Append(ps, z) \in FirstAt(P, q, p) /\ q \in Nat /\ q >= 1
        /\ G[Append(ps, z)] = Append(ps, y)
    <2> HIDE DEF P
    <2> QED
      BY <1>1, <1>2, <1>3, SwapLast DEF P
  <1> HIDE DEF G, P, x, k, ps
  <1>5. OnNode(x, G) = k
    <2>1. x.depth = w.depth /\ x.name = w.name /\ x.props = Append(ps, z)
      BY <1>1
    <2> QED
      BY <1>2, <1>4, <2>1 DEF OnNode
  <1>6. r.seq = [u EXCEPT ![L] = x] /\ r.depth = g.depth
    BY <1>1
  <1>7. r.seq[L] = x
    BY <1>1, <1>6
  <1>8. [r.seq EXCEPT ![L] = k] = [u EXCEPT ![L] = k]
    <2> HIDE DEF u
    <2> QED
      BY <1>1, <1>6
  <1>9. Grow(g, it) = On(r, L, G)
    BY <1>2, <1>5, <1>6, <1>7, <1>8 DEF On
  <1>10. L \in 1 .. Len(r.seq)
    <2>1. r \in Growth(S)
      BY GrowIs DEF r
    <2> DEFINE V == NodeOf(S)
    <2>2. r.seq \in Seq(V)
      BY <2>1 DEF Growth
    <2> HIDE DEF V
    <2>3. Len(r.seq) \in Nat /\ DOMAIN r.seq = 1 .. Len(r.seq)
      BY <2>2
    <2>4. DOMAIN r.seq = DOMAIN u
      BY <1>6
    <2> QED
      BY <1>1, <2>3, <2>4
  <1>11. r.seq[L].props \in FirstAt(P, q, p)
    <2>1. x.props = Append(ps, z)
      BY <1>1
    <2> QED
      BY <1>4, <1>7, <2>1
  <1> QED
    BY <1>2, <1>4, <1>9, <1>10, <1>11 DEF r, G, P, HasChanged

-----------------------------------------------------------------------------
GrewChange(g, it, r, L, q, G, D, S) ==
  /\ Grow(g, it) = On(r, L, G) /\ q \in Nat /\ q >= 1
  /\ L \in 1 .. Len(r.seq) /\ r.seq[L].props \in D /\ Commutes(G, D, Prop(S))

LEMMA GrowChange ==
  ASSUME NEW S, NEW g \in Growth(S), NEW L, L = Len(g.seq), L >= 1,
         NEW p, Nameless(g.seq[L].props, p),
         NEW old \in ItemOf(S), old.tag = FDT_PROP, old.name = p,
         NEW it \in ItemOf(S), it.tag = FDT_PROP, NEW y, y = PropOf(it),
         NEW q, q = Len(g.seq[L].props) + 1, NEW r, r = Grow(g, old), NEW G,
         G = Swap(Prop(S), q, p, y), NEW D, D = FirstAt(Prop(S), q, p)
  PROVE  GrewChange(g, it, r, L, q, G, D, S)
  <1>1. HasChanged(g, old, it, L, q, p, y, S)
    BY ChangeStep
  <1>2. /\ Grow(g, it) = On(r, L, G) /\ q \in Nat /\ q >= 1 /\ y \in Prop(S)
        /\ L \in 1 .. Len(r.seq) /\ r.seq[L].props \in D
    BY <1>1 DEF HasChanged
  <1>3. Commutes(G, D, Prop(S))
    BY <1>2, SwapCommutes
  <1> QED
    BY <1>2, <1>3 DEF GrewChange

RunOf(f, c, K, p) ==
  \A i \in c .. K - 1 :
    Len(f[i].seq) = Len(f[c].seq) /\ Nameless(PropsAt(f, i, Len(f[c].seq)), p)

LEMMA RunOfIs ==
  ASSUME NEW S, NEW n \in Nat, NEW items, \A i \in 1 .. n : items[i] \in ItemOf(S),
         NEW f, Grown(f, n, items, S), NEW c \in 1 .. n, items[c].tag = FDT_BEGIN_NODE,
         NEW p, NEW K \in c + 1 .. n + 1, Run(items, p, c + 1, K)
  PROVE  RunOf(f, c, K, p)
  BY RunNone DEF RunOf

SameUpTo(a, b, m, k) == \A i \in m .. k : b[i] = a[i]

LEMMA SameFirst ==
  ASSUME NEW S, NEW n \in Nat, NEW items, NEW f, Grown(f, n, items, S),
         NEW m \in Nat, NEW citems, NEW h, Grown(h, m, citems, S),
         NEW k \in Nat, k <= n, k <= m, SameUpTo(items, citems, 1, k)
  PROVE  SameUpTo(f, h, 0, k)
  BY SamePrefix DEF SameUpTo

(* Another value of the first property of that name in the node of the     *)
(* settings.                                                               *)
LEMMA ChangeTree ==
  ASSUME NEW S, NEW n \in Nat, NEW items, Indexed(items, n),
         \A i \in 1 .. n : items[i] \in ItemOf(S),
         NEW c, Spot(items, n, c), NEW p \in S, NEW v \in S,
         NEW K \in c + 1 .. n, Run(items, p, c + 1, K),
         items[K].tag = FDT_PROP, items[K].name = p,
         NEW it, it = [tag |-> FDT_PROP, name |-> p, val |-> v],
         NEW citems, citems = Put(items, n, K - 1, 0, it)
  PROVE  Spot(citems, n, c) /\ TreeOf(citems) = WithProp(TreeOf(items), p, v)
  <1>1. c \in 1 .. n /\ items[c].tag = FDT_BEGIN_NODE /\ c \in Nat /\ c < n
        /\ c <= n /\ c \in 0 .. n /\ K \in Nat /\ K >= 1 /\ K <= n /\ K \in 0 .. n
        /\ K - 1 \in Nat /\ K - 1 < n /\ K \in 1 .. n /\ K - 1 \in c .. K - 1
        /\ K - 1 \in 0 .. n /\ (K - 1) + 1 = K /\ K + 0 = K /\ n + 0 = n
    BY DEF Spot
  <1>2. PICK y : y = [name |-> p, val |-> v]
    OBVIOUS
  <1>3. it \in ItemOf(S) /\ it.tag = FDT_PROP /\ y = PropOf(it)
    <2>1. it.tag \in Kinds
      BY DEF Kinds
    <2> QED
      BY <1>2, <2>1 DEF ItemOf, PropOf
  <1>4. /\ Indexed(citems, n)
        /\ \A i \in 1 .. K - 1 : citems[i] = items[i]
        /\ citems[K] = it
        /\ Shifted(items, citems, K, n, 0)
    <2>1. ((K - 1) + 2) - 0 = K + 1
      BY <1>1
    <2>2. Indexed(citems, n + 0) /\ IsPut(citems, items, n, K - 1, 0, it)
      BY <1>1, PutIs
    <2> QED
      BY <1>1, <2>1, <2>2 DEF IsPut, Shifted
  <1>5. \A i \in 1 .. n : citems[i] \in ItemOf(S)
    <2>1. \A i \in 1 .. n + 0 : citems[i] \in ItemOf(S)
      BY <1>1, <1>3, PutType
    <2> QED
      BY <1>1, <2>1
  <1>6. PICK f : Grown(f, n, items, S) /\ TreeOf(items) = f[n].seq
    BY TreeOfIs
  <1>7. PICK h : Grown(h, n, citems, S) /\ TreeOf(citems) = h[n].seq
    <2>1. Indexed(citems, n) /\ \A i \in 1 .. n : citems[i] \in ItemOf(S)
      BY <1>4, <1>5
    <2> QED
      BY <2>1, TreeOfIs
  <1>8. PICK L : L = Len(f[c].seq)
    OBVIOUS
  <1>9. PICK g, old, r : g = f[K - 1] /\ old = items[K] /\ r = f[K]
    OBVIOUS
  <1>10. L = Len(g.seq) /\ L >= 1 /\ L \in Nat /\ Nameless(g.seq[L].props, p)
    <2>1. L \in Nat /\ L >= 1
      BY <1>1, <1>6, <1>8, PropsNone
    <2>2. K \in c + 1 .. n + 1
      BY <1>1
    <2>3. RunOf(f, c, K, p)
      BY <1>1, <1>6, <2>2, RunOfIs
    <2>4. Len(f[K - 1].seq) = Len(f[c].seq) /\ Nameless(PropsAt(f, K - 1, Len(f[c].seq)), p)
      BY <1>1, <2>3 DEF RunOf
    <2> QED
      BY <1>8, <1>9, <2>1, <2>4 DEF PropsAt
  <1>11. /\ g \in Growth(S) /\ r = Grow(g, old) /\ h[K] = Grow(g, it)
         /\ old \in ItemOf(S) /\ old.tag = FDT_PROP /\ old.name = p
    <2>1. f[K - 1] \in Growth(S) /\ f[K] = Grow(f[K - 1], items[K])
      BY <1>1, <1>6 DEF Grown
    <2>2. h[K] = Grow(h[K - 1], citems[K])
      BY <1>1, <1>7 DEF Grown
    <2>3. h[K - 1] = f[K - 1]
      <3>1. K - 1 <= n /\ K - 1 \in 0 .. K - 1
        BY <1>1
      <3>2. SameUpTo(items, citems, 1, K - 1)
        BY <1>4 DEF SameUpTo
      <3>3. SameUpTo(f, h, 0, K - 1)
        BY <1>1, <1>6, <1>7, <3>1, <3>2, SameFirst
      <3> QED
        BY <3>1, <3>3 DEF SameUpTo
    <2> QED
      BY <1>1, <1>4, <1>9, <2>1, <2>2, <2>3
  <1>12. PICK q, G, D : q = Len(g.seq[L].props) + 1 /\ G = Swap(Prop(S), q, p, y)
                        /\ D = FirstAt(Prop(S), q, p)
    OBVIOUS
  <1>13. GrewChange(g, it, r, L, q, G, D, S)
    BY <1>3, <1>10, <1>11, <1>12, GrowChange
  <1>14. h[K] = On(f[K], L, G) /\ OnAt(f, K, L, G, D, S)
    BY <1>9, <1>11, <1>13 DEF OnAt, GrewChange
  <1>15. h[n] = On(f[n], L, G) /\ OnAt(f, n, L, G, D, S)
    <2>1. PICK s : s = 0
      OBVIOUS
    <2>2. n \in Nat /\ n = n + s /\ K \in 0 .. n /\ K + s = K /\ s \in {0, 1}
      BY <1>1, <2>1
    <2>3. h[K + s] = On(f[K], L, G) /\ Shifted(items, citems, K, n, s)
      BY <1>4, <1>14, <2>1, <2>2
    <2>4. Grown(f, n, items, S) /\ Grown(h, n, citems, S) /\ OnAt(f, K, L, G, D, S)
      BY <1>6, <1>7, <1>14
    <2> QED
      BY <1>1, <2>2, <2>3, <2>4, Later
  <1>16. Renewed(items, citems, n, c, L, G, S)
    <2>1. \A i \in 1 .. c : citems[i] = items[i]
      BY <1>1, <1>4
    <2> QED
      BY <1>1, <1>5, <1>6, <1>7, <1>8, <1>15, <2>1, NewTree
  <1>17. TreeOf(items)[L].props \in D
    BY <1>6, <1>15 DEF OnAt
  <1>18. WithProp(TreeOf(items), p, v) = OnTree(TreeOf(items), L, G)
    <2>1. WithProp(TreeOf(items), p, v)
          = OnTree(TreeOf(items), L, Swap(Prop(S), q, p, [name |-> p, val |-> v]))
      BY <1>12, <1>13, <1>16, <1>17, WithPropOld DEF Renewed, GrewChange
    <2> QED
      BY <1>2, <1>12, <2>1
  <1> QED
    BY <1>16, <1>18 DEF Renewed

-----------------------------------------------------------------------------
Nearest(items, j, i) ==
  /\ items[j].tag = FDT_BEGIN_NODE
  /\ \A k \in j + 1 .. i - 1 : items[k].tag \in {FDT_PROP, FDT_NOP}

LEMMA OrderlyInsert ==
  ASSUME NEW n \in Nat, NEW items, Indexed(items, n), Orderly(items),
         NEW c \in 1 .. n - 1, items[c].tag = FDT_BEGIN_NODE, NEW it, it.tag = FDT_PROP,
         NEW citems, citems = Put(items, n, c, 1, it)
  PROVE  Orderly(citems)
  <1>1. /\ Indexed(citems, n + 1)
        /\ \A i \in 1 .. c : citems[i] = items[i]
        /\ citems[c + 1] = it
        /\ \A i \in c + 1 .. n : citems[i + 1] = items[i]
    <2>1. (c + 2) - 1 = c + 1 /\ c \in Nat /\ c < n
      OBVIOUS
    <2>2. Indexed(citems, n + 1) /\ IsPut(citems, items, n, c, 1, it)
      BY <2>1, PutIs
    <2> QED
      BY <2>1, <2>2 DEF IsPut
  <1>2. DOMAIN citems = 1 .. n + 1 /\ DOMAIN items = 1 .. n
    BY <1>1 DEF Indexed
  <1>3. \A i \in 1 .. n : items[i].tag = FDT_PROP => \E j \in 1 .. i - 1 : Nearest(items, j, i)
    BY <1>2 DEF Orderly, Nearest
  <1> SUFFICES ASSUME NEW i \in 1 .. n + 1, citems[i].tag = FDT_PROP
               PROVE  \E j \in 1 .. i - 1 : Nearest(citems, j, i)
    BY <1>2 DEF Orderly, Nearest
  <1>4. CASE i <= c
    <2>1. i \in 1 .. n /\ citems[i] = items[i]
      BY <1>1, <1>4
    <2>2. PICK j \in 1 .. i - 1 : Nearest(items, j, i)
      BY <1>3, <2>1
    <2>3. Nearest(citems, j, i)
      <3>1. citems[j] = items[j]
        BY <1>1, <1>4
      <3>2. \A k \in j + 1 .. i - 1 : citems[k] = items[k]
        <4>1. \A k \in j + 1 .. i - 1 : k \in 1 .. c
          BY <1>4
        <4> QED
          BY <1>1, <4>1
      <3> QED
        BY <2>2, <3>1, <3>2 DEF Nearest
    <2> QED
      BY <2>3
  <1>5. CASE i = c + 1
    <2>1. c \in 1 .. i - 1 /\ \A k \in c + 1 .. i - 1 : FALSE
      BY <1>5
    <2>2. Nearest(citems, c, i)
      BY <1>1, <2>1 DEF Nearest
    <2> QED
      BY <2>1, <2>2
  <1>6. CASE i > c + 1
    <2> DEFINE l == i - 1
    <2>1. l \in c + 1 .. n /\ l \in 1 .. n /\ l + 1 = i /\ l > c
      BY <1>6
    <2> HIDE DEF l
    <2>2. citems[i] = items[l]
      BY <1>1, <2>1
    <2>3. PICK j \in 1 .. l - 1 : Nearest(items, j, l)
      BY <1>3, <2>1, <2>2
    <2>4. j >= c
      <3>1. ASSUME j < c PROVE FALSE
        <4>1. c \in j + 1 .. l - 1
          BY <2>1, <3>1
        <4>2. items[c].tag \in {FDT_PROP, FDT_NOP}
          BY <2>3, <4>1 DEF Nearest
        <4> QED
          BY <4>2, Codes
      <3> QED
        BY <3>1, <2>1
    <2>5. ASSUME NEW k \in c + 2 .. i - 1, k - 1 > j PROVE citems[k].tag \in {FDT_PROP, FDT_NOP}
      <3> DEFINE a == k - 1
      <3>1. a \in j + 1 .. l - 1 /\ a \in c + 1 .. n /\ a + 1 = k
        BY <2>1, <2>4, <2>5
      <3> HIDE DEF a
      <3>2. citems[a + 1] = items[a] /\ items[a].tag \in {FDT_PROP, FDT_NOP}
        BY <1>1, <2>3, <3>1 DEF Nearest
      <3> QED
        BY <3>1, <3>2
    <2>6. CASE j = c
      <3>1. ASSUME NEW k \in c + 1 .. i - 1 PROVE citems[k].tag \in {FDT_PROP, FDT_NOP}
        <4>1. CASE k = c + 1
          BY <1>1, <4>1
        <4>2. CASE k # c + 1
          <5>1. k \in c + 2 .. i - 1 /\ k - 1 > j
            BY <2>6, <4>2
          <5> QED
            BY <2>5, <5>1
        <4> QED
          BY <4>1, <4>2
      <3>2. citems[c].tag = FDT_BEGIN_NODE
        BY <1>1
      <3>3. Nearest(citems, c, i)
        BY <3>1, <3>2 DEF Nearest
      <3>4. c \in 1 .. i - 1
        BY <1>6
      <3> QED
        BY <3>3, <3>4
    <2>7. CASE j # c
      <3>1. j \in c + 1 .. n /\ j + 1 \in 1 .. i - 1
        BY <2>1, <2>4, <2>7
      <3>2. citems[j + 1].tag = FDT_BEGIN_NODE
        BY <1>1, <2>3, <3>1 DEF Nearest
      <3>3. ASSUME NEW k \in (j + 1) + 1 .. i - 1 PROVE citems[k].tag \in {FDT_PROP, FDT_NOP}
        <4>1. k \in c + 2 .. i - 1 /\ k - 1 > j
          BY <3>1
        <4> QED
          BY <2>5, <4>1
      <3>4. Nearest(citems, j + 1, i)
        BY <3>2, <3>3 DEF Nearest
      <3> QED
        BY <3>1, <3>4
    <2> QED
      BY <2>6, <2>7
  <1> QED
    BY <1>4, <1>5, <1>6

LEMMA OrderlyChange ==
  ASSUME NEW n \in Nat, NEW items, Indexed(items, n), Orderly(items),
         NEW K \in 1 .. n, items[K].tag = FDT_PROP, NEW it, it.tag = FDT_PROP,
         NEW citems, citems = Put(items, n, K - 1, 0, it)
  PROVE  Orderly(citems)
  <1>1. /\ Indexed(citems, n)
        /\ \A i \in 1 .. K - 1 : citems[i] = items[i]
        /\ citems[K] = it
        /\ \A i \in K + 1 .. n : citems[i] = items[i]
    <2>1. ((K - 1) + 2) - 0 = K + 1 /\ K - 1 \in Nat /\ K - 1 < n /\ (K - 1) + 1 = K /\ n + 0 = n
      OBVIOUS
    <2>2. Indexed(citems, n + 0) /\ IsPut(citems, items, n, K - 1, 0, it)
      BY <2>1, PutIs
    <2>3. \A i \in K + 1 .. n : citems[i + 0] = items[i]
      BY <2>1, <2>2 DEF IsPut
    <2>4. \A i \in K + 1 .. n : i + 0 = i
      OBVIOUS
    <2> QED
      BY <2>1, <2>2, <2>3, <2>4 DEF IsPut
  <1>2. DOMAIN citems = 1 .. n /\ DOMAIN items = 1 .. n
    BY <1>1 DEF Indexed
  <1>3. \A i \in 1 .. n : citems[i].tag = items[i].tag
    <2> SUFFICES ASSUME NEW i \in 1 .. n PROVE citems[i].tag = items[i].tag
      OBVIOUS
    <2>1. i \in 1 .. K - 1 \/ i = K \/ i \in K + 1 .. n
      OBVIOUS
    <2> QED
      BY <1>1, <2>1
  <1>4. \A i \in 1 .. n : items[i].tag = FDT_PROP => \E j \in 1 .. i - 1 : Nearest(items, j, i)
    BY <1>2 DEF Orderly, Nearest
  <1> SUFFICES ASSUME NEW i \in 1 .. n, citems[i].tag = FDT_PROP
               PROVE  \E j \in 1 .. i - 1 : Nearest(citems, j, i)
    BY <1>2 DEF Orderly, Nearest
  <1>5. PICK j \in 1 .. i - 1 : Nearest(items, j, i)
    BY <1>3, <1>4
  <1>6. j \in 1 .. n /\ \A k \in j + 1 .. i - 1 : k \in 1 .. n
    OBVIOUS
  <1>7. Nearest(citems, j, i)
    BY <1>3, <1>5, <1>6 DEF Nearest
  <1> QED
    BY <1>7

=============================================================================
