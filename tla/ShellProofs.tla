---------------------------- MODULE ShellProofs ----------------------------
(***************************************************************************)
(* Proofs about Shell.  Every step is, for the settings, one of three: the *)
(* detection, a command, or nothing (LEMMA WhatHappens), so the invariants *)
(* about the settings do not look at the scripts.  The invariant for them  *)
(* says what each field is in terms of the commands executed.              *)
(***************************************************************************)
EXTENDS Shell, SequencesExt, SequenceTheorems, FiniteSetTheorems, WellFoundedInduction, TLAPS

-----------------------------------------------------------------------------
(* Induction on natural numbers, with a set for the property that is       *)
(* proved, so that the lemmas are first-order facts.  They follow from the *)
(* well-foundedness of < in the library.                                   *)
Less == {ss \in Nat \X Nat : ss[1] < ss[2]}

(* A set of natural numbers that is not empty has a smallest element. *)
LEMMA Smallest ==
  ASSUME NEW T, T \subseteq Nat, T # {}
  PROVE  \E x \in T : \A y \in T : x <= y
  <1>1. IsWellFoundedOn(Less, Nat)
    BY NatLessThanWellFounded DEF OpToRel, Less
  <1>2. PICK x \in T : \A y \in T : <<y, x>> \notin Less
    BY <1>1, WFMin
  <1>3. ASSUME NEW y \in T PROVE x <= y
    <2>1. x \in Nat /\ y \in Nat /\ <<y, x>> \notin Less
      BY <1>2
    <2>2. ~(y < x)
      BY <2>1 DEF Less
    <2> QED
      BY <2>1, <2>2
  <1> QED
    BY <1>2, <1>3

(* A set of natural numbers that is bounded and not empty has a largest    *)
(* element.                                                                *)
LEMMA LargestOf ==
  ASSUME NEW n \in Nat, NEW T, T \subseteq 0 .. n, T # {}
  PROVE  \E x \in T : \A y \in T : y <= x
  <1> DEFINE D == {n - y : y \in T}
  <1>1. D \subseteq Nat /\ D # {}
    <2>1. \A y \in T : n - y \in Nat
      OBVIOUS
    <2> QED
      BY <2>1
  <1>2. PICK d \in D : \A e \in D : d <= e
    <2> HIDE DEF D
    <2> QED
      BY <1>1, Smallest
  <1>3. PICK x \in T : d = n - x
    OBVIOUS
  <1>4. ASSUME NEW y \in T PROVE y <= x
    <2>1. n - y \in D
      OBVIOUS
    <2>2. n - x <= n - y
      BY <1>2, <1>3, <2>1
    <2> QED
      BY <2>2
  <1> QED
    BY <1>4

(* Induction: a set that has 0, and with each number the next one, has     *)
(* all.                                                                    *)
LEMMA Induct ==
  ASSUME NEW S, 0 \in S, \A n \in Nat : n \in S => n + 1 \in S
  PROVE  Nat \subseteq S
  <1> DEFINE T == {n \in Nat : n \notin S}
  <1> SUFFICES ASSUME T # {} PROVE FALSE
    OBVIOUS
  <1>1. PICK x \in T : \A y \in T : x <= y
    <2>1. T \subseteq Nat
      OBVIOUS
    <2> HIDE DEF T
    <2> QED
      BY <2>1, Smallest
  <1>2. x \in Nat /\ x \notin S /\ x # 0
    OBVIOUS
  <1>3. x - 1 \in Nat /\ x - 1 \notin T
    BY <1>1, <1>2
  <1>4. x - 1 \in S
    BY <1>3
  <1>5. (x - 1) + 1 \in S
    BY <1>3, <1>4
  <1> QED
    BY <1>2, <1>5

(* Induction from 1, for the indices of a sequence. *)
LEMMA InductFromOne ==
  ASSUME NEW n \in Nat, NEW S, n >= 1 => 1 \in S,
         \A i \in 1 .. n - 1 : i \in S => i + 1 \in S
  PROVE  1 .. n \subseteq S
  <1> DEFINE T == {m \in Nat : m \in S \/ m > n} \cup {0}
  <1>1. 0 \in T /\ \A m \in Nat : m \in T => m + 1 \in T
    OBVIOUS
  <1>2. Nat \subseteq T
    <2> HIDE DEF T
    <2> QED
      BY <1>1, Induct
  <1> QED
    BY <1>2

-----------------------------------------------------------------------------
(* What FlattenSeq computes: the concatenations of the first sequences.    *)
Concatenates(seqs, f) ==
  f = [i \in 1 .. Len(seqs) |-> IF i = 1 THEN seqs[i] ELSE f[i - 1] \o seqs[i]]

LEMMA ConcatenatesExists ==
  ASSUME NEW S, NEW seqs \in Seq(Seq(S))
  PROVE  \E f : Concatenates(seqs, f)
  <1> DEFINE n == Len(seqs)
             Upto(m, f) == f = [i \in 1 .. m |-> IF i = 1 THEN seqs[i]
                                                 ELSE f[i - 1] \o seqs[i]]
             T == {m \in Nat : \E f : Upto(m, f)}
  <1>1. 0 \in T
    <2>1. Upto(0, << >>)
      OBVIOUS
    <2> QED
      BY <2>1
  <1>2. ASSUME NEW m \in Nat, m \in T PROVE m + 1 \in T
    <2>1. PICK f : Upto(m, f)
      BY <1>2
    <2> DEFINE g == [i \in 1 .. m + 1 |->
                       IF i <= m THEN f[i]
                       ELSE IF i = 1 THEN seqs[i] ELSE f[i - 1] \o seqs[i]]
               h == [i \in 1 .. m + 1 |-> IF i = 1 THEN seqs[i]
                                          ELSE g[i - 1] \o seqs[i]]
    <2>2. ASSUME NEW i \in 1 .. m + 1 PROVE g[i] = h[i]
      <3>1. CASE i = 1
        BY <2>1, <3>1
      <3>2. CASE i # 1 /\ i <= m
        <4>1. i - 1 \in 1 .. m /\ i - 1 \in 1 .. m + 1 /\ i - 1 <= m /\ i \in 1 .. m
          BY <3>2
        <4>2. f[i] = f[i - 1] \o seqs[i]
          BY <2>1, <3>2, <4>1
        <4>3. g[i] = f[i] /\ g[i - 1] = f[i - 1]
          BY <4>1
        <4> QED
          BY <3>2, <4>2, <4>3
      <3>3. CASE i # 1 /\ i = m + 1
        <4>1. i - 1 \in 1 .. m + 1 /\ i - 1 <= m /\ ~(i <= m)
          BY <3>3
        <4> QED
          BY <3>3, <4>1
      <3> QED
        BY <3>1, <3>2, <3>3
    <2>3. g = h
      BY <2>2
    <2>4. Upto(m + 1, g)
      <3> HIDE DEF g
      <3> QED
        BY <2>3
    <2> HIDE DEF g, Upto
    <2> QED
      BY <2>4
  <1>3. Nat \subseteq T
    <2> HIDE DEF T
    <2> QED
      BY <1>1, <1>2, Induct
  <1>4. n \in Nat
    OBVIOUS
  <1> QED
    BY <1>3, <1>4 DEF Concatenates

(* FlattenSeq is the last of them. *)
LEMMA FlattenIs ==
  ASSUME NEW S, NEW seqs \in Seq(Seq(S)), seqs # << >>
  PROVE  \E f : Concatenates(seqs, f) /\ FlattenSeq(seqs) = f[Len(seqs)]
  <1> DEFINE F == CHOOSE f : Concatenates(seqs, f)
  <1>1. Concatenates(seqs, F)
    BY ConcatenatesExists
  <1>2. FlattenSeq(seqs) = F[Len(seqs)]
    BY DEF FlattenSeq, Concatenates
  <1> QED
    BY <1>1, <1>2

LEMMA FlattenNone == FlattenSeq(<< >>) = << >>
  BY DEF FlattenSeq

(* The same, a sequence at a time. *)
Appends(seqs, f, i) == f[i + 1] = f[i] \o seqs[i + 1]
Grows(seqs, f, n, S) ==
  /\ n >= 1 => f[1] = seqs[1]
  /\ \A i \in 1 .. n - 1 : Appends(seqs, f, i)
  /\ \A i \in 1 .. n : f[i] \in Seq(S)

LEMMA ConcatenatesAt ==
  ASSUME NEW S, NEW seqs \in Seq(Seq(S)), NEW f, Concatenates(seqs, f),
         NEW n, n = Len(seqs)
  PROVE  Grows(seqs, f, n, S)
  <1>1. n \in Nat
    OBVIOUS
  <1>2. DOMAIN f = 1 .. n /\ \A i \in 1 .. n : seqs[i] \in Seq(S)
    BY DEF Concatenates
  <1>3. n >= 1 => f[1] = seqs[1]
    BY <1>1 DEF Concatenates
  <1>4. ASSUME NEW i \in 1 .. n - 1 PROVE f[i + 1] = f[i] \o seqs[i + 1]
    <2>2. \A j \in 1 .. n : f[j] = IF j = 1 THEN seqs[j] ELSE f[j - 1] \o seqs[j]
      BY DEF Concatenates
    <2> DEFINE k == i + 1
    <2>3. k \in 1 .. n /\ k # 1 /\ k - 1 = i
      BY <1>1
    <2> HIDE DEF k
    <2>4. f[k] = f[k - 1] \o seqs[k]
      BY <2>2, <2>3
    <2> QED
      BY <2>3, <2>4 DEF k
  <1> DEFINE T == {i \in 1 .. n : f[i] \in Seq(S)}
  <1>5. n >= 1 => 1 \in T
    BY <1>1, <1>2, <1>3
  <1>6. ASSUME NEW i \in 1 .. n - 1, i \in T PROVE i + 1 \in T
    <2>1. i + 1 \in 1 .. n /\ f[i] \in Seq(S)
      BY <1>1, <1>6
    <2>2. f[i + 1] = f[i] \o seqs[i + 1] /\ seqs[i + 1] \in Seq(S)
      BY <1>2, <1>4, <2>1
    <2>3. f[i + 1] \in Seq(S)
      BY <2>1, <2>2, ConcatProperties
    <2> QED
      BY <2>1, <2>3
  <1>7. 1 .. n \subseteq T
    <2> HIDE DEF T
    <2> QED
      BY <1>1, <1>5, <1>6, InductFromOne
  <1>8. \A i \in 1 .. n : f[i] \in Seq(S)
    BY <1>7
  <1> QED
    BY <1>2, <1>3, <1>4, <1>8 DEF Grows, Appends

LEMMA FlattenType ==
  ASSUME NEW S, NEW seqs \in Seq(Seq(S))
  PROVE  FlattenSeq(seqs) \in Seq(S)
  <1>1. CASE seqs = << >>
    <2>1. << >> \in Seq(S) /\ FlattenSeq(seqs) = << >>
      BY <1>1, FlattenNone, Zenon, EmptySeq
    <2> QED
      BY <2>1
  <1>2. CASE seqs # << >>
    <2>1. PICK f : Concatenates(seqs, f) /\ FlattenSeq(seqs) = f[Len(seqs)]
      BY <1>2, FlattenIs
    <2>2. Len(seqs) \in 1 .. Len(seqs)
      BY <1>2
    <2>3. f[Len(seqs)] \in Seq(S)
      BY <2>1, <2>2, ConcatenatesAt, Zenon DEF Grows
    <2> QED
      BY <2>1, <2>3
  <1> QED
    BY <1>1, <1>2

(* Flattening one part after the other. *)
LEMMA FlattenConcat ==
  ASSUME NEW S, NEW s \in Seq(Seq(S)), NEW t \in Seq(Seq(S))
  PROVE  FlattenSeq(s \o t) = FlattenSeq(s) \o FlattenSeq(t)
  <1> DEFINE m == Len(s)
             n == Len(t)
             u == s \o t
  <1>0. /\ u \in Seq(Seq(S)) /\ Len(u) = m + n /\ m \in Nat /\ n \in Nat
        /\ \A i \in 1 .. m : u[i] = s[i]
        /\ \A j \in 1 .. n : u[m + j] = t[j]
        /\ \A j \in 1 .. n : t[j] \in Seq(S)
    <2>1. u \in Seq(Seq(S)) /\ Len(u) = m + n /\ m \in Nat /\ n \in Nat
      BY ConcatProperties
    <2>2. \A i \in 1 .. m + n : u[i] = IF i <= m THEN s[i] ELSE t[i - m]
      BY ConcatProperties
    <2>3. ASSUME NEW j \in 1 .. n PROVE u[m + j] = t[j]
      <3>1. m + j \in 1 .. m + n /\ ~(m + j <= m) /\ m + j - m = j
        BY <2>1
      <3> QED
        BY <2>2, <3>1
    <2>4. ASSUME NEW i \in 1 .. m PROVE u[i] = s[i]
      BY <2>1, <2>2
    <2> QED
      BY <2>1, <2>3, <2>4
  <1>1. CASE s = << >>
    <2>1. u = t
      BY <1>1, ConcatEmptySeq
    <2>2. FlattenSeq(t) \in Seq(S)
      BY FlattenType
    <2> QED
      BY <1>1, <2>1, <2>2, FlattenNone, ConcatEmptySeq
  <1>2. CASE t = << >>
    <2>1. u = s
      BY <1>2, ConcatEmptySeq
    <2>2. FlattenSeq(s) \in Seq(S)
      BY FlattenType
    <2> QED
      BY <1>2, <2>1, <2>2, FlattenNone, ConcatEmptySeq
  <1>3. CASE s # << >> /\ t # << >>
    <2>0. m >= 1 /\ n >= 1 /\ u # << >> /\ m = Len(s) /\ n = Len(t) /\ m + n = Len(u)
      BY <1>0, <1>3
    <2> HIDE DEF m, n, u
    <2>1. PICK f : Concatenates(u, f) /\ FlattenSeq(u) = f[Len(u)]
      BY <1>0, <2>0, FlattenIs
    <2>2. PICK g : Concatenates(s, g) /\ FlattenSeq(s) = g[Len(s)]
      BY <1>3, FlattenIs
    <2>3. PICK h : Concatenates(t, h) /\ FlattenSeq(t) = h[Len(t)]
      BY <1>3, FlattenIs
    <2>4. Grows(u, f, m + n, S)
      BY <1>0, <2>0, <2>1, ConcatenatesAt
    <2>5. Grows(s, g, m, S)
      BY <1>0, <2>0, <2>2, ConcatenatesAt
    <2>6. Grows(t, h, n, S)
      BY <1>0, <2>0, <2>3, ConcatenatesAt
    <2> DEFINE T1 == {i \in 1 .. m : f[i] = g[i]}
               T2 == {j \in 1 .. n : f[m + j] = g[m] \o h[j]}
    <2>7. 1 .. m \subseteq T1
      <3>1. 1 \in T1
        BY <1>0, <2>0, <2>4, <2>5 DEF Grows
      <3>2. ASSUME NEW i \in 1 .. m - 1, i \in T1 PROVE i + 1 \in T1
        <4>1. i \in 1 .. (m + n) - 1 /\ i + 1 \in 1 .. m /\ f[i] = g[i]
          BY <1>0, <3>2
        <4>2. Appends(u, f, i) /\ Appends(s, g, i)
          <5>1. Appends(u, f, i)
            BY <2>4, <4>1 DEF Grows
          <5>2. Appends(s, g, i)
            BY <2>5, <3>2 DEF Grows
          <5> QED
            BY <5>1, <5>2
        <4>3. f[i + 1] = f[i] \o u[i + 1] /\ g[i + 1] = g[i] \o s[i + 1]
          BY <4>2 DEF Appends
        <4>4. u[i + 1] = s[i + 1]
          BY <1>0, <4>1
        <4>5. f[i + 1] = g[i + 1]
          BY <4>1, <4>3, <4>4
        <4> QED
          BY <4>1, <4>5
      <3> HIDE DEF T1
      <3> QED
        BY <1>0, <2>0, <3>1, <3>2, InductFromOne
    <2>8. f[m] = g[m] /\ g[m] \in Seq(S)
      <3>1. m \in 1 .. m
        BY <1>0, <2>0
      <3> QED
        BY <2>5, <2>7, <3>1 DEF Grows
    <2>9. 1 .. n \subseteq T2
      <3>1. 1 \in T2
        <4>1. m \in 1 .. (m + n) - 1 /\ 1 \in 1 .. n
          BY <1>0, <2>0
        <4>2. Appends(u, f, m) /\ h[1] = t[1]
          BY <2>0, <2>4, <2>6, <4>1 DEF Grows
        <4>3. u[m + 1] = t[1]
          BY <1>0, <4>1
        <4> QED
          BY <2>8, <4>1, <4>2, <4>3 DEF Appends
      <3>2. ASSUME NEW j \in 1 .. n - 1, j \in T2 PROVE j + 1 \in T2
        <4> DEFINE i == m + j
        <4>0. m \in Nat /\ n \in Nat /\ m >= 1
          BY <1>0, <2>0, LenProperties
        <4>1. /\ i \in 1 .. (m + n) - 1 /\ j + 1 \in 1 .. n /\ j \in 1 .. n
              /\ i + 1 = m + (j + 1)
          BY <4>0
        <4>2. f[i] = g[m] \o h[j]
          BY <3>2
        <4> HIDE DEF i
        <4>3. Appends(u, f, i) /\ Appends(t, h, j) /\ h[j] \in Seq(S)
          <5>1. Appends(u, f, i)
            BY <2>4, <4>1 DEF Grows
          <5>2. Appends(t, h, j)
            BY <2>6, <3>2 DEF Grows
          <5>3. h[j] \in Seq(S)
            BY <2>6, <4>1 DEF Grows
          <5> QED
            BY <5>1, <5>2, <5>3
        <4>4. u[i + 1] = t[j + 1]
          BY <1>0, <4>1
        <4>5. t[j + 1] \in Seq(S)
          BY <1>0, <4>1
        <4>6. f[i + 1] = (g[m] \o h[j]) \o t[j + 1]
          BY <4>2, <4>3, <4>4 DEF Appends
        <4>7. (g[m] \o h[j]) \o t[j + 1] = g[m] \o (h[j] \o t[j + 1])
          <5> DEFINE a == g[m]
                     b == h[j]
                     c == t[j + 1]
          <5>1. a \in Seq(S) /\ b \in Seq(S) /\ c \in Seq(S)
            BY <2>8, <4>3, <4>5
          <5> HIDE DEF a, b, c
          <5>2. (a \o b) \o c = a \o (b \o c)
            BY <5>1, ConcatAssociative
          <5> QED
            BY <5>2 DEF a, b, c
        <4>8. f[m + (j + 1)] = g[m] \o h[j + 1]
          BY <4>1, <4>3, <4>6, <4>7 DEF Appends
        <4> QED
          BY <4>1, <4>8
      <3> HIDE DEF T2
      <3> QED
        BY <1>0, <2>0, <3>1, <3>2, InductFromOne
    <2>10. f[m + n] = g[m] \o h[n]
      <3>1. n \in 1 .. n
        BY <1>0, <2>0
      <3> QED
        BY <2>9, <3>1
    <2> QED
      BY <1>0, <2>1, <2>2, <2>3, <2>10 DEF m, n, u
  <1> QED
    BY <1>1, <1>2, <1>3

LEMMA FlattenOne ==
  ASSUME NEW S, NEW x \in Seq(S)
  PROVE  FlattenSeq(<<x>>) = x
  <1>1. <<x>> \in Seq(Seq(S)) /\ <<x>> # << >> /\ Len(<<x>>) = 1
    OBVIOUS
  <1>2. PICK f : Concatenates(<<x>>, f) /\ FlattenSeq(<<x>>) = f[Len(<<x>>)]
    BY <1>1, FlattenIs
  <1> QED
    BY <1>1, <1>2 DEF Concatenates

(* The same, of what a function makes of each element. *)
Through(f, cs) == [i \in DOMAIN cs |-> f[cs[i]]]
Flat(f, cs) == FlattenSeq(Through(f, cs))
Maps(f, C, D) == f \in [C -> D]

IsThrough(t, f, a, D) ==
  /\ t \in Seq(D) /\ Len(t) = Len(a)
  /\ \A i \in 1 .. Len(a) : t[i] = f[a[i]]

LEMMA ThroughIs ==
  ASSUME NEW C, NEW D, NEW f, Maps(f, C, D), NEW a \in Seq(C)
  PROVE  IsThrough(Through(f, a), f, a, D)
  <1>1. Len(a) \in Nat /\ DOMAIN a = 1 .. Len(a)
    OBVIOUS
  <1>2. Through(f, a) \in [1 .. Len(a) -> D]
    BY <1>1 DEF Through, Maps
  <1>3. Through(f, a) \in Seq(D)
    <2> DEFINE t == Through(f, a)
               n == Len(a)
    <2>1. n \in Nat /\ t \in [1 .. n -> D]
      BY <1>1, <1>2
    <2> HIDE DEF t, n
    <2>2. t \in UNION {[1 .. m -> D] : m \in Nat}
      BY <2>1
    <2>3. t \in Seq(D)
      BY <2>2, SeqDef, Zenon
    <2> QED
      BY <2>3 DEF t
  <1> QED
    BY <1>1, <1>2, <1>3 DEF Through, IsThrough

LEMMA ThroughType ==
  ASSUME NEW C, NEW D, NEW f \in [C -> D], NEW a \in Seq(C)
  PROVE  /\ Through(f, a) \in Seq(D) /\ Len(Through(f, a)) = Len(a)
         /\ \A i \in 1 .. Len(a) : Through(f, a)[i] = f[a[i]]
  <1>1. Maps(f, C, D)
    BY DEF Maps
  <1>2. IsThrough(Through(f, a), f, a, D)
    BY <1>1, ThroughIs, Zenon
  <1> QED
    BY <1>2 DEF IsThrough

LEMMA ThroughConcat ==
  ASSUME NEW C, NEW D, NEW f, Maps(f, C, D), NEW a \in Seq(C), NEW b \in Seq(C)
  PROVE  Through(f, a \o b) = Through(f, a) \o Through(f, b)
  <1> USE DEF Maps
  <1> DEFINE l == Through(f, a \o b)
             x == Through(f, a)
             y == Through(f, b)
  <1>1. /\ a \o b \in Seq(C) /\ Len(a \o b) = Len(a) + Len(b)
        /\ \A i \in 1 .. Len(a) + Len(b) :
             (a \o b)[i] = IF i <= Len(a) THEN a[i] ELSE b[i - Len(a)]
    BY ConcatProperties
  <1>2. /\ l \in Seq(D) /\ Len(l) = Len(a) + Len(b)
        /\ \A i \in 1 .. Len(a) + Len(b) : l[i] = f[(a \o b)[i]]
    <2> DEFINE c == a \o b
    <2>1. c \in Seq(C) /\ Len(c) = Len(a) + Len(b)
      BY <1>1
    <2> HIDE DEF c
    <2>2. Through(f, c) \in Seq(D)
      BY <2>1, ThroughType, Zenon
    <2>3. Len(c) \in Nat /\ DOMAIN c = 1 .. Len(c)
      BY <2>1
    <2>4. DOMAIN Through(f, c) = 1 .. Len(c)
          /\ \A i \in 1 .. Len(c) : Through(f, c)[i] = f[c[i]]
      BY <2>3 DEF Through
    <2>5. Len(Through(f, c)) = Len(c)
      <3> DEFINE t == Through(f, c)
                 n == Len(c)
      <3>1. t \in Seq(D) /\ DOMAIN t = 1 .. n /\ n \in Nat
        BY <2>2, <2>3, <2>4
      <3> HIDE DEF t, n
      <3>2. Len(t) = n
        BY <3>1, LenProperties
      <3> QED
        BY <3>2 DEF t, n
    <2> QED
      BY <2>1, <2>2, <2>4, <2>5 DEF c
  <1>3. /\ x \in Seq(D) /\ Len(x) = Len(a) /\ \A i \in 1 .. Len(a) : x[i] = f[a[i]]
        /\ y \in Seq(D) /\ Len(y) = Len(b) /\ \A i \in 1 .. Len(b) : y[i] = f[b[i]]
    <2>1. Maps(f, C, D)
      BY DEF Maps
    <2>2. IsThrough(x, f, a, D) /\ IsThrough(y, f, b, D)
      BY <2>1, ThroughIs, Zenon
    <2> QED
      BY <2>2 DEF IsThrough
  <1> HIDE DEF l, x, y
  <1>4. /\ x \o y \in Seq(D) /\ Len(x \o y) = Len(a) + Len(b)
        /\ \A i \in 1 .. Len(a) + Len(b) :
             (x \o y)[i] = IF i <= Len(a) THEN x[i] ELSE y[i - Len(a)]
    <2>1. /\ x \o y \in Seq(D) /\ Len(x \o y) = Len(x) + Len(y)
          /\ \A i \in 1 .. Len(x) + Len(y) :
               (x \o y)[i] = IF i <= Len(x) THEN x[i] ELSE y[i - Len(x)]
      <3>1. x \in Seq(D) /\ y \in Seq(D)
        BY <1>3
      <3> QED
        BY <3>1, ConcatProperties
    <2>2. Len(x) = Len(a) /\ Len(y) = Len(b)
      BY <1>3
    <2> QED
      BY <2>1, <2>2, Zenon
  <1>5. ASSUME NEW i \in 1 .. Len(l) PROVE l[i] = (x \o y)[i]
    <2>1. i \in 1 .. Len(a) + Len(b) /\ Len(a) \in Nat /\ Len(b) \in Nat
      BY <1>2
    <2>2. CASE i <= Len(a)
      <3>1. i \in 1 .. Len(a)
        BY <2>1, <2>2
      <3> QED
        BY <1>1, <1>2, <1>3, <1>4, <2>1, <2>2, <3>1
    <2>3. CASE ~(i <= Len(a))
      <3>1. i - Len(a) \in 1 .. Len(b)
        BY <2>1, <2>3
      <3>2. l[i] = f[b[i - Len(a)]]
        BY <1>1, <1>2, <2>1, <2>3
      <3>3. (x \o y)[i] = f[b[i - Len(a)]]
        BY <1>3, <1>4, <2>1, <2>3, <3>1
      <3> QED
        BY <3>2, <3>3
    <2> QED
      BY <2>2, <2>3
  <1>6. l = x \o y
    BY <1>2, <1>4, <1>5, SeqEqual
  <1> QED
    BY <1>6 DEF l, x, y

LEMMA FlatSame ==
  ASSUME NEW f, NEW g, NEW cs, \A i \in DOMAIN cs : f[cs[i]] = g[cs[i]]
  PROVE  Flat(f, cs) = Flat(g, cs)
  <1>1. Through(f, cs) = Through(g, cs)
    BY DEF Through
  <1> QED
    BY <1>1 DEF Flat

LEMMA FlatFacts ==
  ASSUME NEW C, NEW D, NEW f \in [C -> Seq(D)]
  PROVE  /\ Flat(f, << >>) = << >>
         /\ \A x \in C : Flat(f, <<x>>) = f[x]
         /\ \A a \in Seq(C) : Flat(f, a) \in Seq(D)
         /\ \A a, b \in Seq(C) : Flat(f, a \o b) = Flat(f, a) \o Flat(f, b)
  <1>1. Flat(f, << >>) = << >>
    <2>1. Through(f, << >>) = << >>
      BY DEF Through
    <2> QED
      BY <2>1, FlattenNone DEF Flat
  <1>2. ASSUME NEW x \in C PROVE Flat(f, <<x>>) = f[x]
    <2>1. Through(f, <<x>>) = <<f[x]>>
      BY DEF Through
    <2>2. FlattenSeq(<<f[x]>>) = f[x]
      BY FlattenOne
    <2> QED
      BY <2>1, <2>2 DEF Flat
  <1>3. ASSUME NEW a \in Seq(C) PROVE Flat(f, a) \in Seq(D)
    <2>1. Through(f, a) \in Seq(Seq(D))
      BY ThroughType
    <2> QED
      BY <2>1, FlattenType DEF Flat
  <1>4. ASSUME NEW a \in Seq(C), NEW b \in Seq(C)
        PROVE  Flat(f, a \o b) = Flat(f, a) \o Flat(f, b)
    <2>1. Through(f, a) \in Seq(Seq(D)) /\ Through(f, b) \in Seq(Seq(D))
      BY ThroughType
    <2>2. Through(f, a \o b) = Through(f, a) \o Through(f, b)
      <3> DEFINE E == Seq(D)
      <3>1. Maps(f, C, E)
        BY DEF Maps
      <3> HIDE DEF E
      <3> QED
        BY <3>1, ThroughConcat
    <2> QED
      BY <2>1, <2>2, FlattenConcat DEF Flat
  <1> QED
    BY <1>1, <1>2, <1>3, <1>4

-----------------------------------------------------------------------------

-----------------------------------------------------------------------------
(* Types.  A position is the start of a line, a piece inside one, or the   *)
(* end of the script.                                                      *)
Positions ==
  {at \in [script : Scripts, line : Nat \ {0}, piece : Nat \ {0}] :
     \/ at.line <= Len(Lines[at.script])
          /\ at.piece <= Len(Lines[at.script][at.line])
     \/ at.line = Len(Lines[at.script]) + 1 /\ at.piece = 1}

Typing ==
  /\ pc \in {"start", "loop", "end"}
  /\ machine \in Machines
  /\ executed \in Seq(Commands)
  /\ given \in Seq(Commands)
  /\ stack \in Seq(Positions)
  /\ pc # "loop" => stack = << >>
  /\ pc = "start" => settings = Zero(machine) /\ executed = << >> /\ given = << >>

LEMMA CommandsValid ==
  ASSUME NEW c \in Commands PROVE Valid(c)
  <1>1. CASE c \in Typed \cup Pieces
    BY <1>1, LinesAssumption
  <1>2. CASE c \in {[op |-> "script", arg |-> s] : s \in Scripts}
    BY <1>2 DEF Valid, Ops
  <1> QED
    BY <1>1, <1>2 DEF Commands

LEMMA StartPosition ==
  ASSUME NEW s \in Scripts PROVE Start(s) \in Positions
  <1>1. Lines[s] \in Seq(Seq(Pieces) \ {<< >>})
    BY LinesAssumption
  <1>2. CASE Lines[s] = << >>
    BY <1>1, <1>2 DEF Start, Positions
  <1>3. CASE Lines[s] # << >>
    <2>1. Len(Lines[s]) >= 1 /\ Lines[s][1] \in Seq(Pieces) \ {<< >>}
      BY <1>1, <1>3
    <2>2. Len(Lines[s][1]) >= 1
      BY <2>1
    <2> QED
      BY <2>1, <2>2 DEF Start, Positions
  <1> QED
    BY <1>2, <1>3

(* What is read at a position, and the position after it. *)
LEMMA NextPosition ==
  ASSUME NEW at \in Positions, ~AtEnd(at)
  PROVE  /\ Piece(at) \in Pieces
         /\ Advance(at) \in Positions
         /\ Advance(at).script = at.script
         /\ Advance(at) # Start(at.script)
         /\ LastRead(Advance(at)) = Piece(at)
  <1> DEFINE s == at.script
             n == at.line
             line == Lines[s][n]
  <1>1. s \in Scripts /\ n \in Nat \ {0} /\ at.piece \in Nat \ {0}
    BY DEF Positions
  <1>2. Lines[s] \in Seq(Seq(Pieces) \ {<< >>})
    BY <1>1, LinesAssumption
  <1>3. n <= Len(Lines[s]) /\ at.piece <= Len(line)
    BY <1>1, <1>2 DEF Positions, AtEnd
  <1>4. line \in Seq(Pieces) /\ n \in DOMAIN Lines[s]
    BY <1>1, <1>2, <1>3
  <1>5. Piece(at) \in Pieces
    BY <1>1, <1>3, <1>4 DEF Piece
  <1>6. at = [script |-> s, line |-> n, piece |-> at.piece]
    BY DEF Positions
  <1>7. CASE at.piece < Len(line)
    <2>1. Advance(at) = [script |-> s, line |-> n, piece |-> at.piece + 1]
      BY <1>6, <1>7 DEF Advance
    <2> QED
      BY <1>1, <1>2, <1>3, <1>4, <1>5, <1>7, <2>1
      DEF Positions, Start, LastRead, Piece
  <1>8. CASE ~(at.piece < Len(line))
    <2>1. Advance(at) = [script |-> s, line |-> n + 1, piece |-> 1]
      BY <1>6, <1>8 DEF Advance
    <2>2. at.piece = Len(line)
      BY <1>1, <1>3, <1>4, <1>8
    <2>3. LastRead(Advance(at)) = Piece(at)
      BY <1>1, <2>1, <2>2 DEF LastRead, Piece, Last
    <2>4. Advance(at) \in Positions
      <3>1. CASE n = Len(Lines[s])
        BY <1>1, <2>1, <3>1 DEF Positions
      <3>2. CASE n < Len(Lines[s])
        <4>1. Lines[s][n + 1] \in Seq(Pieces) \ {<< >>}
          BY <1>1, <1>2, <3>2
        <4>2. Len(Lines[s][n + 1]) >= 1
          BY <4>1
        <4> QED
          BY <1>1, <1>2, <2>1, <3>2, <4>2 DEF Positions
      <3> QED
        BY <1>1, <1>2, <1>3, <3>1, <3>2
    <2> QED
      BY <1>1, <1>5, <2>1, <2>3, <2>4 DEF Start
  <1> QED
    BY <1>7, <1>8

-----------------------------------------------------------------------------
(* What a step is for the settings. *)
Detects ==
  /\ pc = "start" /\ pc' = "loop"
  /\ settings' = Detected(settings, machine)
  /\ \/ executed' = executed
     \/ \E s \in Scripts : executed' = <<[op |-> "script", arg |-> s]>>
Executes ==
  /\ pc = "loop" /\ pc' # "start"
  /\ \E c \in Commands : /\ ~Ignored(c)
                         /\ settings' = Execute(c, settings)
                         /\ executed' = Append(executed, c)
Idles ==
  /\ pc' = pc /\ UNCHANGED <<settings, executed>>

(* process_cmd of a command, with the open scripts. *)
LEMMA ProcessTypes ==
  ASSUME Typing, NEW c \in Commands, NEW open \in Seq(Positions),
         process_cmd(c, open), pc = "loop", pc' \in {"loop", "end"}
  PROVE  /\ executed' \in Seq(Commands) /\ stack' \in Seq(Positions)
         /\ Executes \/ (Ignored(c) /\ UNCHANGED <<settings, executed>>)
  <1>1. CASE Ignored(c)
    BY <1>1 DEF process_cmd, Typing
  <1>2. CASE ~Ignored(c)
    <2>1. stack' \in Seq(Positions)
      <3>1. CASE c.op = "script" /\ c.arg \in Scripts
        <4>1. Start(c.arg) \in Positions
          BY <3>1, StartPosition
        <4>2. <<Start(c.arg)>> \in Seq(Positions)
          BY <4>1
        <4>3. <<Start(c.arg)>> \o open \in Seq(Positions)
          BY <4>2, ConcatProperties
        <4> QED
          BY <1>2, <3>1, <4>3 DEF process_cmd, load_script
      <3>2. CASE ~(c.op = "script" /\ c.arg \in Scripts)
        BY <1>2, <3>2 DEF process_cmd, load_script
      <3> QED
        BY <3>1, <3>2
    <2>2. settings' = Execute(c, settings) /\ executed' = Append(executed, c)
      BY <1>2 DEF process_cmd
    <2>3. Executes
      BY <1>2, <2>2 DEF Executes
    <2>4. executed' \in Seq(Commands)
      BY <2>2 DEF Typing
    <2> QED
      BY <2>1, <2>3, <2>4
  <1> QED
    BY <1>1, <1>2

LEMMA TypingInit == Init => Typing
  BY DEF Init, Typing

(* A round of the loop of load_script. *)
LEMMA ReadLineTypes ==
  ASSUME Typing, ReadLine
  PROVE  Typing' /\ (Executes \/ Idles)
  <1> DEFINE at == Head(stack)
             open == <<Advance(at)>> \o Tail(stack)
  <1>1. pc = "loop" /\ stack \in Seq(Positions) /\ stack # << >>
    BY DEF Typing, ReadLine
  <1>2. at \in Positions /\ Tail(stack) \in Seq(Positions) /\ ~AtEnd(at)
    BY <1>1 DEF ReadLine
  <1>3. Piece(at) \in Pieces /\ Advance(at) \in Positions
    BY <1>2, NextPosition
  <1>4. open \in Seq(Positions)
    BY <1>2, <1>3, ConcatProperties
  <1>5. Piece(at) \in Commands /\ process_cmd(Piece(at), open) /\ pc' = pc
    BY <1>3 DEF Commands, ReadLine
  <1>6. /\ executed' \in Seq(Commands) /\ stack' \in Seq(Positions)
        /\ Executes \/ UNCHANGED <<settings, executed>>
    BY <1>1, <1>4, <1>5, ProcessTypes
  <1> QED
    BY <1>1, <1>5, <1>6 DEF ReadLine, Typing, Idles

LEMMA WhatHappens ==
  ASSUME Typing, [Next]_vars
  PROVE  Typing' /\ machine' = machine /\ (Detects \/ Executes \/ Idles)
  <1>1. CASE Main
    <2>1. executed' \in Seq(Commands) /\ given' \in Seq(Commands)
          /\ stack' \in Seq(Positions)
      <3>1. CASE UNCHANGED <<stack, given, executed>>
        BY <3>1 DEF Typing
      <3>2. ASSUME NEW s \in Scripts,
                   given' = <<[op |-> "script", arg |-> s]>>,
                   executed' = <<[op |-> "script", arg |-> s]>>,
                   stack' = load_script(s, << >>)
            PROVE  executed' \in Seq(Commands) /\ given' \in Seq(Commands)
                   /\ stack' \in Seq(Positions)
        <4>1. [op |-> "script", arg |-> s] \in Commands
          BY DEF Commands
        <4>2. Start(s) \in Positions
          BY StartPosition
        <4>3. stack' = <<Start(s)>> \o << >>
          BY <3>2 DEF load_script
        <4>4. <<Start(s)>> \in Seq(Positions) /\ << >> \in Seq(Positions)
          BY <4>2
        <4>5. stack' \in Seq(Positions)
          BY <4>3, <4>4, ConcatProperties
        <4> QED
          BY <3>2, <4>1, <4>5
      <3> QED
        BY <1>1, <3>1, <3>2 DEF Main
    <2>2. Detects /\ machine' = machine /\ pc' = "loop"
      BY <1>1 DEF Main, Detects
    <2> QED
      BY <2>1, <2>2 DEF Typing
  <1>2. CASE Prompt
    <2>1. PICK c \in Typed :
            /\ given' = Append(given, c)
            /\ process_cmd(c, << >>)
            /\ pc' = IF c.op = "exit" THEN "end" ELSE pc
      BY <1>2 DEF Prompt
    <2>2. pc = "loop" /\ stack = << >> /\ machine' = machine
      BY <1>2 DEF Prompt
    <2>3. c \in Commands /\ << >> \in Seq(Positions)
      BY DEF Commands
    <2>4. pc' \in {"loop", "end"}
      BY <2>1, <2>2
    <2>5. /\ executed' \in Seq(Commands) /\ stack' \in Seq(Positions)
          /\ Executes \/ (Ignored(c) /\ UNCHANGED <<settings, executed>>)
      BY <2>1, <2>2, <2>3, <2>4, ProcessTypes
    <2>6. pc' # "loop" => stack' = << >> /\ ~Ignored(c)
      BY <2>1, <2>2 DEF process_cmd, Ignored
    <2>7. Executes \/ Idles
      BY <2>1, <2>2, <2>4, <2>5, <2>6 DEF Idles
    <2>8. given' \in Seq(Commands)
      BY <2>1, <2>3 DEF Typing
    <2> QED
      BY <2>2, <2>4, <2>5, <2>6, <2>7, <2>8 DEF Typing
  <1>3. CASE ReadLine
    BY <1>3, ReadLineTypes DEF ReadLine
  <1>4. CASE EndOfScript
    <2>1. stack \in Seq(Positions) /\ stack # << >>
      BY <1>4 DEF EndOfScript, Typing
    <2>2. Tail(stack) \in Seq(Positions)
      BY <2>1
    <2> QED
      BY <1>4, <2>1, <2>2 DEF EndOfScript, Typing, Idles
  <1>5. CASE UNCHANGED vars
    BY <1>5 DEF vars, Typing, Idles
  <1> QED
    BY <1>1, <1>2, <1>3, <1>4, <1>5 DEF Next

LEMMA AlwaysTyping == Spec => []Typing
  <1>1. Typing /\ [Next]_vars => Typing'
    BY WhatHappens
  <1> QED
    BY TypingInit, <1>1, PTL DEF Spec

-----------------------------------------------------------------------------
(* For every size of mem_block: what guess_memory_size guesses is enough   *)
(* for it and the OS beside it, and less than twice that.                  *)
THEOREM Guesses == Spec => []GuessFits
  <1>1. Typing => GuessFits
    <2> SUFFICES ASSUME machine \in Machines, Guess # 0
                 PROVE  LET mbs == machine.mem_block_size IN
                        /\ Guess > mbs + (APPROX_OS_SIZE - 1) * MB
                        /\ Guess <= 2 * (mbs + APPROX_OS_SIZE * MB)
      BY DEF Typing, GuessFits
    <2> DEFINE mbs == machine.mem_block_size
               n == mbs \div MB
    <2>1. mbs \in Nat /\ MB \in Nat \ {0}
      BY MachinesAssumption, SettingsAssumption
    <2>2. n \in Nat /\ n * MB <= mbs /\ mbs < (n + 1) * MB
      BY <2>1
    <2>3. Guess = Fitting(n + 20)
      BY DEF Guess, memory_size, APPROX_OS_SIZE
    <2> HIDE DEF n, mbs
    <2>4. CASE n < 12
      <3>1. Guess = 32 * MB
        BY <2>2, <2>3, <2>4 DEF Fitting
      <3>2. (n + 1) * MB <= 12 * MB
        BY <2>1, <2>2, <2>4
      <3>3. mbs < 12 * MB
        BY <2>1, <2>2, <3>2
      <3> QED
        BY <2>1, <3>1, <3>3 DEF APPROX_OS_SIZE, mbs
    <2>5. CASE n >= 12 /\ n < 44
      <3>1. Guess = 64 * MB
        BY <2>2, <2>3, <2>5 DEF Fitting
      <3>2. (n + 1) * MB <= 44 * MB /\ 12 * MB <= n * MB
        BY <2>1, <2>2, <2>5
      <3>3. mbs < 44 * MB /\ 12 * MB <= mbs
        BY <2>1, <2>2, <3>2
      <3> QED
        BY <2>1, <3>1, <3>3 DEF APPROX_OS_SIZE, mbs
    <2>6. CASE n >= 44 /\ n < 108
      <3>1. Guess = 128 * MB
        BY <2>2, <2>3, <2>6 DEF Fitting
      <3>2. (n + 1) * MB <= 108 * MB /\ 44 * MB <= n * MB
        BY <2>1, <2>2, <2>6
      <3>3. mbs < 108 * MB /\ 44 * MB <= mbs
        BY <2>1, <2>2, <3>2
      <3> QED
        BY <2>1, <3>1, <3>3 DEF APPROX_OS_SIZE, mbs
    <2>7. CASE n >= 108
      BY <2>2, <2>3, <2>7 DEF Fitting
    <2> QED
      BY <2>2, <2>4, <2>5, <2>6, <2>7
  <1> QED
    BY AlwaysTyping, <1>1, PTL

-----------------------------------------------------------------------------
(* The last command of a kind, when one more is executed. *)
LastIn(seq, P, d) ==
  LET is == {i \in DOMAIN seq : seq[i] \in P} IN
  IF is = {} THEN d ELSE seq[Max(is)]

LEMMA MaxIs ==
  ASSUME NEW n \in Nat, NEW T, T \subseteq 0 .. n, T # {}
  PROVE  Max(T) \in T /\ \A y \in T : y <= Max(T)
  <1>1. PICK x \in T : \A y \in T : y <= x
    BY LargestOf
  <1>2. \A y \in T : x >= y
    BY <1>1
  <1>3. Max(T) \in T /\ \A y \in T : Max(T) >= y
    BY <1>2 DEF Max
  <1> QED
    BY <1>3

LEMMA LastInAppend ==
  ASSUME NEW C, NEW seq \in Seq(C), NEW c \in C, NEW P, NEW d
  PROVE  LastIn(Append(seq, c), P, d) = IF c \in P THEN c ELSE LastIn(seq, P, d)
  <1> DEFINE n == Len(seq)
             new == Append(seq, c)
             was == {i \in DOMAIN seq : seq[i] \in P}
             is == {i \in DOMAIN new : new[i] \in P}
  <1>1. /\ n \in Nat /\ DOMAIN seq = 1 .. n /\ DOMAIN new = 1 .. n + 1
        /\ new[n + 1] = c /\ \A i \in 1 .. n : new[i] = seq[i]
    OBVIOUS
  <1>2. is \subseteq 0 .. n + 1 /\ was \subseteq 0 .. n
    BY <1>1
  <1>3. LastIn(new, P, d) = (IF is = {} THEN d ELSE new[Max(is)])
        /\ LastIn(seq, P, d) = (IF was = {} THEN d ELSE seq[Max(was)])
    BY DEF LastIn
  <1>4. CASE c \in P
    <2>1. n + 1 \in is
      BY <1>1, <1>4
    <2>2. Max(is) \in is /\ n + 1 <= Max(is)
      <3> HIDE DEF is
      <3> QED
        BY <1>1, <1>2, <2>1, MaxIs, n + 1 \in Nat
    <2>3. Max(is) = n + 1
      <3>1. ASSUME NEW m \in is, n + 1 <= m PROVE m = n + 1
        BY <1>1, <3>1
      <3> HIDE DEF is
      <3> QED
        BY <2>2, <3>1
    <2> QED
      BY <1>1, <1>3, <1>4, <2>1, <2>3
  <1>5. CASE c \notin P
    <2>1. is = was
      BY <1>1, <1>5
    <2>2. CASE was # {}
      <3>1. Max(was) \in was
        <4> HIDE DEF was
        <4> QED
          BY <1>1, <1>2, <2>2, MaxIs
      <3>2. Max(was) \in 1 .. n
        BY <1>1, <3>1
      <3> QED
        BY <1>1, <1>3, <1>5, <2>1, <2>2, <3>2
    <2> QED
      BY <1>3, <1>5, <2>1, <2>2
  <1> QED
    BY <1>4, <1>5

-----------------------------------------------------------------------------
(* The fields of the settings, and what a command does to each of them. *)
Shown(s) ==
  [machine_id |-> s.machine_id,
   phys |-> [start |-> s.phys.start, size |-> s.phys.size],
   ramdisk_size |-> s.ramdisk_size, kernel_cmdline |-> s.kernel_cmdline,
   break_on_entry |-> s.break_on_entry, serialnr |-> s.serialnr, rev |-> s.rev,
   mem_block_size |-> s.mem_block_size]

(* The numbers of an argument. *)
LEMMA Argument ==
  ASSUME NEW arg \in Seq(Nat \cup {JUNK})
  PROVE  /\ strtoul(arg) # 0 <=> (Len(arg) >= 1 /\ arg[1] \in Nat \ {0})
         /\ strtoul(arg) # 0 =>
              /\ strtoul(arg) = arg[1]
              /\ strtoul(AfterNumber(arg)) # 0
                   <=> (Len(arg) >= 2 /\ arg[2] \in Nat \ {0})
              /\ strtoul(AfterNumber(arg)) # 0 => strtoul(AfterNumber(arg)) = arg[2]
  <1>1. JUNK = -1
    BY DEF JUNK
  <1>2. strtoul(arg) # 0 <=> (Len(arg) >= 1 /\ arg[1] \in Nat \ {0})
    BY <1>1 DEF strtoul, Number
  <1>3. ASSUME strtoul(arg) # 0
        PROVE  /\ strtoul(arg) = arg[1]
               /\ strtoul(AfterNumber(arg)) # 0
                    <=> (Len(arg) >= 2 /\ arg[2] \in Nat \ {0})
               /\ strtoul(AfterNumber(arg)) # 0 => strtoul(AfterNumber(arg)) = arg[2]
    <2>1. arg # << >> /\ arg[1] # JUNK /\ strtoul(arg) = arg[1]
      BY <1>3 DEF strtoul, Number
    <2>2. AfterNumber(arg) = Tail(arg) /\ Tail(arg) \in Seq(Nat \cup {JUNK})
          /\ Len(Tail(arg)) = Len(arg) - 1
      BY <2>1 DEF AfterNumber, Number
    <2>3. Len(arg) >= 2 => Tail(arg)[1] = arg[2] /\ Tail(arg) # << >>
      BY <2>1, <2>2, HeadTailProperties
    <2>4. Len(arg) < 2 => Tail(arg) = << >>
      BY <2>1, <2>2
    <2> QED
      BY <1>1, <2>1, <2>2, <2>3, <2>4 DEF strtoul, Number
  <1> QED
    BY <1>2, <1>3

LEMMA NumbersAre ==
  ASSUME NEW c, c.arg \in Seq(Nat \cup {JUNK})
  PROVE  /\ Numbers(c, 1) <=> strtoul(c.arg) # 0
         /\ Numbers(c, 2) <=> (strtoul(c.arg) # 0 /\ strtoul(AfterNumber(c.arg)) # 0)
  <1>1. Len(c.arg) \in Nat
    OBVIOUS
  <1>2. Numbers(c, 1) <=> (Len(c.arg) >= 1 /\ c.arg[1] \in Nat \ {0})
    BY DEF Numbers
  <1>3. Numbers(c, 2) <=> /\ Len(c.arg) >= 2 /\ c.arg[1] \in Nat \ {0}
                          /\ c.arg[2] \in Nat \ {0}
    BY DEF Numbers
  <1> QED
    BY <1>1, <1>2, <1>3, Argument

Changes(c, s, t) ==
  /\ t = Shown(t)
  /\ t.machine_id = IF SetsId(c) THEN IF c.op = "dtb" THEN DTB_MACH_ID ELSE c.arg[1]
                    ELSE s.machine_id
  /\ t.phys.start = IF SetsPhys(c) THEN c.arg[1] ELSE s.phys.start
  /\ t.phys.size = IF SetsSize(c) THEN IF c.op = "phys" THEN c.arg[2] ELSE Guess
                   ELSE s.phys.size
  /\ t.ramdisk_size = IF SetsRd(c) THEN c.arg[1] ELSE s.ramdisk_size
  /\ t.kernel_cmdline = IF SetsCmdline(c)
                        THEN strncpy(s.kernel_cmdline, c.arg, CmdlineSize - 1)
                        ELSE s.kernel_cmdline
  /\ t.break_on_entry = IF c.op = "enterbkpt" THEN TRUE ELSE s.break_on_entry
  /\ t.serialnr = s.serialnr /\ t.mem_block_size = s.mem_block_size

LEMMA WithBreak ==
  ASSUME NEW s, s = Shown(s), NEW v
  PROVE  [s EXCEPT !.break_on_entry = v] = Shown([s EXCEPT !.break_on_entry = v])
  BY DEF Shown

LEMMA ExecuteChanges ==
  ASSUME NEW s, s = Shown(s), s.mem_block_size = machine.mem_block_size,
         NEW c, Valid(c)
  PROVE  Changes(c, s, Execute(c, s))
  <1> DEFINE t == Execute(c, s)
             arg == c.arg
  <1> USE DEF SetsId, SetsPhys, SetsSize, SetsRd, SetsCmdline
  <1>1. CASE c.op = "mach"
    <2>1. t = IF strtoul(arg) # 0 THEN [s EXCEPT !.machine_id = strtoul(arg)] ELSE s
      BY <1>1 DEF Execute, setget_mach
    <2>2. arg \in Seq(Nat \cup {JUNK})
      BY <1>1 DEF Valid
    <2>3. Numbers(c, 1) <=> strtoul(arg) # 0
      BY <2>2, NumbersAre
    <2>4. strtoul(arg) # 0 => strtoul(arg) = arg[1]
      BY <2>2, Argument
    <2> HIDE DEF t
    <2> QED
      BY <1>1, <2>1, <2>3, <2>4 DEF Changes, Shown, t
  <1>2. CASE c.op = "phys"
    <2>1. t = IF strtoul(arg) # 0 /\ strtoul(AfterNumber(arg)) # 0
              THEN [s EXCEPT !.phys = [start |-> strtoul(arg),
                                       size |-> strtoul(AfterNumber(arg))]]
              ELSE s
      BY <1>2 DEF Execute, setget_phys
    <2>2. arg \in Seq(Nat \cup {JUNK})
      BY <1>2 DEF Valid
    <2>3. Numbers(c, 2) <=> (strtoul(arg) # 0 /\ strtoul(AfterNumber(arg)) # 0)
      BY <2>2, NumbersAre
    <2>4. strtoul(arg) # 0 => strtoul(arg) = arg[1]
            /\ (strtoul(AfterNumber(arg)) # 0 => strtoul(AfterNumber(arg)) = arg[2])
      BY <2>2, Argument
    <2> HIDE DEF t
    <2> QED
      BY <1>2, <2>1, <2>3, <2>4 DEF Changes, Shown, t
  <1>3. CASE c.op = "rdsize"
    <2>1. t = IF strtoul(arg) # 0 THEN [s EXCEPT !.ramdisk_size = strtoul(arg)] ELSE s
      BY <1>3 DEF Execute, setget_rdisksize
    <2>2. arg \in Seq(Nat \cup {JUNK})
      BY <1>3 DEF Valid
    <2>3. Numbers(c, 1) <=> strtoul(arg) # 0
      BY <2>2, NumbersAre
    <2>4. strtoul(arg) # 0 => strtoul(arg) = arg[1]
      BY <2>2, Argument
    <2> HIDE DEF t
    <2> QED
      BY <1>3, <2>1, <2>3, <2>4 DEF Changes, Shown, t
  <1>4. CASE c.op = "cmdline"
    <2>1. t = IF arg = << >> THEN s
              ELSE [s EXCEPT !.kernel_cmdline = strncpy(@, arg, CmdlineSize - 1)]
      BY <1>4 DEF Execute, kernel_cmdline
    <2> HIDE DEF t
    <2> QED
      BY <1>4, <2>1 DEF Changes, Shown, t
  <1>5. CASE c.op = "probemem"
    <2>1. t = IF Guess = 0 THEN s ELSE [s EXCEPT !.phys.size = Guess]
      BY <1>5 DEF Execute, force_guess_memory, guess_memory_size, Guess
    <2> HIDE DEF t
    <2> QED
      BY <1>5, <2>1 DEF Changes, Shown, t
  <1>6. CASE c.op = "enterbkpt"
    <2>1. t = [s EXCEPT !.break_on_entry = TRUE]
      BY <1>6 DEF Execute, break_on_entry
    <2> HIDE DEF t
    <2>2. t.break_on_entry = TRUE
      BY <2>1 DEF Shown
    <2>3. t = Shown(t)
      BY <2>1, WithBreak
    <2>4. /\ t.machine_id = s.machine_id /\ t.phys = s.phys
          /\ t.ramdisk_size = s.ramdisk_size /\ t.serialnr = s.serialnr
          /\ t.kernel_cmdline = s.kernel_cmdline
          /\ t.mem_block_size = s.mem_block_size
      BY <2>1 DEF Shown
    <2>5. /\ ~SetsId(c) /\ ~SetsPhys(c) /\ ~SetsSize(c) /\ ~SetsRd(c)
          /\ ~SetsCmdline(c)
      BY <1>6
    <2>6. Changes(c, s, t)
      <3> HIDE DEF SetsId, SetsPhys, SetsSize, SetsRd, SetsCmdline
      <3> QED
        BY <1>6, <2>2, <2>3, <2>4, <2>5 DEF Changes
    <2> QED
      BY <2>6 DEF t
  <1>7. CASE c.op = "dtb"
    <2>1. t = IF c.arg = "good" THEN [s EXCEPT !.machine_id = DTB_MACH_ID] ELSE s
      BY <1>7 DEF Execute, load_dtb
    <2> HIDE DEF t
    <2> QED
      BY <1>7, <2>1 DEF Changes, Shown, t
  <1>8. CASE c.op \notin {"mach", "phys", "rdsize", "cmdline", "probemem",
                          "enterbkpt", "dtb"}
    <2>1. t = s
      BY <1>8 DEF Execute
    <2> HIDE DEF t
    <2> QED
      BY <1>8, <2>1 DEF Changes, Shown, t
  <1> QED
    BY <1>1, <1>2, <1>3, <1>4, <1>5, <1>6, <1>7, <1>8

-----------------------------------------------------------------------------
(* The last commands of each kind, as the commands executed go on. *)
IdSetters == {c \in Commands : SetsId(c)}
PhysSetters == {c \in Commands : SetsPhys(c)}
SizeSetters == {c \in Commands : SetsSize(c)}
RdSetters == {c \in Commands : SetsRd(c)}
CmdlineSetters == {c \in Commands : SetsCmdline(c)}

DetectedId == [op |-> "mach", arg |-> <<Start0.machine_id>>]
DetectedPhys == [op |-> "phys", arg |-> <<PHYS_START, Start0.phys.size>>]
NoRd == [op |-> "rdsize", arg |-> <<0>>]
NoCmdline == [op |-> "cmdline", arg |-> << >>]

LEMMA LastAmongIn ==
  ASSUME executed \in Seq(Commands), NEW P, NEW d, NEW is,
         is = {i \in DOMAIN executed : executed[i] \in P}
  PROVE  LastAmong(is, d) = LastIn(executed, P, d)
  BY DEF LastAmong, LastIn

LEMMA Lasts ==
  ASSUME executed \in Seq(Commands)
  PROVE  /\ LastId = LastIn(executed, IdSetters, DetectedId)
         /\ LastPhys = LastIn(executed, PhysSetters, DetectedPhys)
         /\ LastSize = LastIn(executed, SizeSetters, LastPhys)
         /\ LastRd = LastIn(executed, RdSetters, NoRd)
         /\ LastCmdline = LastIn(executed, CmdlineSetters, NoCmdline)
  <1>0. \A i \in DOMAIN executed : executed[i] \in Commands
    OBVIOUS
  <1>1. {i \in DOMAIN executed : SetsId(executed[i])}
          = {i \in DOMAIN executed : executed[i] \in IdSetters}
    BY <1>0 DEF IdSetters
  <1>2. {i \in DOMAIN executed : SetsPhys(executed[i])}
          = {i \in DOMAIN executed : executed[i] \in PhysSetters}
    BY <1>0 DEF PhysSetters
  <1>3. {i \in DOMAIN executed : SetsSize(executed[i])}
          = {i \in DOMAIN executed : executed[i] \in SizeSetters}
    BY <1>0 DEF SizeSetters
  <1>4. {i \in DOMAIN executed : SetsRd(executed[i])}
          = {i \in DOMAIN executed : executed[i] \in RdSetters}
    BY <1>0 DEF RdSetters
  <1>5. {i \in DOMAIN executed : SetsCmdline(executed[i])}
          = {i \in DOMAIN executed : executed[i] \in CmdlineSetters}
    BY <1>0 DEF CmdlineSetters
  <1>6. LastId = LastIn(executed, IdSetters, DetectedId)
    BY <1>1, LastAmongIn DEF LastId, DetectedId
  <1>7. LastPhys = LastIn(executed, PhysSetters, DetectedPhys)
    BY <1>2, LastAmongIn DEF LastPhys, DetectedPhys
  <1>8. LastSize = LastIn(executed, SizeSetters, LastPhys)
    BY <1>3, LastAmongIn DEF LastSize
  <1>9. LastRd = LastIn(executed, RdSetters, NoRd)
    BY <1>4, LastAmongIn DEF LastRd, NoRd
  <1>10. LastCmdline = LastIn(executed, CmdlineSetters, NoCmdline)
    BY <1>5, LastAmongIn DEF LastCmdline, NoCmdline
  <1> QED
    BY <1>6, <1>7, <1>8, <1>9, <1>10

LEMMA LastsNext ==
  ASSUME executed \in Seq(Commands), machine' = machine,
         NEW c \in Commands, executed' = Append(executed, c)
  PROVE  /\ LastId' = IF SetsId(c) THEN c ELSE LastId
         /\ LastPhys' = IF SetsPhys(c) THEN c ELSE LastPhys
         /\ LastSize' = IF SetsSize(c) THEN c ELSE LastSize
         /\ LastRd' = IF SetsRd(c) THEN c ELSE LastRd
         /\ LastCmdline' = IF SetsCmdline(c) THEN c ELSE LastCmdline
  <1>1. executed' \in Seq(Commands)
    OBVIOUS
  <1>2. /\ LastId' = LastIn(executed', IdSetters', DetectedId')
        /\ LastPhys' = LastIn(executed', PhysSetters', DetectedPhys')
        /\ LastSize' = LastIn(executed', SizeSetters', LastPhys')
        /\ LastRd' = LastIn(executed', RdSetters', NoRd')
        /\ LastCmdline' = LastIn(executed', CmdlineSetters', NoCmdline')
    <2>1. (executed \in Seq(Commands) =>
         /\ LastId = LastIn(executed, IdSetters, DetectedId)
         /\ LastPhys = LastIn(executed, PhysSetters, DetectedPhys)
         /\ LastSize = LastIn(executed, SizeSetters, LastPhys)
         /\ LastRd = LastIn(executed, RdSetters, NoRd)
         /\ LastCmdline = LastIn(executed, CmdlineSetters, NoCmdline))'
      BY Lasts, PTL
    <2> QED
      BY <1>1, <2>1
  <1>3. /\ IdSetters' = IdSetters /\ PhysSetters' = PhysSetters
        /\ SizeSetters' = SizeSetters /\ RdSetters' = RdSetters
        /\ CmdlineSetters' = CmdlineSetters /\ DetectedId' = DetectedId
        /\ DetectedPhys' = DetectedPhys /\ NoRd' = NoRd /\ NoCmdline' = NoCmdline
    BY DEF IdSetters, SetsId, PhysSetters, SetsPhys, SizeSetters, SetsSize, Guess,
           RdSetters, SetsRd, CmdlineSetters, SetsCmdline, DetectedId, DetectedPhys,
           Start0, NoRd, NoCmdline
  <1>4. \A P, d : LastIn(executed', P, d)
                    = IF c \in P THEN c ELSE LastIn(executed, P, d)
    BY LastInAppend
  <1>5. LastPhys' = IF SetsPhys(c) THEN c ELSE LastPhys
    BY <1>2, <1>3, <1>4, Lasts DEF PhysSetters
  <1>6. LastSize' = IF SetsSize(c) THEN c ELSE LastSize
    <2>1. CASE SetsSize(c)
      BY <2>1, <1>2, <1>3, <1>4 DEF SizeSetters
    <2>2. CASE ~SetsSize(c)
      <3>1. LastPhys' = LastPhys
        BY <2>2, <1>5 DEF SetsSize
      <3> QED
        <4>1. c \notin SizeSetters /\ SizeSetters' = SizeSetters
          BY <2>2, <1>3 DEF SizeSetters
        <4>2. LastSize' = LastIn(executed, SizeSetters, LastPhys)
          BY <3>1, <4>1, <1>2, <1>4, Zenon
        <4>3. LastSize = LastIn(executed, SizeSetters, LastPhys)
          BY Lasts, Zenon
        <4> QED
          BY <2>2, <4>2, <4>3, Zenon
    <2> QED
      BY <2>1, <2>2
  <1>7. LastId' = IF SetsId(c) THEN c ELSE LastId
    BY <1>2, <1>3, <1>4, Lasts DEF IdSetters
  <1>8. LastRd' = IF SetsRd(c) THEN c ELSE LastRd
    BY <1>2, <1>3, <1>4, Lasts DEF RdSetters
  <1>9. LastCmdline' = IF SetsCmdline(c) THEN c ELSE LastCmdline
    BY <1>2, <1>3, <1>4, Lasts DEF CmdlineSetters
  <1> QED
    BY <1>5, <1>6, <1>7, <1>8, <1>9

-----------------------------------------------------------------------------
(* What is detected. *)
LEMMA DetectedFields ==
  ASSUME NEW m
  PROVE  LET t == Detected(Zero(m), m) IN
         /\ t = Shown(t)
         /\ t.phys.start = PHYS_START /\ t.ramdisk_size = 0
         /\ t.kernel_cmdline = [i \in 1 .. CmdlineSize |-> NUL]
         /\ t.break_on_entry = FALSE
         /\ t.mem_block_size = m.mem_block_size
         /\ t.serialnr = <<Mod(serial(m.raw_serial), 32),
                           Mod(Div(serial(m.raw_serial), 32), 32)>>
  <1> DEFINE z == Zero(m)
             a == detect_machine(z, m)
             started == [a EXCEPT !.phys.start = PHYS_START]
             b == detect_memory(a, m)
             t == Detected(z, m)
             Same(s) == /\ s = Shown(s) /\ s.ramdisk_size = 0
                        /\ s.kernel_cmdline = [i \in 1 .. CmdlineSize |-> NUL]
                        /\ s.break_on_entry = FALSE
                        /\ s.mem_block_size = m.mem_block_size
  <1>1. Same(z)
    BY DEF Zero, Shown
  <1>2. ASSUME NEW s, Same(s), NEW v
        PROVE  /\ Same([s EXCEPT !.machine_id = v])
               /\ Same([s EXCEPT !.phys.start = v])
               /\ [s EXCEPT !.phys.start = v].phys.start = v
               /\ Same([s EXCEPT !.phys.size = v])
               /\ [s EXCEPT !.phys.size = v].phys.start = s.phys.start
               /\ Same([s EXCEPT !.serialnr = v])
               /\ [s EXCEPT !.serialnr = v].phys = s.phys
               /\ [s EXCEPT !.serialnr = v].serialnr = v
               /\ Same([s EXCEPT !.rev = v])
               /\ [s EXCEPT !.rev = v].phys = s.phys
               /\ [s EXCEPT !.rev = v].serialnr = s.serialnr
    BY <1>2 DEF Shown
  <1> HIDE DEF Same, z, a
  <1>3. Same(a)
    <2> DEFINE v == CASE m.hwtype = 0 /\ ~m.is_touchpad -> 4441
                      [] m.hwtype = 0 /\ m.is_touchpad -> 4442
                      [] m.hwtype = 1 -> 4443
                      [] OTHER -> DTB_MACH_ID
    <2>1. a = [z EXCEPT !.machine_id = v]
      BY DEF a, detect_machine
    <2> HIDE DEF v
    <2> QED
      BY <1>1, <1>2, <2>1
  <1>4. Same(started) /\ started.phys.start = PHYS_START
    BY <1>2, <1>3
  <1>5. Same(b) /\ b.phys.start = PHYS_START
    <2> DEFINE size == memory_size(started.mem_block_size)
               With(v) == [started EXCEPT !.phys.size = v]
    <2>1. \A v : Same(With(v)) /\ With(v).phys.start = PHYS_START
      <3> HIDE DEF started
      <3> QED
        BY <1>2, <1>4
    <2>2. b = CASE m.hwtype = 0 -> With(32 * MB)
                [] m.hwtype = 1 -> With(64 * MB)
                [] OTHER -> IF size = 0 THEN started ELSE With(size)
      BY DEF detect_memory, guess_memory_size
    <2> HIDE DEF started, b, With, size
    <2>3. CASE m.hwtype = 0
      BY <2>1, <2>2, <2>3
    <2>4. CASE m.hwtype = 1
      BY <2>1, <2>2, <2>4
    <2>5. CASE m.hwtype \notin {0, 1}
      BY <1>4, <2>1, <2>2, <2>5
    <2> QED
      BY <2>3, <2>4, <2>5
  <1> DEFINE u == <<Mod(serial(m.raw_serial), 32),
                    Mod(Div(serial(m.raw_serial), 32), 32)>>
  <1>6. Same(t) /\ t.phys.start = PHYS_START /\ t.serialnr = u
    <2> DEFINE w == Mod(Div(m.raw_serial, 58), 5)
               b1 == [b EXCEPT !.serialnr = u]
               b2 == [b1 EXCEPT !.rev = w]
    <2>1. t = [b EXCEPT !.serialnr = u, !.rev = w]
      BY DEF Detected, detect_serialnr, a, z
    <2>2. t = b2
      <3> HIDE DEF u, w, b, t
      <3>1. b = Shown(b)
        BY <1>5 DEF Same
      <3> QED
        BY <2>1, <3>1 DEF Shown
    <2> HIDE DEF b, u, w
    <2>3. Same(b1) /\ b1.phys.start = PHYS_START /\ b1.serialnr = u
      BY <1>2, <1>5
    <2>4. Same(b2) /\ b2.phys.start = PHYS_START /\ b2.serialnr = u
      <3> HIDE DEF b1
      <3> QED
        BY <1>2, <2>3
    <2> QED
      BY <2>2, <2>4
  <1> QED
    BY <1>6 DEF Same, z

-----------------------------------------------------------------------------
(* The invariant for the settings. *)
Settled ==
  /\ settings.mem_block_size = machine.mem_block_size
  /\ pc # "start" => settings = Shown(settings) /\ settings.serialnr = Start0.serialnr

LEMMA LastsNone ==
  ASSUME executed = << >>
  PROVE  LastId = DetectedId /\ LastPhys = DetectedPhys /\ LastSize = DetectedPhys
         /\ LastRd = NoRd /\ LastCmdline = NoCmdline
  <1>1. executed \in Seq(Commands) /\ DOMAIN executed = {}
    OBVIOUS
  <1>2. \A P, d : LastIn(executed, P, d) = d
    BY <1>1 DEF LastIn
  <1> QED
    BY <1>1, <1>2, Lasts

LEMMA DetectsLasts ==
  ASSUME Typing, Detects, machine' = machine
  PROVE  /\ LastId' = DetectedId /\ LastPhys' = DetectedPhys
         /\ LastSize' = DetectedPhys /\ LastRd' = NoRd /\ LastCmdline' = NoCmdline
         /\ \A i \in DOMAIN executed' : executed'[i].op # "enterbkpt"
  <1>1. executed = << >> /\ executed \in Seq(Commands)
    BY DEF Typing, Detects
  <1>2. /\ LastId = DetectedId /\ LastPhys = DetectedPhys
        /\ LastSize = DetectedPhys /\ LastRd = NoRd /\ LastCmdline = NoCmdline
    BY <1>1, LastsNone
  <1>3. CASE executed' = executed
    <2>1. /\ LastId' = LastId /\ LastPhys' = LastPhys /\ LastSize' = LastSize
          /\ LastRd' = LastRd /\ LastCmdline' = LastCmdline
      BY <1>3 DEF LastId, LastPhys, LastSize, LastRd, LastCmdline, LastAmong, SetsId,
                  SetsPhys, SetsSize, SetsRd, SetsCmdline, Guess, Start0
    <2> QED
      BY <1>1, <1>2, <1>3, <2>1
  <1>4. ASSUME NEW s \in Scripts, executed' = <<[op |-> "script", arg |-> s]>>
        PROVE  /\ LastId' = DetectedId /\ LastPhys' = DetectedPhys
               /\ LastSize' = DetectedPhys /\ LastRd' = NoRd
               /\ LastCmdline' = NoCmdline
               /\ \A i \in DOMAIN executed' : executed'[i].op # "enterbkpt"
    <2> DEFINE c == [op |-> "script", arg |-> s]
    <2>1. c \in Commands /\ executed' = Append(executed, c)
      BY <1>1, <1>4 DEF Commands
    <2>2. /\ ~SetsId(c) /\ ~SetsPhys(c) /\ ~SetsSize(c) /\ ~SetsRd(c)
          /\ ~SetsCmdline(c)
      BY DEF SetsId, SetsPhys, SetsSize, SetsRd, SetsCmdline
    <2>3. \A i \in DOMAIN executed' : executed'[i].op # "enterbkpt"
      BY <1>4
    <2> HIDE DEF c
    <2> QED
      BY <1>1, <1>2, <2>1, <2>2, <2>3, LastsNext
  <1> QED
    BY <1>3, <1>4 DEF Detects

LEMMA SettledNext ==
  ASSUME Typing, Settled, [Next]_vars
  PROVE  Settled'
  <1>1. machine' = machine /\ Start0' = Start0 /\ (Detects \/ Executes \/ Idles)
    <2>1. machine' = machine /\ (Detects \/ Executes \/ Idles)
      BY WhatHappens
    <2> QED
      BY <2>1 DEF Start0
  <1>2. CASE Detects
    <2>1. settings' = Start0
      BY <1>2 DEF Detects, Typing, Start0
    <2>2. Start0 = Shown(Start0) /\ Start0.mem_block_size = machine.mem_block_size
      BY DetectedFields DEF Start0
    <2> QED
      BY <1>1, <2>1, <2>2 DEF Settled
  <1>3. CASE Executes
    <2>1. PICK c \in Commands : settings' = Execute(c, settings)
      BY <1>3 DEF Executes
    <2>2. settings = Shown(settings) /\ settings.serialnr = Start0.serialnr
      BY <1>3 DEF Executes, Settled
    <2>3. Changes(c, settings, settings')
      BY <2>1, <2>2, CommandsValid, ExecuteChanges DEF Settled
    <2>4. /\ settings' = Shown(settings') /\ settings'.serialnr = settings.serialnr
          /\ settings'.mem_block_size = settings.mem_block_size
      BY <2>3 DEF Changes
    <2> QED
      BY <1>1, <2>2, <2>4 DEF Settled
  <1>4. CASE Idles
    BY <1>1, <1>4 DEF Idles, Settled
  <1> QED
    BY <1>1, <1>2, <1>3, <1>4

LEMMA AlwaysSettled == Spec => [](Typing /\ Settled)
  <1>1. Init => Settled
    BY DEF Init, Settled, Zero
  <1>2. Typing /\ Settled /\ [Next]_vars => Settled'
    BY SettledNext
  <1> QED
    BY AlwaysTyping, <1>1, <1>2, PTL DEF Spec

LEMMA LastOneCountsNext ==
  ASSUME Typing, Settled, LastOneCounts, [Next]_vars
  PROVE  LastOneCounts'
  <1>1. machine' = machine /\ (Detects \/ Executes \/ Idles)
    BY WhatHappens
  <1>2. Guess' = Guess
    BY <1>1 DEF Guess
  <1>3. CASE Detects
    <2>1. settings' = Start0
      BY <1>3 DEF Detects, Typing, Start0
    <2>2. /\ Start0.phys.start = PHYS_START /\ Start0.ramdisk_size = 0
          /\ Start0.break_on_entry = FALSE
      BY DetectedFields DEF Start0
    <2>3. /\ LastId' = DetectedId /\ LastPhys' = DetectedPhys
          /\ LastSize' = DetectedPhys /\ LastRd' = NoRd
          /\ \A i \in DOMAIN executed' : executed'[i].op # "enterbkpt"
      BY <1>1, <1>3, DetectsLasts
    <2> HIDE DEF Start0
    <2> QED
      BY <2>1, <2>2, <2>3 DEF LastOneCounts, DetectedId, DetectedPhys, NoRd
  <1>4. CASE Executes
    <2>1. PICK c \in Commands : /\ settings' = Execute(c, settings)
                                /\ executed' = Append(executed, c)
      BY <1>4 DEF Executes
    <2>2. settings = Shown(settings) /\ pc # "start"
      BY <1>4 DEF Executes, Settled
    <2>3. Changes(c, settings, settings')
      BY <2>1, <2>2, CommandsValid, ExecuteChanges DEF Settled
    <2>4. executed \in Seq(Commands)
      BY DEF Typing
    <2>5. /\ LastId' = IF SetsId(c) THEN c ELSE LastId
          /\ LastPhys' = IF SetsPhys(c) THEN c ELSE LastPhys
          /\ LastSize' = IF SetsSize(c) THEN c ELSE LastSize
          /\ LastRd' = IF SetsRd(c) THEN c ELSE LastRd
      BY <1>1, <2>1, <2>4, LastsNext
    <2>6. /\ settings'.machine_id
               = IF LastId'.op = "dtb" THEN DTB_MACH_ID ELSE LastId'.arg[1]
          /\ settings'.phys.start = LastPhys'.arg[1]
          /\ settings'.phys.size = IF LastSize'.op = "phys" THEN LastSize'.arg[2]
                                   ELSE Guess
          /\ settings'.ramdisk_size = LastRd'.arg[1]
      BY <2>2, <2>3, <2>5 DEF Changes, LastOneCounts
    <2>7. settings'.break_on_entry
            <=> \E i \in DOMAIN executed' : executed'[i].op = "enterbkpt"
      <3>1. (\E i \in DOMAIN executed' : executed'[i].op = "enterbkpt")
              <=> \/ c.op = "enterbkpt"
                  \/ \E i \in DOMAIN executed : executed[i].op = "enterbkpt"
        <4>1. /\ DOMAIN executed' = (DOMAIN executed) \cup {Len(executed) + 1}
              /\ executed'[Len(executed) + 1] = c
              /\ \A i \in DOMAIN executed : executed'[i] = executed[i]
          BY <2>1, <2>4
        <4> QED
          BY <4>1, Zenon
      <3>2. settings.break_on_entry
              <=> \E i \in DOMAIN executed : executed[i].op = "enterbkpt"
        BY <2>2 DEF LastOneCounts
      <3>3. CASE c.op = "enterbkpt"
        <4>1. settings'.break_on_entry = TRUE
          BY <2>3, <3>3 DEF Changes
        <4> QED
          BY <3>1, <3>3, <4>1
      <3>4. CASE c.op # "enterbkpt"
        <4>1. settings'.break_on_entry = settings.break_on_entry
          BY <2>3, <3>4 DEF Changes
        <4> QED
          BY <3>1, <3>2, <3>4, <4>1, Zenon
      <3> QED
        BY <3>3, <3>4
    <2> QED
      BY <1>2, <2>6, <2>7 DEF LastOneCounts
  <1>5. CASE Idles
    <2>1. /\ LastId' = LastId /\ LastPhys' = LastPhys /\ LastSize' = LastSize
          /\ LastRd' = LastRd
      BY <1>1, <1>5 DEF Idles, LastId, LastPhys, LastSize, LastRd, LastAmong, SetsId,
                        SetsPhys, SetsSize, SetsRd, Guess, Start0
    <2> QED
      BY <1>2, <1>5, <2>1 DEF Idles, LastOneCounts
  <1> QED
    BY <1>1, <1>3, <1>4, <1>5

(* Each setting of common.c is what the last line executed that gives it a *)
(* value says, or what main starts with: no other command touches it.      *)
THEOREM LastCounts == Spec => []LastOneCounts
  <1>1. Init => LastOneCounts
    BY DEF Init, LastOneCounts
  <1>2. Typing /\ Settled /\ LastOneCounts /\ [Next]_vars => LastOneCounts'
    BY LastOneCountsNext
  <1> QED
    BY AlwaysSettled, <1>1, <1>2, PTL DEF Spec

-----------------------------------------------------------------------------
(* The command line: the buffer is the last text given, cut to what there  *)
(* is room for, and NUL.                                                   *)
Cut(text) ==
  [i \in 1 .. CmdlineSize |-> IF i <= Len(text) /\ i < CmdlineSize THEN text[i] ELSE NUL]
Texts == {text \in {c.arg : c \in Commands} \cup {<< >>} :
            text \in Seq(Range(text) \ {NUL})}

CmdlineIs ==
  LastCmdline.arg \in Texts /\ settings.kernel_cmdline = Cut(LastCmdline.arg)

LEMMA CutOver ==
  ASSUME NEW old \in Texts, NEW text \in Texts
  PROVE  strncpy(Cut(old), text, CmdlineSize - 1) = Cut(text)
  <1> DEFINE n == CmdlineSize
  <1>1. n \in Nat \ {0} /\ Len(text) \in Nat
    BY SettingsAssumption DEF Texts
  <1>2. DOMAIN Cut(old) = 1 .. n
    BY DEF Cut
  <1>3. strncpy(Cut(old), text, n - 1)
          = [i \in 1 .. n |-> CASE i <= Len(text) /\ i <= n - 1 -> text[i]
                                [] i > Len(text) /\ i <= n - 1 -> NUL
                                [] OTHER -> Cut(old)[i]]
    BY <1>2 DEF strncpy
  <1>4. Cut(old)[n] = NUL
    BY <1>1 DEF Cut
  <1>5. ASSUME NEW i \in 1 .. n
        PROVE  (CASE i <= Len(text) /\ i <= n - 1 -> text[i]
                  [] i > Len(text) /\ i <= n - 1 -> NUL
                  [] OTHER -> Cut(old)[i])
               = IF i <= Len(text) /\ i < n THEN text[i] ELSE NUL
    <2>1. CASE i = n
      BY <1>1, <1>4, <2>1
    <2>2. CASE i < n /\ i <= Len(text)
      BY <1>1, <2>2
    <2>3. CASE i < n /\ i > Len(text)
      BY <1>1, <2>3
    <2> QED
      BY <1>1, <2>1, <2>2, <2>3
  <1> HIDE DEF n
  <1> QED
    BY <1>3, <1>5 DEF Cut, n

LEMMA TextOfCut ==
  ASSUME NEW text \in Texts
  PROVE  /\ Cut(text)[CmdlineSize] = NUL
         /\ Text(Cut(text)) = SubSeq(text, 1, IF Len(text) < CmdlineSize
                                              THEN Len(text) ELSE CmdlineSize - 1)
  <1> DEFINE n == CmdlineSize
             k == IF Len(text) < n THEN Len(text) ELSE n - 1
             buf == Cut(text)
             T == Range(text) \ {NUL}
             Ends(i) == buf[i] = NUL /\ \A j \in 1 .. i - 1 : buf[j] # NUL
  <1>1. n \in Nat \ {0} /\ Len(text) \in Nat /\ text \in Seq(T)
    BY SettingsAssumption DEF Texts
  <1>2. k \in 0 .. n - 1 /\ k <= Len(text)
    BY <1>1
  <1>3. DOMAIN buf = 1 .. n /\ buf[n] = NUL
    BY <1>1 DEF Cut
  <1>4. \A i \in 1 .. k : text[i] \in T
    BY <1>1, <1>2, ElementOfSeq
  <1>5. \A i \in 1 .. k : buf[i] = text[i] /\ buf[i] # NUL
    BY <1>1, <1>2, <1>4 DEF Cut
  <1>6. buf[k + 1] = NUL
    BY <1>1, <1>2 DEF Cut
  <1> HIDE DEF k, buf, n
  <1>7. k + 1 \in DOMAIN buf /\ Ends(k + 1)
    BY <1>1, <1>2, <1>3, <1>5, <1>6
  <1>8. ASSUME NEW i \in DOMAIN buf, Ends(i) PROVE i = k + 1
    <2>1. i \in 1 .. n /\ ~(i <= k)
      BY <1>2, <1>3, <1>5, <1>8
    <2>2. k + 1 \notin 1 .. i - 1
      BY <1>6, <1>8
    <2> QED
      BY <1>1, <1>2, <2>1, <2>2
  <1>9. (CHOOSE i \in DOMAIN buf : Ends(i)) = k + 1
    <2> HIDE DEF Ends
    <2> QED
      BY <1>7, <1>8
  <1>10. Text(buf) = SubSeq(buf, 1, (k + 1) - 1)
    BY <1>9 DEF Text
  <1>11. (k + 1) - 1 = k /\ k \in Int /\ k - 1 + 1 = k
    BY <1>1, <1>2
  <1>12. Text(buf) = SubSeq(buf, 1, k)
    BY <1>10, <1>11
  <1>13. SubSeq(buf, 1, k) = SubSeq(text, 1, k)
    <2>1. /\ SubSeq(buf, 1, k) \in Seq(T)
          /\ Len(SubSeq(buf, 1, k)) = IF 1 <= k THEN k - 1 + 1 ELSE 0
          /\ \A i \in 1 .. k - 1 + 1 : SubSeq(buf, 1, k)[i] = buf[1 + i - 1]
      BY <1>4, <1>5, <1>11, SubSeqProperties
    <2>2. /\ SubSeq(text, 1, k) \in Seq(T)
          /\ Len(SubSeq(text, 1, k)) = IF 1 <= k THEN k - 1 + 1 ELSE 0
          /\ \A i \in 1 .. k - 1 + 1 : SubSeq(text, 1, k)[i] = text[1 + i - 1]
      BY <1>4, <1>11, SubSeqProperties
    <2>3. \A i \in 1 .. Len(SubSeq(buf, 1, k)) :
            SubSeq(buf, 1, k)[i] = SubSeq(text, 1, k)[i]
      <3> SUFFICES ASSUME NEW i \in 1 .. Len(SubSeq(buf, 1, k))
                   PROVE  SubSeq(buf, 1, k)[i] = SubSeq(text, 1, k)[i]
        OBVIOUS
      <3>1. i \in 1 .. k /\ 1 + i - 1 = i
        BY <1>2, <2>1
      <3> QED
        BY <1>5, <1>11, <2>1, <2>2, <3>1
    <2> QED
      BY <2>1, <2>2, <2>3, SeqEqual
  <1> QED
    BY <1>3, <1>12, <1>13 DEF k, buf, n

LEMMA CmdlineIsNext ==
  ASSUME Typing, Settled, CmdlineIs, [Next]_vars
  PROVE  CmdlineIs'
  <1>1. machine' = machine /\ (Detects \/ Executes \/ Idles)
    BY WhatHappens
  <1>2. CASE Detects
    <2>1. settings' = Start0
      BY <1>2 DEF Detects, Typing, Start0
    <2>2. Start0.kernel_cmdline = [i \in 1 .. CmdlineSize |-> NUL]
      BY DetectedFields DEF Start0
    <2>3. LastCmdline'.arg = << >>
      BY <1>1, <1>2, DetectsLasts DEF NoCmdline
    <2>4. Cut(<< >>) = [i \in 1 .. CmdlineSize |-> NUL] /\ << >> \in Texts
      BY DEF Cut, Texts
    <2> QED
      BY <2>1, <2>2, <2>3, <2>4 DEF CmdlineIs
  <1>3. CASE Executes
    <2>1. PICK c \in Commands : /\ settings' = Execute(c, settings)
                                /\ executed' = Append(executed, c)
      BY <1>3 DEF Executes
    <2>2. settings = Shown(settings) /\ Valid(c)
      BY <1>3, CommandsValid DEF Executes, Settled
    <2>3. Changes(c, settings, settings')
      BY <2>1, <2>2, ExecuteChanges DEF Settled
    <2>4. LastCmdline' = IF SetsCmdline(c) THEN c ELSE LastCmdline
      BY <1>1, <2>1, LastsNext DEF Typing
    <2>5. CASE SetsCmdline(c)
      <3>1. c.arg \in Texts
        BY <2>2, <2>5 DEF SetsCmdline, Valid, Texts
      <3> QED
        BY <2>3, <2>4, <2>5, <3>1, CutOver DEF CmdlineIs, Changes
    <2>6. CASE ~SetsCmdline(c)
      BY <2>3, <2>4, <2>6 DEF CmdlineIs, Changes
    <2> QED
      BY <2>5, <2>6
  <1>4. CASE Idles
    <2>1. LastCmdline' = LastCmdline
      BY <1>4 DEF Idles, LastCmdline, LastAmong, SetsCmdline
    <2> QED
      BY <1>4, <2>1 DEF Idles, CmdlineIs
  <1> QED
    BY <1>1, <1>2, <1>3, <1>4

(* kernel_cmdline, which strncpy fills, always ends in a NUL inside its    *)
(* buffer, and holds the last line given to cmdline that was not empty, as *)
(* far as there is room for it, and nothing of a longer one before it.     *)
THEOREM CmdlineKept == Spec => []CmdlineWhole
  <1>1. Init => CmdlineIs
    <2> SUFFICES ASSUME Init PROVE CmdlineIs
      OBVIOUS
    <2>1. LastCmdline = NoCmdline
      BY LastsNone DEF Init
    <2>2. settings.kernel_cmdline = [i \in 1 .. CmdlineSize |-> NUL]
      BY DEF Init, Zero
    <2>3. Cut(<< >>) = [i \in 1 .. CmdlineSize |-> NUL] /\ << >> \in Texts
      BY DEF Cut, Texts
    <2> QED
      BY <2>1, <2>2, <2>3 DEF CmdlineIs, NoCmdline
  <1>2. Typing /\ Settled /\ CmdlineIs /\ [Next]_vars => CmdlineIs'
    BY CmdlineIsNext
  <1>3. CmdlineIs => CmdlineWhole
    BY TextOfCut DEF CmdlineIs, CmdlineWhole
  <1> QED
    BY AlwaysSettled, <1>1, <1>2, <1>3, PTL DEF Spec

-----------------------------------------------------------------------------
(* The serial number: where each bit of a field goes. *)
Adds(v, r, x, w, new) ==
  /\ new \subseteq Nat
  /\ \A j \in Nat : j < w => (j \in new <=> j + x \in r)
  /\ \A j \in Nat : j >= w => (j \in new <=> j - w \in v)

LEMMA AddBits ==
  ASSUME NEW v, v \subseteq Nat, NEW r, r \subseteq Nat,
         NEW x \in Nat, NEW y \in Nat, NEW w \in Nat \ {0}, w = y - x + 1
  PROVE  Adds(v, r, x, w, ADD_BITS(v, r, x, y))
  <1> DEFINE hi == {i + w : i \in v}
             lo == Mod(Div(r, x), w)
  <1>1. ADD_BITS(v, r, x, y) = hi \cup lo
    BY DEF ADD_BITS
  <1>2. \A j \in Nat : j \in lo <=> j < w /\ j + x \in r
    BY DEF Mod, Div
  <1>3. \A j \in Nat : j \in hi <=> j >= w /\ j - w \in v
    OBVIOUS
  <1>4. hi \subseteq Nat /\ lo \subseteq Nat
    BY DEF Mod, Div
  <1> HIDE DEF hi, lo
  <1> QED
    BY <1>1, <1>2, <1>3, <1>4 DEF Adds

(* The bit of the serial number j, in the word that is read. *)
FromRaw(j, raw) ==
  \/ j = 0 /\ 3 \in raw
  \/ j \in 1 .. 3 /\ j + 4 \in raw
  \/ j \in 4 .. 10 /\ j + 5 \in raw
  \/ j \in 11 .. 25 /\ j + 6 \in raw
  \/ j \in 26 .. 48 /\ j + 7 \in raw

LEMMA SerialBits ==
  ASSUME NEW raw, raw \subseteq 0 .. 63
  PROVE  /\ serial(raw) \subseteq Nat
         /\ \A j \in Nat : j \in serial(raw) <=> FromRaw(j, raw)
  <1> DEFINE v1 == ADD_BITS({}, raw, 33, 55)
             v2 == ADD_BITS(v1, raw, 17, 31)
             v3 == ADD_BITS(v2, raw, 9, 15)
             v4 == ADD_BITS(v3, raw, 5, 7)
             v5 == ADD_BITS(v4, raw, 3, 3)
  <1>0. raw \subseteq Nat /\ {} \subseteq Nat /\ serial(raw) = v5
    BY DEF serial
  <1>1. Adds({}, raw, 33, 23, v1)
    <2>1. {} \subseteq Nat
      BY <1>0 DEF Adds
    <2>2. 33 \in Nat /\ 55 \in Nat /\ 23 \in Nat \ {0} /\ 23 = 55 - 33 + 1
      OBVIOUS
    <2> QED
      BY <1>0, <2>1, <2>2, AddBits, Zenon
  <1> HIDE DEF v1
  <1>2. Adds(v1, raw, 17, 15, v2)
    <2>1. v1 \subseteq Nat
      BY <1>0, <1>1 DEF Adds
    <2>2. 17 \in Nat /\ 31 \in Nat /\ 15 \in Nat \ {0} /\ 15 = 31 - 17 + 1
      OBVIOUS
    <2> QED
      BY <1>0, <2>1, <2>2, AddBits, Zenon
  <1> HIDE DEF v2
  <1>3. Adds(v2, raw, 9, 7, v3)
    <2>1. v2 \subseteq Nat
      BY <1>0, <1>2 DEF Adds
    <2>2. 9 \in Nat /\ 15 \in Nat /\ 7 \in Nat \ {0} /\ 7 = 15 - 9 + 1
      OBVIOUS
    <2> QED
      BY <1>0, <2>1, <2>2, AddBits, Zenon
  <1> HIDE DEF v3
  <1>4. Adds(v3, raw, 5, 3, v4)
    <2>1. v3 \subseteq Nat
      BY <1>0, <1>3 DEF Adds
    <2>2. 5 \in Nat /\ 7 \in Nat /\ 3 \in Nat \ {0} /\ 3 = 7 - 5 + 1
      OBVIOUS
    <2> QED
      BY <1>0, <2>1, <2>2, AddBits, Zenon
  <1> HIDE DEF v4
  <1>5. Adds(v4, raw, 3, 1, v5)
    <2>1. v4 \subseteq Nat
      BY <1>0, <1>4 DEF Adds
    <2>2. 3 \in Nat /\ 3 \in Nat /\ 1 \in Nat \ {0} /\ 1 = 3 - 3 + 1
      OBVIOUS
    <2> QED
      BY <1>0, <2>1, <2>2, AddBits, Zenon
  <1> HIDE DEF v5
  <1>6. \A j \in Nat : j >= 1 => (j \in v5 <=> j - 1 \in v4)
    BY <1>5 DEF Adds
  <1>7. \A j \in Nat : j >= 4 => (j \in v5 <=> j - 4 \in v3)
    BY <1>4, <1>6 DEF Adds
  <1>8. \A j \in Nat : j >= 11 => (j \in v5 <=> j - 11 \in v2)
    BY <1>3, <1>7 DEF Adds
  <1>9. \A j \in Nat : j >= 26 => (j \in v5 <=> j - 26 \in v1)
    BY <1>2, <1>8 DEF Adds
  <1>10. ASSUME NEW j \in Nat PROVE j \in v5 <=> FromRaw(j, raw)
    <2>1. CASE j = 0
      BY <1>5, <2>1 DEF Adds, FromRaw
    <2>2. CASE j \in 1 .. 3
      BY <1>4, <1>6, <2>2 DEF Adds, FromRaw
    <2>3. CASE j \in 4 .. 10
      BY <1>3, <1>7, <2>3 DEF Adds, FromRaw
    <2>4. CASE j \in 11 .. 25
      BY <1>2, <1>8, <2>4 DEF Adds, FromRaw
    <2>5. CASE j \in 26 .. 48
      BY <1>1, <1>9, <2>5 DEF Adds, FromRaw
    <2>6. CASE j > 48
      BY <1>1, <1>9, <2>6 DEF Adds, FromRaw
    <2> QED
      BY <2>1, <2>2, <2>3, <2>4, <2>5, <2>6
  <1> QED
    BY <1>0, <1>5, <1>10 DEF Adds

(* So two words have the same serial number, cut in two as it is, only if  *)
(* they agree in all fields.                                               *)
LEMMA SerialsDiffer ==
  ASSUME NEW a, a \subseteq 0 .. 63, NEW b, b \subseteq 0 .. 63
  PROVE  serial(a) = serial(b) <=> a \cap Fields = b \cap Fields
  <1>1. \A i : i \in Fields <=> \/ i \in 33 .. 55
                                \/ i \in 17 .. 31
                                \/ i \in 9 .. 15
                                \/ i \in 5 .. 7
                                \/ i = 3
    BY DEF Fields
  <1>2. \A j \in Nat : j \in serial(a) <=> FromRaw(j, a)
    BY SerialBits
  <1>3. \A j \in Nat : j \in serial(b) <=> FromRaw(j, b)
    BY SerialBits
  <1>4. ASSUME serial(a) = serial(b), NEW i \in Fields PROVE i \in a <=> i \in b
    <2>0. \A j \in Nat : FromRaw(j, a) <=> FromRaw(j, b)
      BY <1>2, <1>3, <1>4
    <2>1. CASE i = 3
      BY <2>0, <2>1, 0 \in Nat DEF FromRaw
    <2>2. CASE i \in 5 .. 7
      <3>1. i - 4 \in Nat /\ i - 4 \in 1 .. 3 /\ i - 4 + 4 = i
        BY <2>2
      <3> QED
        BY <2>0, <3>1 DEF FromRaw
    <2>3. CASE i \in 9 .. 15
      <3>1. i - 5 \in Nat /\ i - 5 \in 4 .. 10 /\ i - 5 + 5 = i
        BY <2>3
      <3> QED
        BY <2>0, <3>1 DEF FromRaw
    <2>4. CASE i \in 17 .. 31
      <3>1. i - 6 \in Nat /\ i - 6 \in 11 .. 25 /\ i - 6 + 6 = i
        BY <2>4
      <3> QED
        BY <2>0, <3>1 DEF FromRaw
    <2>5. CASE i \in 33 .. 55
      <3>1. i - 7 \in Nat /\ i - 7 \in 26 .. 48 /\ i - 7 + 7 = i
        BY <2>5
      <3> QED
        BY <2>0, <3>1 DEF FromRaw
    <2> QED
      BY <1>1, <2>1, <2>2, <2>3, <2>4, <2>5
  <1>5. ASSUME a \cap Fields = b \cap Fields PROVE serial(a) = serial(b)
    <2>1. \A i : i \in Fields => (i \in a <=> i \in b)
      BY <1>5
    <2>2. \A j \in Nat : FromRaw(j, a) <=> FromRaw(j, b)
      BY <1>1, <2>1 DEF FromRaw
    <2>3. serial(a) \subseteq Nat /\ serial(b) \subseteq Nat
      BY SerialBits
    <2> QED
      BY <1>2, <1>3, <2>2, <2>3
  <1> QED
    BY <1>4, <1>5

LEMMA TwoWords ==
  ASSUME NEW v, v \subseteq Nat, NEW w, w \subseteq Nat,
         \A i \in v \cup w : i < 64
  PROVE  <<Mod(v, 32), Mod(Div(v, 32), 32)>> = <<Mod(w, 32), Mod(Div(w, 32), 32)>>
           <=> v = w
  <1>1. ASSUME Mod(v, 32) = Mod(w, 32), Mod(Div(v, 32), 32) = Mod(Div(w, 32), 32),
               NEW i \in Nat, i < 64
        PROVE  i \in v <=> i \in w
    <2>1. CASE i < 32
      BY <1>1, <2>1 DEF Mod
    <2>2. CASE i >= 32
      <3>1. i - 32 \in Nat /\ i - 32 < 32
        BY <1>1, <2>2
      <3>2. i \in v <=> i - 32 \in Mod(Div(v, 32), 32)
        BY <2>2, <3>1 DEF Mod, Div
      <3>3. i \in w <=> i - 32 \in Mod(Div(w, 32), 32)
        BY <2>2, <3>1 DEF Mod, Div
      <3> QED
        BY <1>1, <3>2, <3>3
    <2> QED
      BY <2>1, <2>2
  <1>2. ASSUME Mod(v, 32) = Mod(w, 32), Mod(Div(v, 32), 32) = Mod(Div(w, 32), 32)
        PROVE  v = w
    BY <1>1, <1>2
  <1> QED
    BY <1>2

(* detect_serialnr keeps every bit of the serial number at its place: of   *)
(* two machines that differ in it, the kernel is told different numbers.   *)
THEOREM SerialsKept == Spec => []SerialKept
  <1>1. Typing /\ Settled => SerialKept
    <2> SUFFICES ASSUME Typing, Settled, pc # "start", NEW m \in Machines
                 PROVE  SerialOf[m] = settings.serialnr
                          <=> m.raw_serial \cap Fields = machine.raw_serial \cap Fields
      BY DEF SerialKept
    <2>1. machine \in Machines
      BY DEF Typing
    <2> DEFINE Words(k) == <<Mod(serial(k.raw_serial), 32),
                             Mod(Div(serial(k.raw_serial), 32), 32)>>
    <2>2. \A k \in Machines : SerialOf[k] = Words(k)
      <3> SUFFICES ASSUME NEW k \in Machines PROVE SerialOf[k] = Words(k)
        OBVIOUS
      <3>1. SerialOf[k] = Detected(Zero(k), k).serialnr
        BY DEF SerialOf
      <3> QED
        BY <3>1, DetectedFields
    <2>3. settings.serialnr = Words(machine)
      BY DetectedFields DEF Settled, Start0
    <2>4. \A k \in Machines : /\ serial(k.raw_serial) \subseteq Nat
                              /\ \A i \in serial(k.raw_serial) : i < 64
      BY MachinesAssumption, SerialBits DEF FromRaw
    <2>5. Words(m) = Words(machine)
            <=> serial(m.raw_serial) = serial(machine.raw_serial)
      BY <2>1, <2>4, TwoWords
    <2> QED
      BY <2>1, <2>2, <2>3, <2>5, MachinesAssumption, SerialsDiffer
  <1> QED
    BY AlwaysSettled, <1>1, PTL

-----------------------------------------------------------------------------
(* Scripts inside scripts.  With scripts that do not run each other in     *)
(* circles, the open ones are of higher and higher rank.                   *)
Ranks(rank) ==
  /\ rank \in [Scripts -> 1 .. Cardinality(Scripts)]
  /\ \A s \in Scripts : \A n \in DOMAIN Lines[s] : \A c \in Range(Lines[s][n]) :
       c.op = "script" /\ c.arg \in Scripts => rank[c.arg] < rank[s]

Called(st, i) ==
  /\ st[i + 1] # Start(st[i + 1].script)
  /\ LastRead(st[i + 1]) = [op |-> "script", arg |-> st[i].script]
Nested(st, rank) ==
  /\ \A i \in 1 .. Len(st) - 1 : Called(st, i)
  /\ \A i, j \in 1 .. Len(st) : i < j => rank[st[i].script] < rank[st[j].script]

LEMMA PieceRank ==
  ASSUME NEW rank, Ranks(rank), NEW at \in Positions, ~AtEnd(at),
         Piece(at).op = "script", Piece(at).arg \in Scripts
  PROVE  rank[Piece(at).arg] < rank[at.script]
  <1> DEFINE s == at.script
             n == at.line
             line == Lines[s][n]
  <1>1. s \in Scripts /\ n \in Nat \ {0} /\ at.piece \in Nat \ {0}
    BY DEF Positions
  <1>2. Lines[s] \in Seq(Seq(Pieces) \ {<< >>})
    BY <1>1, LinesAssumption
  <1>3. n \in DOMAIN Lines[s] /\ at.piece <= Len(line)
    BY <1>1, <1>2 DEF Positions, AtEnd
  <1>4. line \in Seq(Pieces)
    BY <1>2, <1>3
  <1>5. at.piece \in DOMAIN line /\ Piece(at) = line[at.piece]
    BY <1>1, <1>3, <1>4 DEF Piece
  <1>6. Piece(at) \in Range(line)
    BY <1>5 DEF Range
  <1> QED
    BY <1>1, <1>3, <1>6 DEF Ranks

LEMMA Onto ==
  ASSUME NEW S, NEW x \in S, NEW st \in Seq(S)
  PROVE  /\ <<x>> \o st \in Seq(S) /\ Len(<<x>> \o st) = Len(st) + 1
         /\ (<<x>> \o st)[1] = x
         /\ \A i \in 1 .. Len(st) : (<<x>> \o st)[i + 1] = st[i]
  <1>1. <<x>> \in Seq(S) /\ Len(<<x>>) = 1 /\ <<x>>[1] = x
    OBVIOUS
  <1>2. /\ <<x>> \o st \in Seq(S) /\ Len(<<x>> \o st) = 1 + Len(st)
        /\ \A i \in 1 .. 1 + Len(st) :
             (<<x>> \o st)[i] = IF i <= 1 THEN <<x>>[i] ELSE st[i - 1]
    BY <1>1, ConcatProperties
  <1>3. Len(st) \in Nat
    OBVIOUS
  <1>4. ASSUME NEW i \in 1 .. Len(st) PROVE (<<x>> \o st)[i + 1] = st[i]
    <2>1. i + 1 \in 1 .. 1 + Len(st) /\ ~(i + 1 <= 1) /\ (i + 1) - 1 = i
      BY <1>3
    <2> QED
      BY <1>2, <2>1
  <1> QED
    BY <1>1, <1>2, <1>3, <1>4

LEMMA NestedTail ==
  ASSUME NEW rank, NEW st \in Seq(Positions), st # << >>, Nested(st, rank)
  PROVE  Nested(Tail(st), rank)
  <1> DEFINE t == Tail(st)
  <1>1. /\ Len(st) \in Nat \ {0} /\ Len(t) = Len(st) - 1
        /\ \A i \in 1 .. Len(t) : t[i] = st[i + 1]
    BY HeadTailProperties
  <1> HIDE DEF t
  <1>2. ASSUME NEW i \in 1 .. Len(t) - 1 PROVE Called(t, i)
    <2>1. i + 1 \in 1 .. Len(st) - 1 /\ i + 1 \in 1 .. Len(t) /\ i \in 1 .. Len(t)
      BY <1>1
    <2>2. Called(st, i + 1) /\ t[i] = st[i + 1] /\ t[i + 1] = st[(i + 1) + 1]
      BY <1>1, <2>1 DEF Nested
    <2> QED
      BY <2>2 DEF Called
  <1>3. ASSUME NEW i \in 1 .. Len(t), NEW j \in 1 .. Len(t), i < j
        PROVE  rank[t[i].script] < rank[t[j].script]
    <2>1. i + 1 \in 1 .. Len(st) /\ j + 1 \in 1 .. Len(st) /\ i + 1 < j + 1
      BY <1>1, <1>3
    <2> QED
      BY <1>1, <2>1 DEF Nested
  <1> QED
    BY <1>2, <1>3 DEF Nested, t

(* A new innermost script, or position in it. *)
LEMMA NestedOnto ==
  ASSUME NEW rank, Ranks(rank), NEW at \in Positions, NEW st \in Seq(Positions),
         Nested(st, rank),
         st # << >> => /\ st[1] # Start(st[1].script)
                       /\ LastRead(st[1]) = [op |-> "script", arg |-> at.script]
                       /\ rank[at.script] < rank[st[1].script]
  PROVE  Nested(<<at>> \o st, rank)
  <1> DEFINE u == <<at>> \o st
  <1>1. /\ Len(st) \in Nat /\ Len(u) = Len(st) + 1 /\ u[1] = at
        /\ \A i \in 1 .. Len(st) : u[i + 1] = st[i]
    BY Onto
  <1>2. /\ \A i \in 1 .. Len(st) : st[i].script \in Scripts
        /\ at.script \in Scripts
    BY DEF Positions
  <1>3. \A s \in Scripts : rank[s] \in Int
    BY DEF Ranks
  <1> HIDE DEF u
  <1>4. ASSUME NEW i \in 1 .. Len(u) - 1 PROVE Called(u, i)
    <2>1. CASE i = 1
      <3>1. st # << >> /\ 1 \in 1 .. Len(st)
        BY <1>1, <2>1
      <3>2. u[1 + 1] = st[1]
        BY <1>1, <3>1
      <3> QED
        BY <1>1, <2>1, <3>1, <3>2 DEF Called
    <2>2. CASE i > 1
      <3> DEFINE k == i - 1
      <3>1. k \in 1 .. Len(st) - 1 /\ k \in 1 .. Len(st) /\ k + 1 \in 1 .. Len(st)
            /\ i = k + 1
        BY <1>1, <2>2
      <3> HIDE DEF k
      <3>2. Called(st, k) /\ u[k + 1] = st[k] /\ u[(k + 1) + 1] = st[k + 1]
        BY <1>1, <3>1 DEF Nested
      <3> QED
        BY <3>1, <3>2 DEF Called
    <2> QED
      BY <2>1, <2>2
  <1>5. ASSUME NEW i \in 1 .. Len(u), NEW j \in 1 .. Len(u), i < j
        PROVE  rank[u[i].script] < rank[u[j].script]
    <2> DEFINE k == j - 1
    <2>1. k \in 1 .. Len(st) /\ j = k + 1
      BY <1>1, <1>5
    <2> HIDE DEF k
    <2>2. u[j] = st[k]
      BY <1>1, <2>1
    <2>3. CASE i = 1
      <3>1. st # << >> /\ 1 \in 1 .. Len(st) /\ u[i] = at
        BY <1>1, <2>1, <2>3
      <3>2. rank[at.script] < rank[st[1].script]
        BY <3>1
      <3>3. k = 1 \/ rank[st[1].script] < rank[st[k].script]
        BY <1>1, <2>1, <3>1 DEF Nested
      <3>4. /\ rank[at.script] \in Int /\ rank[st[1].script] \in Int
            /\ rank[st[k].script] \in Int
        BY <1>2, <1>3, <2>1, <3>1
      <3> QED
        BY <2>2, <3>1, <3>2, <3>3, <3>4
    <2>4. CASE i > 1
      <3> DEFINE l == i - 1
      <3>1. l \in 1 .. Len(st) /\ i = l + 1 /\ l < k
        BY <1>1, <1>5, <2>1, <2>4
      <3> HIDE DEF l
      <3>2. u[i] = st[l] /\ rank[st[l].script] < rank[st[k].script]
        BY <1>1, <2>1, <3>1 DEF Nested
      <3> QED
        BY <2>2, <3>2
    <2> QED
      BY <2>3, <2>4
  <1> QED
    BY <1>4, <1>5 DEF Nested, u

(* The position of the innermost script goes on. *)
LEMMA NestedAdvance ==
  ASSUME NEW rank, Ranks(rank), NEW st \in Seq(Positions), st # << >>,
         Nested(st, rank), ~AtEnd(Head(st))
  PROVE  /\ <<Advance(Head(st))>> \o Tail(st) \in Seq(Positions)
         /\ Nested(<<Advance(Head(st))>> \o Tail(st), rank)
  <1> DEFINE at == Head(st)
             t == Tail(st)
  <1>1. /\ at \in Positions /\ t \in Seq(Positions) /\ at = st[1]
        /\ Len(st) \in Nat \ {0} /\ Len(t) = Len(st) - 1
        /\ \A i \in 1 .. Len(t) : t[i] = st[i + 1]
    BY HeadTailProperties
  <1>2. Advance(at) \in Positions /\ Advance(at).script = at.script
    BY <1>1, NextPosition
  <1>3. Nested(t, rank)
    BY NestedTail
  <1>4. ASSUME t # << >>
        PROVE  /\ t[1] # Start(t[1].script)
               /\ LastRead(t[1]) = [op |-> "script", arg |-> Advance(at).script]
               /\ rank[Advance(at).script] < rank[t[1].script]
    <2>1. /\ 1 \in 1 .. Len(t) /\ 1 \in 1 .. Len(st) - 1 /\ 1 \in 1 .. Len(st)
          /\ 1 + 1 \in 1 .. Len(st) /\ 1 < 1 + 1
      BY <1>1, <1>4
    <2>2. t[1] = st[1 + 1] /\ Called(st, 1)
          /\ rank[st[1].script] < rank[st[1 + 1].script]
      BY <1>1, <2>1 DEF Nested
    <2> QED
      BY <1>1, <1>2, <2>2 DEF Called
  <1> HIDE DEF t
  <1>5. Nested(<<Advance(at)>> \o t, rank)
    BY <1>1, <1>2, <1>3, <1>4, NestedOnto
  <1> QED
    BY <1>1, <1>2, <1>5, Onto DEF t

LEMMA NestedNext ==
  ASSUME NEW rank, Ranks(rank), Typing, Nested(stack, rank), [Next]_vars
  PROVE  Nested(stack', rank)
  <1>0. stack \in Seq(Positions) /\ Nested(<< >>, rank) /\ << >> \in Seq(Positions)
    BY DEF Typing, Nested
  <1>1. ASSUME NEW s \in Scripts PROVE Nested(<<Start(s)>> \o << >>, rank)
    <2>1. Start(s) \in Positions
      BY StartPosition
    <2> QED
      BY <1>0, <2>1, NestedOnto
  <1>2. CASE Main
    <2>1. stack' = stack \/ \E s \in Scripts : stack' = <<Start(s)>> \o << >>
      BY <1>2 DEF Main, load_script
    <2> QED
      BY <1>1, <2>1
  <1>3. CASE Prompt
    <2>1. stack' = << >> \/ \E s \in Scripts : stack' = <<Start(s)>> \o << >>
      <3>1. PICK c \in Typed : process_cmd(c, << >>)
        BY <1>3 DEF Prompt
      <3> QED
        BY <3>1 DEF process_cmd, load_script
    <2> QED
      BY <1>0, <1>1, <2>1
  <1>4. CASE ReadLine
    <2> DEFINE at == Head(stack)
               open == <<Advance(at)>> \o Tail(stack)
               c == Piece(at)
    <2>1. stack # << >> /\ ~AtEnd(at) /\ process_cmd(c, open)
      BY <1>4 DEF ReadLine
    <2>2. open \in Seq(Positions) /\ Nested(open, rank)
      BY <1>0, <2>1, NestedAdvance
    <2>3. at \in Positions /\ Tail(stack) \in Seq(Positions)
      BY <1>0, <2>1
    <2>4. /\ c \in Pieces /\ Advance(at) \in Positions
          /\ Advance(at).script = at.script
          /\ Advance(at) # Start(at.script)
          /\ LastRead(Advance(at)) = c
      BY <2>1, <2>3, NextPosition
    <2>5. CASE stack' = open
      BY <2>2, <2>5
    <2>6. CASE c.op = "script" /\ c.arg \in Scripts /\ stack' = <<Start(c.arg)>> \o open
      <3>1. Start(c.arg) \in Positions /\ Start(c.arg).script = c.arg
        BY <2>6, StartPosition DEF Start
      <3>2. c = [op |-> "script", arg |-> c.arg]
        <4>1. Valid(c)
          BY <2>4, CommandsValid DEF Commands
        <4> QED
          BY <2>6, <4>1 DEF Valid
      <3>3. rank[c.arg] < rank[at.script]
        BY <2>1, <2>3, <2>6, PieceRank
      <3>4. open[1] = Advance(at)
        BY <2>3, <2>4, Onto
      <3> HIDE DEF open, c, at
      <3>5. /\ open[1] # Start(open[1].script)
            /\ LastRead(open[1]) = [op |-> "script", arg |-> Start(c.arg).script]
            /\ rank[Start(c.arg).script] < rank[open[1].script]
        BY <2>4, <3>1, <3>2, <3>3, <3>4
      <3>6. Nested(<<Start(c.arg)>> \o open, rank)
        BY <2>2, <3>1, <3>5, NestedOnto
      <3> QED
        BY <2>6, <3>6
    <2> QED
      BY <2>1, <2>5, <2>6 DEF process_cmd, load_script
  <1>5. CASE EndOfScript
    BY <1>0, <1>5, NestedTail DEF EndOfScript
  <1>6. CASE UNCHANGED vars
    BY <1>6 DEF vars
  <1> QED
    BY <1>2, <1>3, <1>4, <1>5, <1>6 DEF Next

(* A script is open only once, and each one that waits has just read the   *)
(* piece that names the next.                                              *)
THEOREM WellTyped == ASSUME Acyclic PROVE Spec => []TypeOK
  <1>1. PICK rank : Ranks(rank)
    BY DEF Acyclic, Ranks
  <1>2. Init => Nested(stack, rank)
    BY DEF Init, Nested
  <1>3. Typing /\ Nested(stack, rank) /\ [Next]_vars => Nested(stack, rank)'
    BY <1>1, NestedNext
  <1>4. Typing /\ Nested(stack, rank) => TypeOK
    <2> SUFFICES ASSUME Typing, Nested(stack, rank) PROVE TypeOK
      OBVIOUS
    <2>1. stack \in Seq(Positions)
      BY DEF Typing
    <2>2. \A i \in DOMAIN stack : stack[i].script \in Scripts
      BY <2>1 DEF Positions
    <2>3. ASSUME NEW i \in 1 .. Len(stack) - 1
          PROVE  /\ stack[i + 1] # Start(stack[i + 1].script)
                 /\ LastRead(stack[i + 1]) = [op |-> "script", arg |-> stack[i].script]
                 /\ \A j \in i + 1 .. Len(stack) : stack[j].script # stack[i].script
      <3>1. Called(stack, i)
        BY DEF Nested
      <3>2. ASSUME NEW j \in i + 1 .. Len(stack)
            PROVE  stack[j].script # stack[i].script
        <4>1. i \in 1 .. Len(stack) /\ j \in 1 .. Len(stack) /\ i < j
          BY <2>1
        <4>2. rank[stack[i].script] < rank[stack[j].script]
          BY <4>1 DEF Nested
        <4>3. rank[stack[i].script] \in Int
          BY <1>1, <2>1, <2>2, <4>1 DEF Ranks
        <4> QED
          BY <4>2, <4>3
      <3> QED
        BY <3>1, <3>2 DEF Called
    <2> QED
      BY <2>2, <2>3 DEF Typing, TypeOK
  <1> QED
    BY <1>2, <1>3, <1>4, AlwaysTyping, PTL DEF Spec

-----------------------------------------------------------------------------
(* What a command executes.  Exec refers to itself, so first that there is *)
(* such a function: for every depth, from the one before.                  *)
Depth == Cardinality(Scripts)
Runs(c) == c.op = "script" /\ c.arg \in Scripts
Inside(s) == PiecesFrom(Start(s))

ExecOnce(c, f, d) ==
  IF Ignored(c) THEN << >>
  ELSE IF Runs(c) /\ d > 0
       THEN <<c>> \o FlattenSeq([i \in DOMAIN Inside(c.arg) |->
                                   f[d - 1][Inside(c.arg)[i]]])
       ELSE <<c>>
ExecUpto(n, f) ==
  f = [d \in 0 .. n |-> [c \in Commands |-> ExecOnce(c, f, d)]]

LEMMA DepthType == Depth \in Nat
  BY LinesAssumption, FS_CardinalityType DEF Depth

LEMMA PiecesAt ==
  ASSUME NEW s, NEW n, NEW p, NEW at,
         at = [script |-> s, line |-> n, piece |-> p], ~AtEnd(at)
  PROVE  PiecesFrom(at) = SubSeq(Lines[s][n], p, Len(Lines[s][n]))
                            \o FlattenSeq(SubSeq(Lines[s], n + 1, Len(Lines[s])))
  <1>1. at.script = s /\ at.line = n /\ at.piece = p
    OBVIOUS
  <1> QED
    BY <1>1 DEF PiecesFrom

(* What is left at a position: the piece there, and what is left after it. *)
LEMMA PiecesType ==
  ASSUME NEW at \in Positions
  PROVE  /\ PiecesFrom(at) \in Seq(Pieces)
         /\ AtEnd(at) => PiecesFrom(at) = << >>
         /\ ~AtEnd(at) => PiecesFrom(at) = <<Piece(at)>> \o PiecesFrom(Advance(at))
  <1> DEFINE s == at.script
             n == at.line
             p == at.piece
             L == Lines[s]
             line == L[n]
             rest == SubSeq(L, n + 1, Len(L))
  <1>1. s \in Scripts /\ n \in Nat \ {0} /\ p \in Nat \ {0}
    BY DEF Positions
  <1>2. L \in Seq(Seq(Pieces) \ {<< >>}) /\ L \in Seq(Seq(Pieces)) /\ Len(L) \in Nat
    <2>1. L \in Seq(Seq(Pieces) \ {<< >>})
      BY <1>1, LinesAssumption
    <2> QED
      BY <2>1, SeqMonotonic
  <1>3. AtEnd(at) <=> n > Len(L)
    BY DEF AtEnd
  <1>4. AtEnd(at) => PiecesFrom(at) = << >>
    BY DEF PiecesFrom
  <1> SUFFICES ASSUME ~AtEnd(at)
               PROVE  /\ PiecesFrom(at) \in Seq(Pieces)
                      /\ PiecesFrom(at) = <<Piece(at)>> \o PiecesFrom(Advance(at))
    BY <1>4, EmptySeq
  <1>5. n \in 1 .. Len(L) /\ p \in 1 .. Len(line) /\ line \in Seq(Pieces)
    <2>1. n \in 1 .. Len(L)
      BY <1>1, <1>2, <1>3
    <2>2. line \in Seq(Pieces)
      BY <1>2, <2>1
    <2>3. p <= Len(line)
      BY <1>1, <1>2, <1>3 DEF Positions
    <2> QED
      BY <1>1, <2>1, <2>2, <2>3
  <1>6. PiecesFrom(at) = SubSeq(line, p, Len(line)) \o FlattenSeq(rest)
    BY DEF PiecesFrom
  <1>7. rest \in Seq(Seq(Pieces)) /\ FlattenSeq(rest) \in Seq(Pieces)
    <2>1. \A i \in n + 1 .. Len(L) : L[i] \in Seq(Pieces)
      BY <1>2, <1>5
    <2>2. rest \in Seq(Seq(Pieces))
      BY <1>1, <1>2, <2>1, SubSeqProperties
    <2> HIDE DEF rest
    <2> QED
      BY <2>2, FlattenType
  <1>8. Piece(at) = line[p] /\ line[p] \in Pieces
    BY <1>5 DEF Piece
  <1>9. SubSeq(line, p, Len(line)) = <<line[p]>> \o SubSeq(line, p + 1, Len(line))
    <2>1. Len(line) \in p .. Len(line)
      BY <1>5
    <2> QED
      BY <1>5, <2>1, SubSeqRecursiveFirst
  <1>10. SubSeq(line, p + 1, Len(line)) \in Seq(Pieces)
    <2>1. \A i \in p + 1 .. Len(line) : line[i] \in Pieces
      BY <1>5
    <2> QED
      BY <1>5, <2>1, SubSeqProperties
  <1>11. <<line[p]>> \in Seq(Pieces)
    BY <1>8
  <1> HIDE DEF rest, line
  <1>12. PiecesFrom(at)
           = <<line[p]>> \o (SubSeq(line, p + 1, Len(line)) \o FlattenSeq(rest))
    <2>1. (<<line[p]>> \o SubSeq(line, p + 1, Len(line))) \o FlattenSeq(rest)
            = <<line[p]>> \o (SubSeq(line, p + 1, Len(line)) \o FlattenSeq(rest))
      <3> DEFINE x == <<line[p]>>
                 y == SubSeq(line, p + 1, Len(line))
                 z == FlattenSeq(rest)
      <3>1. x \in Seq(Pieces) /\ y \in Seq(Pieces) /\ z \in Seq(Pieces)
        BY <1>7, <1>10, <1>11
      <3> HIDE DEF x, y, z
      <3>2. (x \o y) \o z = x \o (y \o z)
        BY <3>1, ConcatAssociative
      <3> QED
        BY <3>2 DEF x, y, z
    <2> QED
      BY <1>6, <1>9, <2>1
  <1>13. PiecesFrom(at) \in Seq(Pieces)
    <2>1. SubSeq(line, p + 1, Len(line)) \o FlattenSeq(rest) \in Seq(Pieces)
      BY <1>7, <1>10, ConcatProperties
    <2> QED
      BY <1>11, <1>12, <2>1, ConcatProperties
  <1>14. PiecesFrom(Advance(at)) = SubSeq(line, p + 1, Len(line)) \o FlattenSeq(rest)
    <2>1. at = [script |-> s, line |-> n, piece |-> p]
      BY DEF Positions
    <2>2. CASE p < Len(line)
      <3>1. Advance(at) = [script |-> s, line |-> n, piece |-> p + 1]
        BY <2>1, <2>2 DEF Advance, line
      <3>2. ~AtEnd(Advance(at))
        BY <1>5, <3>1 DEF AtEnd
      <3> QED
        BY <3>1, <3>2, PiecesAt DEF rest, line
    <2>3. CASE ~(p < Len(line))
      <3>1. Advance(at) = [script |-> s, line |-> n + 1, piece |-> 1]
        BY <2>1, <2>3 DEF Advance, line
      <3>2. SubSeq(line, p + 1, Len(line)) = << >>
        BY <1>5, <2>3, SubSeqEmpty
      <3>3. << >> \o FlattenSeq(rest) = FlattenSeq(rest)
        BY <1>7, ConcatEmptySeq
      <3>4. CASE n = Len(L)
        <4>1. AtEnd(Advance(at))
          BY <1>5, <3>1, <3>4 DEF AtEnd
        <4>2. rest = << >>
          BY <1>2, <1>5, <3>4, SubSeqEmpty DEF rest
        <4> QED
          BY <3>2, <3>3, <4>1, <4>2, FlattenNone DEF PiecesFrom
      <3>5. CASE n < Len(L)
        <4> DEFINE next == L[n + 1]
                   rest2 == SubSeq(L, (n + 1) + 1, Len(L))
        <4>1. n + 1 \in 1 .. Len(L) /\ next \in Seq(Pieces)
          BY <1>2, <1>5, <3>5
        <4>2. ~AtEnd(Advance(at))
          BY <1>2, <3>1, <4>1 DEF AtEnd
        <4>3. PiecesFrom(Advance(at))
                = SubSeq(next, 1, Len(next)) \o FlattenSeq(rest2)
          BY <3>1, <4>2, PiecesAt
        <4>4. SubSeq(next, 1, Len(next)) = next
          BY <4>1, SubSeqFull
        <4>5. rest = <<next>> \o rest2
          <5>1. Len(L) \in n + 1 .. Len(L)
            BY <1>2, <4>1
          <5> QED
            BY <1>2, <4>1, <5>1, SubSeqRecursiveFirst DEF rest
        <4>6. rest2 \in Seq(Seq(Pieces))
          <5>1. \A i \in (n + 1) + 1 .. Len(L) : L[i] \in Seq(Pieces)
            BY <1>2, <1>5
          <5> QED
            BY <1>2, <1>5, <5>1, SubSeqProperties
        <4>7. FlattenSeq(rest) = FlattenSeq(<<next>>) \o FlattenSeq(rest2)
          <5>1. <<next>> \in Seq(Seq(Pieces))
            BY <4>1
          <5> HIDE DEF next, rest2
          <5> QED
            BY <4>5, <4>6, <5>1, FlattenConcat
        <4>8. FlattenSeq(<<next>>) = next
          BY <4>1, FlattenOne
        <4> QED
          BY <3>2, <3>3, <4>3, <4>4, <4>7, <4>8
      <3> QED
        BY <1>5, <3>4, <3>5
    <2> QED
      BY <2>2, <2>3
  <1> QED
    BY <1>8, <1>12, <1>13, <1>14

LEMMA InsideType ==
  ASSUME NEW s \in Scripts
  PROVE  /\ Inside(s) \in Seq(Pieces)
         /\ \A i \in DOMAIN Inside(s) : Inside(s)[i] \in Commands
  <1>1. Inside(s) \in Seq(Pieces)
    BY StartPosition, PiecesType DEF Inside
  <1>2. Pieces \subseteq Commands
    BY DEF Commands
  <1> QED
    BY <1>1, <1>2

LEMMA ExecOnceSame ==
  ASSUME NEW f, NEW g, NEW c \in Commands, NEW d, NEW e,
         Runs(c) => (d > 0 <=> e > 0),
         Runs(c) /\ d > 0 =>
           \A i \in DOMAIN Inside(c.arg) :
             f[d - 1][Inside(c.arg)[i]] = g[e - 1][Inside(c.arg)[i]]
  PROVE  ExecOnce(c, f, d) = ExecOnce(c, g, e)
  <1>1. CASE ~(~Ignored(c) /\ Runs(c) /\ d > 0)
    <2>1. ~(~Ignored(c) /\ Runs(c) /\ e > 0)
      BY <1>1
    <2> QED
      BY <1>1, <2>1 DEF ExecOnce
  <1>2. CASE ~Ignored(c) /\ Runs(c) /\ d > 0
    <2> DEFINE x == Inside(c.arg)
    <2>1. [i \in DOMAIN x |-> f[d - 1][x[i]]] = [i \in DOMAIN x |-> g[e - 1][x[i]]]
      BY <1>2
    <2> QED
      BY <1>2, <2>1 DEF ExecOnce
  <1> QED
    BY <1>1, <1>2

LEMMA ExecIs == ExecUpto(Depth, Exec)
  <1> DEFINE T == {n \in Nat : \E f : ExecUpto(n, f)}
  <1>1. 0 \in T
    <2> DEFINE e == [c \in Commands |-> IF Ignored(c) THEN << >> ELSE <<c>>]
               g == [d \in 0 .. 0 |-> e]
    <2>1. ASSUME NEW d \in 0 .. 0, NEW c \in Commands
          PROVE  ExecOnce(c, g, d) = IF Ignored(c) THEN << >> ELSE <<c>>
      <3>1. ~(d > 0)
        OBVIOUS
      <3> QED
        BY <3>1 DEF ExecOnce
    <2>2. ASSUME NEW d \in 0 .. 0
          PROVE  e = [c \in Commands |-> ExecOnce(c, g, d)]
      <3> HIDE DEF g
      <3> QED
        BY <2>1
    <2>3. ExecUpto(0, g)
      <3> HIDE DEF e
      <3>1. g = [d \in 0 .. 0 |-> [c \in Commands |-> ExecOnce(c, g, d)]]
        BY <2>2
      <3> HIDE DEF g
      <3> QED
        BY <3>1 DEF ExecUpto
    <2> HIDE DEF g
    <2> QED
      BY <2>3
  <1>2. ASSUME NEW n \in Nat, n \in T PROVE n + 1 \in T
    <2>1. PICK f : ExecUpto(n, f)
      BY <1>2
    <2> DEFINE e(d) == [c \in Commands |-> ExecOnce(c, f, d)]
               g == [d \in 0 .. n + 1 |-> IF d <= n THEN f[d] ELSE e(d)]
    <2>2. ASSUME NEW d \in 0 .. n + 1, NEW c \in Commands
          PROVE  ExecOnce(c, f, d) = ExecOnce(c, g, d)
      <3>1. ASSUME d > 0 PROVE f[d - 1] = g[d - 1]
        <4>1. d - 1 \in 0 .. n + 1 /\ d - 1 <= n
          BY <3>1
        <4> HIDE DEF e
        <4> QED
          BY <4>1
      <3> HIDE DEF g
      <3> QED
        BY <3>1, ExecOnceSame
    <2>3. ASSUME NEW d \in 0 .. n + 1 PROVE g[d] = e(d)
      <3>1. CASE d <= n
        <4>1. f[d] = e(d)
          BY <2>1, <3>1 DEF ExecUpto
        <4> QED
          BY <3>1, <4>1
      <3>2. CASE ~(d <= n)
        <4> HIDE DEF e
        <4> QED
          BY <3>2
      <3> QED
        BY <3>1, <3>2
    <2>4. ASSUME NEW d \in 0 .. n + 1
          PROVE  e(d) = [c \in Commands |-> ExecOnce(c, g, d)]
      <3> HIDE DEF g
      <3> QED
        BY <2>2
    <2>5. g = [d \in 0 .. n + 1 |-> [c \in Commands |-> ExecOnce(c, g, d)]]
      <3> DEFINE h == [d \in 0 .. n + 1 |-> [c \in Commands |-> ExecOnce(c, g, d)]]
      <3>1. ASSUME NEW d \in 0 .. n + 1 PROVE g[d] = h[d]
        <4>1. h[d] = [c \in Commands |-> ExecOnce(c, g, d)]
          OBVIOUS
        <4> HIDE DEF g, h, e
        <4> QED
          BY <2>3, <2>4, <4>1
      <3>2. DOMAIN g = 0 .. n + 1 /\ g = [d \in 0 .. n + 1 |-> g[d]]
        <4> HIDE DEF e
        <4> QED
          OBVIOUS
      <3>3. h = [d \in 0 .. n + 1 |-> h[d]]
        <4> HIDE DEF g, e
        <4> QED
          OBVIOUS
      <3> HIDE DEF g, h
      <3>4. g = h
        BY <3>1, <3>2, <3>3
      <3> QED
        BY <3>4 DEF h
    <2> HIDE DEF g
    <2>6. ExecUpto(n + 1, g)
      BY <2>5 DEF ExecUpto
    <2> QED
      BY <2>6
  <1>3. Depth \in T
    <2> HIDE DEF T
    <2>1. Nat \subseteq T
      BY <1>1, <1>2, Induct
    <2> QED
      BY <2>1, DepthType
  <1>4. \E f : ExecUpto(Depth, f)
    BY <1>3
  <1>5. Exec = CHOOSE f : ExecUpto(Depth, f)
    BY DEF Exec, ExecUpto, ExecOnce, Runs, Inside, Depth
  <1> QED
    BY <1>4, <1>5

LEMMA ExecAt ==
  ASSUME NEW d \in 0 .. Depth
  PROVE  /\ Exec[d] = [c \in Commands |-> ExecOnce(c, Exec, d)]
         /\ \A c \in Commands : Exec[d][c] = ExecOnce(c, Exec, d)
  <1>1. Exec = [n \in 0 .. Depth |-> [c \in Commands |-> ExecOnce(c, Exec, n)]]
    BY ExecIs DEF ExecUpto
  <1>2. Exec[d] = [c \in Commands |-> ExecOnce(c, Exec, d)]
    BY <1>1
  <1> QED
    BY <1>2

LEMMA RunsOne ==
  ASSUME NEW c, NEW f, NEW d, Runs(c), d > 0
  PROVE  ExecOnce(c, f, d) = <<c>> \o Flat(f[d - 1], Inside(c.arg))
  BY DEF ExecOnce, Runs, Ignored, Flat, Through

LEMMA ExecType == \A d \in 0 .. Depth : Exec[d] \in [Commands -> Seq(Commands)]
  <1> DEFINE T == {d \in Nat : d <= Depth => Exec[d] \in [Commands -> Seq(Commands)]}
  <1>0. Depth \in Nat
    BY DepthType
  <1>1. ASSUME NEW d \in 0 .. Depth, NEW c \in Commands,
               d > 0 /\ Runs(c) =>
                 Flat(Exec[d - 1], Inside(c.arg)) \in Seq(Commands)
        PROVE  ExecOnce(c, Exec, d) \in Seq(Commands)
    <2>1. <<c>> \in Seq(Commands) /\ << >> \in Seq(Commands)
      OBVIOUS
    <2>2. CASE ~(Runs(c) /\ d > 0)
      BY <2>1, <2>2 DEF ExecOnce
    <2>3. CASE Runs(c) /\ d > 0
      <3>1. ExecOnce(c, Exec, d) = <<c>> \o Flat(Exec[d - 1], Inside(c.arg))
        BY <2>3, RunsOne
      <3> QED
        BY <1>1, <2>1, <2>3, <3>1, ConcatProperties
    <2> QED
      BY <2>2, <2>3
  <1>2. 0 \in T
    <2>1. 0 \in 0 .. Depth /\ ~(0 > 0)
      BY <1>0
    <2>2. \A c \in Commands : ExecOnce(c, Exec, 0) \in Seq(Commands)
      BY <1>1, <2>1
    <2>3. Exec[0] \in [Commands -> Seq(Commands)]
      BY <2>1, <2>2, ExecAt
    <2> QED
      BY <2>3
  <1>3. ASSUME NEW n \in Nat, n \in T PROVE n + 1 \in T
    <2> SUFFICES ASSUME n + 1 <= Depth
                 PROVE  Exec[n + 1] \in [Commands -> Seq(Commands)]
      OBVIOUS
    <2>1. n + 1 \in 0 .. Depth /\ (n + 1) - 1 = n
      BY <1>0
    <2>2. Exec[n] \in [Commands -> Seq(Commands)]
      BY <1>0, <1>3
    <2>3. ASSUME NEW c \in Commands, Runs(c)
          PROVE  Flat(Exec[n], Inside(c.arg)) \in Seq(Commands)
      <3>1. Inside(c.arg) \in Seq(Commands)
        BY <2>3, InsideType DEF Runs
      <3> QED
        BY <2>2, <3>1, FlatFacts
    <2>4. \A c \in Commands : ExecOnce(c, Exec, n + 1) \in Seq(Commands)
      BY <1>1, <2>1, <2>3
    <2> QED
      BY <2>1, <2>4, ExecAt
  <1> HIDE DEF T
  <1>4. Nat \subseteq T
    BY <1>2, <1>3, Induct
  <1> QED
    BY <1>0, <1>4 DEF T

(* The pieces of a script run scripts of a lower rank only. *)
Low(rank, s) == {c \in Pieces : Runs(c) => rank[c.arg] < rank[s]}

LEMMA InsideLow ==
  ASSUME NEW rank, Ranks(rank), NEW s \in Scripts
  PROVE  Inside(s) \in Seq(Low(rank, s))
  <1> DEFINE L == Lines[s]
             at == Start(s)
             S == Low(rank, s)
  <1>1. L \in Seq(Seq(Pieces) \ {<< >>}) /\ Len(L) \in Nat
    BY LinesAssumption
  <1>2. ASSUME NEW n \in 1 .. Len(L) PROVE L[n] \in Seq(S)
    <2>1. L[n] \in Seq(Pieces) /\ n \in DOMAIN L
      BY <1>1
    <2>2. ASSUME NEW i \in 1 .. Len(L[n]) PROVE L[n][i] \in S
      <3>1. L[n][i] \in Pieces /\ i \in DOMAIN L[n]
        BY <2>1
      <3>2. L[n][i] \in Range(L[n])
        BY <3>1 DEF Range
      <3> QED
        BY <2>1, <3>1, <3>2 DEF Ranks, Low, Runs
    <2> HIDE DEF L, S
    <2>3. Len(L[n]) \in Nat /\ L[n] \in [1 .. Len(L[n]) -> S]
      BY <2>1, <2>2
    <2> QED
      BY <2>3
  <1>3. at = [script |-> s, line |-> 1, piece |-> 1]
    BY DEF Start
  <1>4. CASE AtEnd(at)
    <2>1. PiecesFrom(at) = << >>
      BY <1>4 DEF PiecesFrom
    <2> QED
      BY <2>1, EmptySeq DEF Inside
  <1>5. CASE ~AtEnd(at)
    <2>1. 1 \in 1 .. Len(L)
      BY <1>1, <1>3, <1>5 DEF AtEnd
    <2>2. PiecesFrom(at) = SubSeq(L[1], 1, Len(L[1]))
                             \o FlattenSeq(SubSeq(L, 1 + 1, Len(L)))
      BY <1>3, <1>5, PiecesAt
    <2> HIDE DEF L, S, at
    <2>3. L[1] \in Seq(S) /\ SubSeq(L[1], 1, Len(L[1])) = L[1]
      BY <1>2, <2>1, SubSeqFull
    <2>4. SubSeq(L, 1 + 1, Len(L)) \in Seq(Seq(S))
      <3>1. \A i \in 1 + 1 .. Len(L) : L[i] \in Seq(S)
        BY <1>1, <1>2
      <3> QED
        BY <1>1, <3>1, SubSeqProperties
    <2>5. FlattenSeq(SubSeq(L, 1 + 1, Len(L))) \in Seq(S)
      BY <2>4, FlattenType
    <2>6. PiecesFrom(at) \in Seq(S)
      BY <2>2, <2>3, <2>5, ConcatProperties
    <2> QED
      BY <2>6 DEF Inside, at, S
  <1> QED
    BY <1>4, <1>5

(* Beyond the rank of the script that a command runs, depth makes no       *)
(* difference.                                                             *)
Deep(rank, r) ==
  \A c \in Commands : \A d, e \in 0 .. Depth :
    (Runs(c) => rank[c.arg] <= r /\ r <= d /\ r <= e) => Exec[d][c] = Exec[e][c]

LEMMA AllDeep ==
  ASSUME NEW rank, Ranks(rank) PROVE \A r \in Nat : Deep(rank, r)
  <1> DEFINE T == {r \in Nat : Deep(rank, r)}
  <1>0. Depth \in Nat /\ \A s \in Scripts : rank[s] \in 1 .. Depth
    BY DepthType DEF Ranks, Depth
  <1>1. ASSUME NEW c \in Commands, NEW d \in 0 .. Depth, NEW e \in 0 .. Depth,
               ~Runs(c)
        PROVE  Exec[d][c] = Exec[e][c]
    <2>1. ExecOnce(c, Exec, d) = ExecOnce(c, Exec, e)
      BY <1>1 DEF ExecOnce
    <2>2. Exec[d][c] = ExecOnce(c, Exec, d)
      BY ExecAt
    <2>3. Exec[e][c] = ExecOnce(c, Exec, e)
      BY ExecAt
    <2> QED
      BY <2>1, <2>2, <2>3
  <1>2. 0 \in T
    <2>1. \A c \in Commands : Runs(c) => ~(rank[c.arg] <= 0)
      BY <1>0 DEF Runs
    <2>2. Deep(rank, 0)
      BY <1>1, <2>1 DEF Deep
    <2> QED
      BY <2>2
  <1>3. ASSUME NEW r \in Nat, r \in T PROVE r + 1 \in T
    <2>0. Deep(rank, r)
      BY <1>3
    <2>1. ASSUME NEW c \in Commands, NEW d \in 0 .. Depth, NEW e \in 0 .. Depth,
                 Runs(c), rank[c.arg] <= r + 1, r + 1 <= d, r + 1 <= e
          PROVE  Exec[d][c] = Exec[e][c]
      <3> DEFINE x == Inside(c.arg)
      <3>1. /\ c.arg \in Scripts /\ rank[c.arg] \in 1 .. Depth
            /\ d > 0 /\ e > 0 /\ d - 1 \in 0 .. Depth /\ e - 1 \in 0 .. Depth
            /\ r <= d - 1 /\ r <= e - 1
        BY <1>0, <2>1 DEF Runs
      <3>2. x \in Seq(Low(rank, c.arg))
        BY <3>1, InsideLow
      <3>3. ASSUME NEW i \in DOMAIN x
            PROVE  Exec[d - 1][x[i]] = Exec[e - 1][x[i]]
        <4>1. x[i] \in Low(rank, c.arg)
          BY <3>2
        <4>2. x[i] \in Commands /\ (Runs(x[i]) => rank[x[i].arg] < rank[c.arg])
          BY <4>1 DEF Low, Commands
        <4> HIDE DEF x
        <4>3. Runs(x[i]) => rank[x[i].arg] \in 1 .. Depth
          BY <1>0 DEF Runs
        <4>4. Runs(x[i]) => rank[x[i].arg] <= r
          BY <2>1, <3>1, <4>2, <4>3
        <4> QED
          BY <2>0, <3>1, <4>2, <4>4 DEF Deep
      <3>4. Flat(Exec[d - 1], x) = Flat(Exec[e - 1], x)
        BY <3>3, FlatSame
      <3>5. ExecOnce(c, Exec, d) = ExecOnce(c, Exec, e)
        BY <2>1, <3>1, <3>4, RunsOne
      <3>6. Exec[d][c] = ExecOnce(c, Exec, d)
        BY ExecAt
      <3>7. Exec[e][c] = ExecOnce(c, Exec, e)
        BY ExecAt
      <3> QED
        BY <3>5, <3>6, <3>7
    <2>2. Deep(rank, r + 1)
      BY <1>1, <2>1 DEF Deep
    <2> QED
      BY <2>2
  <1> HIDE DEF T
  <1>4. Nat \subseteq T
    BY <1>2, <1>3, Induct
  <1> QED
    BY <1>4 DEF T

(* What a command executes: itself, and then all of the script it runs. *)
LEMMA Unfold ==
  ASSUME Acyclic, NEW c \in Commands
  PROVE  Exec[Depth][c] = IF Ignored(c) THEN << >>
                          ELSE IF Runs(c) THEN <<c>> \o ExecAll(Inside(c.arg))
                          ELSE <<c>>
  <1>0. Depth \in Nat /\ Depth \in 0 .. Depth
    BY DepthType
  <1>1. PICK rank : Ranks(rank)
    BY DEF Acyclic, Ranks
  <1>2. CASE ~Runs(c)
    BY <1>0, <1>2, ExecAt DEF ExecOnce
  <1>3. CASE Runs(c)
    <2> DEFINE x == Inside(c.arg)
    <2>1. c.arg \in Scripts /\ ~Ignored(c)
      BY <1>3 DEF Runs, Ignored
    <2>2. \A s \in Scripts : rank[s] \in 1 .. Depth
      BY <1>1 DEF Ranks, Depth
    <2>3. Depth > 0 /\ Depth - 1 \in 0 .. Depth /\ Depth - 1 \in Nat
      BY <1>0, <2>1, <2>2
    <2>4. Exec[Depth][c] = <<c>> \o Flat(Exec[Depth - 1], x)
      BY <1>0, <1>3, <2>3, ExecAt, RunsOne
    <2>5. x \in Seq(Low(rank, c.arg))
      BY <1>1, <2>1, InsideLow
    <2>6. ASSUME NEW i \in DOMAIN x
          PROVE  Exec[Depth - 1][x[i]] = Exec[Depth][x[i]]
      <3>1. x[i] \in Low(rank, c.arg)
        BY <2>5
      <3>2. x[i] \in Commands /\ (Runs(x[i]) => rank[x[i].arg] < rank[c.arg])
        BY <3>1 DEF Low, Commands
      <3> HIDE DEF x
      <3>3. Runs(x[i]) => rank[x[i].arg] \in 1 .. Depth
        BY <2>2 DEF Runs
      <3>4. Runs(x[i]) => rank[x[i].arg] <= Depth - 1
        BY <1>0, <2>1, <2>2, <3>2, <3>3
      <3>5. Deep(rank, Depth - 1)
        BY <1>1, <2>3, AllDeep
      <3>6. Depth - 1 <= Depth - 1 /\ Depth - 1 <= Depth
        BY <1>0
      <3> QED
        BY <1>0, <2>3, <3>2, <3>4, <3>5, <3>6 DEF Deep
    <2>7. Flat(Exec[Depth - 1], x) = Flat(Exec[Depth], x)
      BY <2>6, FlatSame
    <2>8. ExecAll(x) = Flat(Exec[Depth], x)
      BY DEF ExecAll, Flat, Through, Depth
    <2> QED
      BY <1>3, <2>1, <2>4, <2>7, <2>8
  <1> QED
    BY <1>2, <1>3

-----------------------------------------------------------------------------
(* What the open scripts have yet to execute. *)
Rest(st) == FlattenSeq([i \in DOMAIN st |-> ExecAll(PiecesFrom(st[i]))])

LEMMA AllFacts ==
  /\ ExecAll(<< >>) = << >>
  /\ \A c \in Commands : ExecAll(<<c>>) = Exec[Depth][c]
                          /\ Exec[Depth][c] \in Seq(Commands)
  /\ \A a \in Seq(Commands) : ExecAll(a) \in Seq(Commands)
  /\ \A a, b \in Seq(Commands) : ExecAll(a \o b) = ExecAll(a) \o ExecAll(b)
  <1> DEFINE f == Exec[Depth]
  <1>1. f \in [Commands -> Seq(Commands)]
    BY DepthType, ExecType
  <1>2. \A cs : ExecAll(cs) = Flat(f, cs)
    BY DEF ExecAll, Flat, Through, Depth
  <1> HIDE DEF f
  <1>3. /\ Flat(f, << >>) = << >>
        /\ \A x \in Commands : Flat(f, <<x>>) = f[x]
        /\ \A a \in Seq(Commands) : Flat(f, a) \in Seq(Commands)
        /\ \A a, b \in Seq(Commands) : Flat(f, a \o b) = Flat(f, a) \o Flat(f, b)
    <2> DEFINE C == Commands
               D == Commands
    <2>1. f \in [C -> Seq(D)]
      BY <1>1
    <2> HIDE DEF C, D
    <2>2. Flat(f, << >>) = << >>
      BY <2>1, FlatFacts
    <2>3. \A x \in C : Flat(f, <<x>>) = f[x]
      BY <2>1, FlatFacts
    <2>4. \A a \in Seq(C) : Flat(f, a) \in Seq(D)
      BY <2>1, FlatFacts
    <2>5. \A a, b \in Seq(C) : Flat(f, a \o b) = Flat(f, a) \o Flat(f, b)
      BY <2>1, FlatFacts
    <2> QED
      BY <2>2, <2>3, <2>4, <2>5 DEF C, D
  <1>4. \A x \in Commands : f[x] \in Seq(Commands)
    BY <1>1
  <1> QED
    BY <1>2, <1>3, <1>4 DEF f

LEMMA PiecesAreCommands ==
  ASSUME NEW at \in Positions PROVE PiecesFrom(at) \in Seq(Commands)
  <1>1. PiecesFrom(at) \in Seq(Pieces) /\ Pieces \subseteq Commands
    BY PiecesType DEF Commands
  <1> QED
    BY <1>1, SeqMonotonic

LEMMA RestFacts ==
  /\ Rest(<< >>) = << >>
  /\ \A st \in Seq(Positions) : Rest(st) \in Seq(Commands)
  /\ \A at \in Positions : \A st \in Seq(Positions) :
       Rest(<<at>> \o st) = ExecAll(PiecesFrom(at)) \o Rest(st)
  <1> DEFINE g == [at \in Positions |-> ExecAll(PiecesFrom(at))]
  <1>1. g \in [Positions -> Seq(Commands)]
    BY AllFacts, PiecesAreCommands
  <1>2. ASSUME NEW st \in Seq(Positions) PROVE Rest(st) = Flat(g, st)
    <2>1. \A i \in DOMAIN st : g[st[i]] = ExecAll(PiecesFrom(st[i]))
      OBVIOUS
    <2> HIDE DEF g
    <2>2. [i \in DOMAIN st |-> ExecAll(PiecesFrom(st[i]))] = Through(g, st)
      BY <2>1 DEF Through
    <2> QED
      BY <2>2 DEF Rest, Flat
  <1>3. \A at \in Positions : g[at] = ExecAll(PiecesFrom(at))
    OBVIOUS
  <1> HIDE DEF g
  <1>4. /\ Flat(g, << >>) = << >>
        /\ \A x \in Positions : Flat(g, <<x>>) = g[x]
        /\ \A a \in Seq(Positions) : Flat(g, a) \in Seq(Commands)
        /\ \A a, b \in Seq(Positions) : Flat(g, a \o b) = Flat(g, a) \o Flat(g, b)
    BY <1>1, FlatFacts
  <1>5. << >> \in Seq(Positions)
    OBVIOUS
  <1>6. ASSUME NEW at \in Positions, NEW st \in Seq(Positions)
        PROVE  Rest(<<at>> \o st) = ExecAll(PiecesFrom(at)) \o Rest(st)
    <2>1. <<at>> \in Seq(Positions)
      OBVIOUS
    <2>2. <<at>> \o st \in Seq(Positions)
      BY <2>1, ConcatProperties
    <2>3. Rest(<<at>> \o st) = Flat(g, <<at>> \o st)
      BY <1>2, <2>2
    <2>4. Flat(g, <<at>> \o st) = Flat(g, <<at>>) \o Flat(g, st)
      BY <1>4, <2>1
    <2> QED
      BY <1>2, <1>3, <1>4, <2>3, <2>4
  <1> QED
    BY <1>2, <1>4, <1>5, <1>6

(* Reading the next piece takes what it executes off what is left. *)
LEMMA RestAt ==
  ASSUME NEW at \in Positions, NEW st \in Seq(Positions)
  PROVE  /\ AtEnd(at) => Rest(<<at>> \o st) = Rest(st)
         /\ ~AtEnd(at) => Rest(<<at>> \o st)
                            = Exec[Depth][Piece(at)] \o Rest(<<Advance(at)>> \o st)
  <1>1. Rest(<<at>> \o st) = ExecAll(PiecesFrom(at)) \o Rest(st)
        /\ Rest(st) \in Seq(Commands)
    BY RestFacts
  <1>2. CASE AtEnd(at)
    <2>1. ExecAll(PiecesFrom(at)) = << >>
      BY <1>2, PiecesType, AllFacts
    <2>2. << >> \o Rest(st) = Rest(st)
      BY <1>1, ConcatEmptySeq
    <2> QED
      BY <1>1, <1>2, <2>1, <2>2
  <1>3. CASE ~AtEnd(at)
    <2> DEFINE c == Piece(at)
               next == Advance(at)
               x == Exec[Depth][c]
               y == ExecAll(PiecesFrom(next))
               z == Rest(st)
    <2>1. c \in Commands /\ next \in Positions
      BY <1>3, NextPosition DEF Commands
    <2>2. PiecesFrom(at) = <<c>> \o PiecesFrom(next)
      BY <1>3, PiecesType
    <2>3. <<c>> \in Seq(Commands) /\ PiecesFrom(next) \in Seq(Commands)
      BY <2>1, PiecesAreCommands
    <2>4. ExecAll(PiecesFrom(at)) = ExecAll(<<c>>) \o y
      BY <2>2, <2>3, AllFacts
    <2>5. ExecAll(<<c>>) = x /\ x \in Seq(Commands) /\ y \in Seq(Commands)
          /\ z \in Seq(Commands)
      BY <1>1, <2>1, <2>3, AllFacts
    <2>6. Rest(<<next>> \o st) = y \o z
      BY <2>1, RestFacts
    <2>7. Rest(<<at>> \o st) = (x \o y) \o z
      BY <1>1, <2>4, <2>5
    <2>8. (x \o y) \o z = x \o (y \o z)
      <3>1. x \in Seq(Commands) /\ y \in Seq(Commands) /\ z \in Seq(Commands)
        BY <2>5
      <3> HIDE DEF x, y, z
      <3> QED
        BY <3>1, ConcatAssociative
    <2> QED
      BY <1>3, <2>6, <2>7, <2>8
  <1> QED
    BY <1>2, <1>3

LEMMA ProcessOrder ==
  ASSUME Acyclic, executed \in Seq(Commands), NEW c \in Commands,
         NEW open \in Seq(Positions), process_cmd(c, open)
  PROVE  executed' \o Rest(stack') = executed \o (Exec[Depth][c] \o Rest(open))
  <1> DEFINE x == executed
             y == <<c>>
             z == Rest(open)
  <1>1. x \in Seq(Commands) /\ y \in Seq(Commands) /\ z \in Seq(Commands)
    BY RestFacts
  <1>2. CASE Ignored(c)
    <2>1. stack' = open /\ executed' = executed
      BY <1>2 DEF process_cmd
    <2>2. Exec[Depth][c] = << >>
      BY <1>2, Unfold
    <2>3. << >> \o z = z
      BY <1>1, ConcatEmptySeq
    <2> QED
      BY <2>1, <2>2, <2>3
  <1>3. CASE ~Ignored(c) /\ ~Runs(c)
    <2>1. stack' = open /\ executed' = Append(executed, c)
      BY <1>3 DEF process_cmd, load_script, Runs
    <2>2. Exec[Depth][c] = y
      BY <1>3, Unfold
    <2>3. executed' = x \o y
      BY <2>1
    <2>4. (x \o y) \o z = x \o (y \o z)
      <3> HIDE DEF x, y, z
      <3> QED
        BY <1>1, ConcatAssociative
    <2> QED
      BY <2>1, <2>2, <2>3, <2>4
  <1>4. CASE ~Ignored(c) /\ Runs(c)
    <2> DEFINE w == ExecAll(Inside(c.arg))
    <2>1. Start(c.arg) \in Positions
      BY <1>4, StartPosition DEF Runs
    <2>2. stack' = <<Start(c.arg)>> \o open /\ executed' = Append(executed, c)
      BY <1>4 DEF process_cmd, load_script, Runs
    <2>3. Exec[Depth][c] = y \o w
      BY <1>4, Unfold
    <2>4. Rest(stack') = w \o z /\ w \in Seq(Commands)
      BY <2>1, <2>2, RestFacts, AllFacts, PiecesAreCommands DEF Inside
    <2>5. executed' = x \o y
      BY <2>2
    <2>6. (x \o y) \o (w \o z) = x \o ((y \o w) \o z)
      <3>1. w \in Seq(Commands) /\ w \o z \in Seq(Commands)
        BY <1>1, <2>4, ConcatProperties
      <3> HIDE DEF x, y, z, w
      <3>2. (x \o y) \o (w \o z) = x \o (y \o (w \o z))
        <4> DEFINE v == w \o z
        <4>1. v \in Seq(Commands)
          BY <3>1
        <4> HIDE DEF v
        <4>2. (x \o y) \o v = x \o (y \o v)
          BY <1>1, <4>1, ConcatAssociative, SMTT(30)
        <4> QED
          BY <4>2 DEF v
      <3>3. (y \o w) \o z = y \o (w \o z)
        BY <1>1, <3>1, ConcatAssociative, SMTT(30)
      <3> QED
        BY <3>2, <3>3
    <2> QED
      BY <2>3, <2>4, <2>5, <2>6
  <1> QED
    BY <1>2, <1>3, <1>4

LEMMA OrderNext ==
  ASSUME Acyclic, Typing, OrderKept, [Next]_vars PROVE OrderKept'
  <1>0. /\ executed \in Seq(Commands) /\ given \in Seq(Commands)
        /\ stack \in Seq(Positions)
        /\ ExecAll(given) = executed \o Rest(stack)
    BY DEF Typing, OrderKept, Rest
  <1> SUFFICES ExecAll(given') = executed' \o Rest(stack')
    BY DEF OrderKept, Rest
  <1>1. CASE Main
    <2>1. CASE UNCHANGED <<stack, given, executed>>
      BY <1>0, <2>1
    <2>2. ASSUME NEW s \in Scripts,
                 given' = <<[op |-> "script", arg |-> s]>>,
                 executed' = <<[op |-> "script", arg |-> s]>>,
                 stack' = load_script(s, << >>)
          PROVE  ExecAll(given') = executed' \o Rest(stack')
      <3> DEFINE c == [op |-> "script", arg |-> s]
      <3>1. c \in Commands /\ Runs(c) /\ ~Ignored(c) /\ c.arg = s
        BY DEF Commands, Runs, Ignored
      <3>2. stack' = <<Start(s)>> \o << >> /\ Start(s) \in Positions
        BY <2>2, StartPosition DEF load_script
      <3>3. << >> \in Seq(Positions)
        OBVIOUS
      <3>4. Rest(stack') = ExecAll(Inside(s)) \o << >>
        BY <3>2, <3>3, RestFacts DEF Inside
      <3>5. ExecAll(Inside(s)) \in Seq(Commands)
        BY <3>2, AllFacts, PiecesAreCommands DEF Inside
      <3>6. ExecAll(Inside(s)) \o << >> = ExecAll(Inside(s))
        BY <3>5, ConcatEmptySeq
      <3>7. Exec[Depth][c] = <<c>> \o ExecAll(Inside(s))
        <4> HIDE DEF c
        <4> QED
          BY <3>1, Unfold
      <3>8. ExecAll(<<c>>) = Exec[Depth][c]
        BY <3>1, AllFacts
      <3> QED
        BY <2>2, <3>4, <3>6, <3>7, <3>8
    <2> QED
      BY <1>1, <2>1, <2>2 DEF Main
  <1>2. CASE Prompt
    <2>1. PICK c \in Typed : given' = Append(given, c) /\ process_cmd(c, << >>)
      BY <1>2 DEF Prompt
    <2>2. stack = << >>
      BY <1>2 DEF Prompt
    <2>3. c \in Commands /\ << >> \in Seq(Positions) /\ <<c>> \in Seq(Commands)
      BY DEF Commands
    <2>4. executed' \o Rest(stack')
            = executed \o (Exec[Depth][c] \o Rest(<< >>))
      BY <1>0, <2>1, <2>3, ProcessOrder
    <2>5. Exec[Depth][c] \o Rest(<< >>) = Exec[Depth][c]
      BY <2>3, RestFacts, AllFacts, ConcatEmptySeq
    <2>6. ExecAll(given) = executed
      BY <1>0, <2>2, RestFacts, ConcatEmptySeq
    <2>7. given' = given \o <<c>>
      BY <1>0, <2>1
    <2>8. ExecAll(given') = ExecAll(given) \o ExecAll(<<c>>)
      BY <1>0, <2>3, <2>7, AllFacts
    <2> QED
      BY <2>3, <2>4, <2>5, <2>6, <2>8, AllFacts
  <1>3. CASE ReadLine
    <2> DEFINE at == Head(stack)
               c == Piece(at)
               open == <<Advance(at)>> \o Tail(stack)
    <2>1. stack # << >> /\ ~AtEnd(at) /\ process_cmd(c, open) /\ given' = given
      BY <1>3 DEF ReadLine
    <2>2. at \in Positions /\ Tail(stack) \in Seq(Positions)
          /\ stack = <<at>> \o Tail(stack)
      BY <1>0, <2>1
    <2>3. c \in Commands /\ Advance(at) \in Positions
      BY <2>1, <2>2, NextPosition DEF Commands
    <2>4. open \in Seq(Positions)
      BY <2>2, <2>3, Onto
    <2>5. Rest(stack) = Exec[Depth][c] \o Rest(open)
      <3>1. Rest(<<at>> \o Tail(stack)) = Exec[Depth][c] \o Rest(open)
        BY <2>1, <2>2, RestAt
      <3> QED
        BY <2>2, <3>1
    <2>6. executed' \o Rest(stack') = executed \o (Exec[Depth][c] \o Rest(open))
      <3> HIDE DEF c, open
      <3> QED
        BY <1>0, <2>1, <2>3, <2>4, ProcessOrder
    <2> QED
      BY <1>0, <2>1, <2>5, <2>6
  <1>4. CASE EndOfScript
    <2> DEFINE at == Head(stack)
    <2>1. /\ stack # << >> /\ AtEnd(at) /\ stack' = Tail(stack)
          /\ given' = given /\ executed' = executed
      BY <1>4 DEF EndOfScript
    <2>2. at \in Positions /\ Tail(stack) \in Seq(Positions)
          /\ stack = <<at>> \o Tail(stack)
      BY <1>0, <2>1
    <2>3. Rest(<<at>> \o Tail(stack)) = Rest(Tail(stack))
      BY <2>1, <2>2, RestAt
    <2> QED
      BY <1>0, <2>1, <2>2, <2>3
  <1>5. CASE UNCHANGED vars
    BY <1>0, <1>5 DEF vars
  <1> QED
    BY <1>1, <1>2, <1>3, <1>4, <1>5 DEF Next

(* What is executed is what the commands given stand for, in order: each   *)
(* once, and a script as a whole before the line after the one that runs   *)
(* it.                                                                     *)
THEOREM InOrder == ASSUME Acyclic PROVE Spec => []OrderKept
  <1>1. Init => OrderKept
    <2>1. [i \in DOMAIN << >> |-> ExecAll(PiecesFrom(<< >>[i]))] = << >>
      OBVIOUS
    <2> QED
      BY <2>1, AllFacts, FlattenNone DEF Init, OrderKept
  <1>2. Typing /\ OrderKept /\ [Next]_vars => OrderKept'
    BY OrderNext
  <1> QED
    BY <1>1, <1>2, AlwaysTyping, PTL DEF Spec

=============================================================================
