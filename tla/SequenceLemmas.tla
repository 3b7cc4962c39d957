---------------------------- MODULE SequenceLemmas ----------------------------
(***************************************************************************)
(* What the proofs about strings and logs need of numbers and sequences:   *)
(* induction over both, functions made step by step, what FlattenSeq does  *)
(* with one sequence more, and the counting of positions.                  *)
(***************************************************************************)
EXTENDS Integers, SequencesExt, SequenceTheorems, FiniteSetTheorems, WellFoundedInduction, TLAPS

-----------------------------------------------------------------------------
\* Induction, from the library's theorem that < on Nat is well founded.

NatOrder == {p \in Nat \X Nat : p[1] < p[2]}

LEMMA NatOrderIsWellFounded == IsWellFoundedOn(NatOrder, Nat)
BY NatLessThanWellFounded DEF OpToRel, NatOrder

LEMMA LeastNumber ==
  ASSUME NEW T \in SUBSET Nat, T # {}
  PROVE  \E x \in T : \A y \in T : ~(y < x)
<1>1. PICK x \in T : \A y \in T : ~(<<y, x>> \in NatOrder)
  BY NatOrderIsWellFounded, WFMin
<1>2. ASSUME NEW y \in T, y < x PROVE FALSE
  <2>1. <<y, x>> \in NatOrder
    BY <1>2 DEF NatOrder
  <2> QED BY <1>1, <2>1
<1> QED BY <1>1, <1>2

\* Induction, with a set for what is to be shown.
LEMMA NumberInduction ==
  ASSUME NEW T, 0 \in T, \A n \in Nat : n \in T => n + 1 \in T
  PROVE  \A n \in Nat : n \in T
<1> DEFINE U == {n \in Nat : n \notin T}
<1> SUFFICES ASSUME U # {} PROVE FALSE
  OBVIOUS
<1>1. PICK x \in U : \A y \in U : ~(y < x)
  BY LeastNumber
<1>2. x \in Nat /\ x # 0
  BY <1>1
<1>3. x - 1 \in Nat /\ x - 1 < x /\ x - 1 \notin U
  BY <1>1, <1>2
<1>4. (x - 1) + 1 \in T
  BY <1>3
<1> QED BY <1>1, <1>2, <1>4

LEMMA SequenceInduction ==
  ASSUME NEW S, NEW T, << >> \in T,
         \A s \in Seq(S), e \in S : s \in T => Append(s, e) \in T
  PROVE  \A s \in Seq(S) : s \in T
<1> DEFINE U == {n \in Nat : \A s \in Seq(S) : Len(s) = n => s \in T}
<1>1. 0 \in U
  <2>1. \A s \in Seq(S) : Len(s) = 0 => s = << >>
    BY EmptySeq, LenProperties
  <2> QED BY <2>1
<1>2. ASSUME NEW n \in Nat, n \in U PROVE n + 1 \in U
  <2> SUFFICES ASSUME NEW s \in Seq(S), Len(s) = n + 1 PROVE s \in T
    OBVIOUS
  <2>1. s # << >>
    BY EmptySeq
  <2>2. PICK r \in Seq(S), e \in S : s = Append(r, e)
    BY <2>1, SequenceEmptyOrAppend
  <2>3. Len(r) \in Nat /\ Len(s) = Len(r) + 1
    BY <2>2, AppendProperties, LenProperties
  <2>4. r \in T
    BY <1>2, <2>3
  <2> QED BY <2>2, <2>4
<1> HIDE DEF U
<1>3. \A n \in Nat : n \in U
  BY <1>1, <1>2, NumberInduction
<1> QED BY <1>3, LenProperties DEF U

\* There is a sequence of states, each made of the one before.
IsIteration(f, n, S, s0, step) ==
  f \in [0..n -> S] /\ f[0] = s0 /\ \A i \in 1..n : f[i] = step[i][f[i - 1]]

AreSteps(step, n, S) == step \in [1..n -> [S -> S]]

LEMMA Iteration ==
  ASSUME NEW S, NEW s0 \in S, NEW n \in Nat, NEW step, AreSteps(step, n, S)
  PROVE  \E f : IsIteration(f, n, S, s0, step)
<1> USE DEF AreSteps, IsIteration
<1> DEFINE Reaches(m) == \E f \in [0..m -> S] : f[0] = s0 /\ \A i \in 1..m : f[i] = step[i][f[i - 1]]
           T == {m \in Nat : m <= n => Reaches(m)}
<1>1. 0 \in T
  <2>1. [i \in 0..0 |-> s0] \in [0..0 -> S] /\ [i \in 0..0 |-> s0][0] = s0 /\ 1..0 = {}
    OBVIOUS
  <2> QED BY <2>1
<1>2. ASSUME NEW m \in Nat, m \in T PROVE m + 1 \in T
  <2> SUFFICES ASSUME m + 1 <= n PROVE Reaches(m + 1)
    OBVIOUS
  <2>1. PICK f \in [0..m -> S] : f[0] = s0 /\ \A i \in 1..m : f[i] = step[i][f[i - 1]]
    BY <1>2
  <2> DEFINE g == [i \in 0..m + 1 |-> IF i <= m THEN f[i] ELSE step[m + 1][f[m]]]
  <2>2. m + 1 \in 1..n /\ m \in 0..m
    OBVIOUS
  <2>3. step[m + 1][f[m]] \in S
    BY <2>2
  <2>4. g \in [0..m + 1 -> S]
    BY <2>3
  <2>5. g[0] = s0
    BY <2>1
  <2>6. ASSUME NEW i \in 1..m + 1 PROVE g[i] = step[i][g[i - 1]]
    <3>1. CASE i \in 1..m
      BY <2>1, <3>1
    <3>2. CASE i = m + 1
      BY <3>2
    <3> QED BY <3>1, <3>2
  <2> HIDE DEF g
  <2> QED BY <2>4, <2>5, <2>6
<1> HIDE DEF T
<1>3. n \in T
  BY <1>1, <1>2, NumberInduction
<1> QED BY <1>3 DEF T

StepAlike(f, g, n) == f[0] = g[0] /\ \A i \in 1..n : f[i - 1] = g[i - 1] => f[i] = g[i]

LEMMA SameIteration ==
  ASSUME NEW n \in Nat, NEW f, NEW g, StepAlike(f, g, n)
  PROVE  \A i \in 0..n : f[i] = g[i]
<1> USE DEF StepAlike
<1> DEFINE T == {m \in Nat : m <= n => f[m] = g[m]}
<1>1. 0 \in T
  OBVIOUS
<1>2. ASSUME NEW m \in Nat, m \in T PROVE m + 1 \in T
  <2> SUFFICES ASSUME m + 1 <= n PROVE f[m + 1] = g[m + 1]
    OBVIOUS
  <2>1. m + 1 \in 1..n /\ (m + 1) - 1 = m /\ f[m] = g[m]
    BY <1>2
  <2> QED BY <2>1
<1> HIDE DEF T
<1>3. \A m \in Nat : m \in T
  BY <1>1, <1>2, NumberInduction
<1> QED BY <1>3 DEF T

LEMMA ConcatAppend ==
  ASSUME NEW S, NEW s \in Seq(S), NEW t \in Seq(S), NEW e \in S
  PROVE  s \o Append(t, e) = Append(s \o t, e) /\ s \o t \in Seq(S)
<1>1. <<e>> \in Seq(S) /\ s \o t \in Seq(S)
  BY ConcatProperties
<1>2. Append(t, e) = t \o <<e>> /\ Append(s \o t, e) = (s \o t) \o <<e>>
  BY <1>1, AppendIsConcat
<1>3. (s \o t) \o <<e>> = s \o (t \o <<e>>)
  BY <1>1, ConcatAssociative
<1> QED BY <1>1, <1>2, <1>3

-----------------------------------------------------------------------------
\* A sequence that something is added to or taken from.

Extends(q, m, r) == r = Append(q, m)

LEMMA Extended ==
  ASSUME NEW S, NEW q \in Seq(S), NEW m \in S, NEW r, Extends(q, m, r)
  PROVE  /\ r \in Seq(S) /\ Len(r) = Len(q) + 1 /\ Len(q) \in Nat
         /\ r[Len(q) + 1] = m /\ \A i \in 1..Len(q) : r[i] = q[i]
BY AppendProperties, LenProperties DEF Extends

RestOf(q, r) == q # << >> /\ r = Tail(q)

LEMMA Shortened ==
  ASSUME NEW S, NEW q \in Seq(S), NEW r, RestOf(q, r)
  PROVE  /\ r \in Seq(S) /\ Len(r) = Len(q) - 1 /\ Len(q) \in Nat \ {0}
         /\ Head(q) = q[1] /\ q[1] \in S /\ \A i \in 1..Len(q) - 1 : r[i] = q[i + 1]
BY DEF RestOf

-----------------------------------------------------------------------------
\* FlattenSeq.

\* f[i] is what the first i sequences of v make.
Joins(f, v) == f[0] = << >> /\ \A i \in 1..Len(v) : f[i] = f[i - 1] \o v[i]

LEMMA JoinsExists ==
  ASSUME NEW C, NEW v \in Seq(Seq(C))
  PROVE  \E f \in [0..Len(v) -> Seq(C)] : Joins(f, v)
<1> DEFINE n == Len(v)
           step == [i \in 1..n |-> [s \in Seq(C) |-> s \o v[i]]]
<1>1. n \in Nat /\ \A i \in 1..n : v[i] \in Seq(C)
  BY LenProperties, ElementOfSeq
<1> HIDE DEF n
<1>2. << >> \in Seq(C) /\ step \in [1..n -> [Seq(C) -> Seq(C)]]
  <2>1. \A i \in 1..n : \A s \in Seq(C) : s \o v[i] \in Seq(C)
    BY <1>1, ConcatProperties
  <2> QED BY <2>1
<1> DEFINE S == Seq(C)
           stp == step
           e == << >>
<1>3. e \in S /\ AreSteps(stp, n, S)
  BY <1>2 DEF AreSteps
<1>a. \A i \in 1..n : \A s \in S : stp[i][s] = s \o v[i]
  OBVIOUS
<1> HIDE DEF S, stp, e, step
<1>4. PICK f : IsIteration(f, n, S, e, stp)
  BY <1>1, <1>3, Iteration
<1>b. f \in [0..n -> S] /\ f[0] = e /\ \A i \in 1..n : f[i] = stp[i][f[i - 1]]
  BY <1>4 DEF IsIteration
<1>5. ASSUME NEW i \in 1..n PROVE f[i] = f[i - 1] \o v[i]
  <2>1. f[i - 1] \in S
    BY <1>1, <1>b
  <2> QED BY <1>b, <1>a, <2>1
<1>6. Joins(f, v)
  BY <1>b, <1>5 DEF Joins, n, e
<1> QED BY <1>b, <1>6 DEF S, n

LEMMA FlattenIs ==
  ASSUME NEW C, NEW v \in Seq(Seq(C)), NEW f \in [0..Len(v) -> Seq(C)], Joins(f, v)
  PROVE  FlattenSeq(v) = f[Len(v)]
<1> DEFINE n == Len(v)
           Is(g) == g = [i \in 1..n |-> IF i = 1 THEN v[i] ELSE g[i - 1] \o v[i]]
           flatten == CHOOSE g : Is(g)
<1>1. n \in Nat /\ \A i \in 1..n : v[i] \in Seq(C)
  BY LenProperties, ElementOfSeq
<1>2. CASE n = 0
  <2>1. v = << >>
    BY <1>2, EmptySeq
  <2> QED BY <1>2, <2>1 DEF FlattenSeq, Joins
<1>3. CASE n # 0
  <2> DEFINE h == [i \in 1..n |-> f[i]]
  <2>1. Is(h)
    <3>1. ASSUME NEW i \in 1..n PROVE f[i] = IF i = 1 THEN v[i] ELSE h[i - 1] \o v[i]
      <4>1. CASE i = 1
        <5>1. f[1] = << >> \o v[1]
          <6>1. f[i] = f[i - 1] \o v[i] /\ f[0] = << >>
            BY DEF Joins
          <6>2. i - 1 = 0
            BY <4>1
          <6> QED BY <4>1, <6>1, <6>2
        <5> QED BY <1>1, <4>1, <5>1, ConcatEmptySeq
      <4>2. CASE i # 1
        <5>1. i - 1 \in 1..n
          BY <1>1, <4>2
        <5>2. f[i] = f[i - 1] \o v[i]
          BY DEF Joins
        <5> QED BY <4>2, <5>1, <5>2
      <4> QED BY <4>1, <4>2
    <3> QED BY <3>1
  <2>2. Is(flatten)
    BY <2>1
  <2>3. FlattenSeq(v) = flatten[n]
    BY <1>3 DEF FlattenSeq
  <2> HIDE DEF flatten, h
  <2> DEFINE g == [i \in 0..n |-> IF i = 0 THEN << >> ELSE flatten[i]]
  <2>4. f[0] = g[0]
    BY <1>1 DEF Joins
  <2>5. ASSUME NEW i \in 1..n, f[i - 1] = g[i - 1] PROVE f[i] = g[i]
    <3>0. f[i] = f[i - 1] \o v[i]
      BY DEF Joins
    <3>1. CASE i = 1
      <4>1. f[1] = << >> \o v[1]
        <5>1. i - 1 = 0 /\ f[0] = << >>
          BY <3>1 DEF Joins
        <5> QED BY <3>0, <3>1, <5>1
      <4>2. flatten[1] = v[1]
        BY <2>2, <3>1
      <4> QED BY <1>1, <3>1, <4>1, <4>2, ConcatEmptySeq
    <3>2. CASE i # 1
      <4>1. i - 1 \in 0..n /\ i - 1 # 0 /\ i \in 0..n /\ i # 0
        BY <1>1, <3>2
      <4>2. flatten[i] = flatten[i - 1] \o v[i]
        BY <2>2, <3>2
      <4> QED BY <2>5, <3>0, <4>1, <4>2
    <3> QED BY <3>1, <3>2
  <2> HIDE DEF g
  <2>6. f[n] = g[n]
    <3>1. StepAlike(f, g, n)
      BY <2>4, <2>5 DEF StepAlike
    <3> HIDE DEF n
    <3>2. \A i \in 0..n : f[i] = g[i]
      BY <1>1, <3>1, SameIteration
    <3> QED BY <1>1, <3>2
  <2> QED BY <1>1, <1>3, <2>3, <2>6 DEF g
<1> QED BY <1>2, <1>3

LEMMA FlattenEmpty == FlattenSeq(<< >>) = << >>
BY EmptySeq DEF FlattenSeq

LEMMA FlattenAppend ==
  ASSUME NEW C, NEW v \in Seq(Seq(C)), NEW s \in Seq(C)
  PROVE  /\ FlattenSeq(v) \in Seq(C)
         /\ FlattenSeq(Append(v, s)) = FlattenSeq(v) \o s
<1> DEFINE n == Len(v)
           w == Append(v, s)
<1>1. /\ w \in Seq(Seq(C)) /\ Len(w) = n + 1 /\ n \in Nat /\ w[n + 1] = s
      /\ \A i \in 1..n : w[i] = v[i]
  BY AppendProperties, LenProperties
<1> HIDE DEF w
<1>2. PICK f \in [0..Len(w) -> Seq(C)] : Joins(f, w)
  BY <1>1, JoinsExists
<1> DEFINE g == [i \in 0..n |-> f[i]]
<1>3. g \in [0..n -> Seq(C)] /\ \A i \in 0..n : g[i] = f[i]
  BY <1>1, <1>2
<1> HIDE DEF g
<1>4. Joins(g, v)
  <2>1. g[0] = << >>
    BY <1>1, <1>2, <1>3 DEF Joins
  <2>2. ASSUME NEW i \in 1..n PROVE g[i] = g[i - 1] \o v[i]
    <3>1. i \in 1..Len(w) /\ i \in 0..n /\ i - 1 \in 0..n
      BY <1>1
    <3>2. f[i] = f[i - 1] \o w[i]
      BY <1>2, <3>1 DEF Joins
    <3> QED BY <1>1, <1>3, <3>1, <3>2
  <2> QED BY <2>1, <2>2 DEF Joins
<1>5. FlattenSeq(v) = g[n]
  BY <1>3, <1>4, FlattenIs
<1>6. FlattenSeq(w) = f[n + 1]
  BY <1>1, <1>2, FlattenIs
<1>7. f[n + 1] = f[n] \o s
  <2>1. n + 1 \in 1..Len(w) /\ (n + 1) - 1 = n
    BY <1>1
  <2>2. f[n + 1] = f[(n + 1) - 1] \o w[n + 1]
    BY <1>2, <2>1 DEF Joins
  <2> QED BY <1>1, <2>1, <2>2
<1>8. n \in 0..n
  BY <1>1
<1> QED BY <1>3, <1>5, <1>6, <1>7, <1>8 DEF w

-----------------------------------------------------------------------------
\* A part of a sequence, with the next element.
LEMMA SubSeqGrows ==
  ASSUME NEW S, NEW s \in Seq(S), NEW m \in Nat \ {0}, NEW n \in Nat, m <= n + 1, n + 1 <= Len(s)
  PROVE  /\ SubSeq(s, m, n) \in Seq(S) /\ Len(SubSeq(s, m, n)) = n + 1 - m
         /\ Append(SubSeq(s, m, n), s[n + 1]) = SubSeq(s, m, n + 1)
<1> DEFINE a == SubSeq(s, m, n)
           c == SubSeq(s, m, n + 1)
<1>0. Len(s) \in Nat /\ \A i \in 1..Len(s) : s[i] \in S
  BY LenProperties, ElementOfSeq
<1>1. /\ a \in Seq(S) /\ Len(a) = n + 1 - m
      /\ \A i \in 1..n + 1 - m : a[i] = s[m + i - 1]
  BY <1>0
<1>2. /\ c \in Seq(S) /\ Len(c) = n + 2 - m
      /\ \A i \in 1..n + 2 - m : c[i] = s[m + i - 1]
  BY <1>0
<1>3. s[n + 1] \in S
  BY <1>0
<1> DEFINE e == s[n + 1]
           d == Append(a, e)
<1> HIDE DEF a, c, e
<1>4. /\ d \in Seq(S) /\ Len(d) = n + 2 - m /\ d[n + 2 - m] = s[n + 1]
      /\ \A i \in 1..n + 1 - m : d[i] = a[i]
  <2>1. n + 1 - m \in Nat /\ (n + 1 - m) + 1 = n + 2 - m
    OBVIOUS
  <2>2. /\ d \in Seq(S) /\ Len(d) = Len(a) + 1 /\ d[Len(a) + 1] = e
        /\ \A i \in 1..Len(a) : d[i] = a[i]
    <3>1. e \in S
      BY <1>3 DEF e
    <3>2. a \in Seq(S)
      BY <1>1
    <3> QED BY ONLY <3>1, <3>2, AppendProperties
  <2> HIDE DEF d
  <2> QED BY <1>1, <2>1, <2>2 DEF e
<1> HIDE DEF d
<1>5. ASSUME NEW i \in 1..n + 2 - m PROVE d[i] = c[i]
  <2>1. CASE i \in 1..n + 1 - m
    BY <1>1, <1>2, <1>4, <2>1
  <2>2. CASE i = n + 2 - m
    <3>1. m + i - 1 = n + 1
      BY <2>2
    <3> QED BY <1>2, <1>4, <2>2, <3>1
  <2> QED BY <2>1, <2>2
<1>6. d = c
  BY <1>2, <1>4, <1>5, SeqEqual
<1> QED BY <1>1, <1>6 DEF a, c, d, e

-----------------------------------------------------------------------------
\* Counting positions.

LEMMA PositionsFinite ==
  ASSUME NEW n \in Nat, NEW P \in SUBSET (1..n)
  PROVE  IsFiniteSet(P) /\ Cardinality(P) \in Nat
<1>1. IsFiniteSet(1..n)
  BY FS_Interval
<1>2. IsFiniteSet(P)
  BY <1>1, FS_Subset
<1> QED BY <1>2, FS_CardinalityType

\* What is appended is counted last.
LEMMA CountGrows ==
  ASSUME NEW n \in Nat, NEW P \in SUBSET (1..n)
  PROVE  /\ Cardinality(P \cup {n + 1}) = Cardinality(P) + 1
         /\ {j \in P \cup {n + 1} : j <= n + 1} = P \cup {n + 1}
         /\ \A i \in 1..n : {j \in P \cup {n + 1} : j <= i} = {j \in P : j <= i}
<1>0. \A j \in P : j \in Nat /\ 1 <= j /\ j <= n
  OBVIOUS
<1>1. IsFiniteSet(P) /\ n + 1 \notin P
  <2>1. n + 1 \notin P
    BY <1>0
  <2> QED BY <2>1, PositionsFinite
<1>2. Cardinality(P \cup {n + 1}) = Cardinality(P) + 1
  BY <1>1, FS_AddElement
<1>3. {j \in P \cup {n + 1} : j <= n + 1} = P \cup {n + 1}
  <2>1. \A j \in P \cup {n + 1} : j <= n + 1
    BY <1>0
  <2> QED BY <2>1
<1>4. \A i \in 1..n : {j \in P \cup {n + 1} : j <= i} = {j \in P : j <= i}
  OBVIOUS
<1> QED BY <1>2, <1>3, <1>4

===============================================================================
