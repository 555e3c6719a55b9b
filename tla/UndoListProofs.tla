---------------------------- MODULE UndoListProofs ----------------------------
(***************************************************************************)
(* Proofs about UndoList, for every list and every bound: the places a     *)
(* journal holds are those the gesture found, no place is noted as gone    *)
(* twice, and UndoList implements EditHistory.                             *)
(***************************************************************************)
EXTENDS UndoList, Induction, FiniteSetTheorems, SequenceTheorems

-----------------------------------------------------------------------------
(* Sequences.                                                              *)

\* What holds of the empty list, and of a list with one more, holds of all.
LEMMA ListInduction ==
    ASSUME NEW T, <<>> \in T,
           \A l \in Seq(Nat), x \in Nat : l \in T => Append(l, x) \in T
    PROVE  Seq(Nat) \subseteq T
<1> DEFINE S == {n \in Nat : \A l \in Seq(Nat) : Len(l) = n => l \in T}
<1>1. 0 \in S
  BY EmptySeq
<1>2. ASSUME NEW n \in Nat, n \in S PROVE n + 1 \in S
  <2> SUFFICES ASSUME NEW l \in Seq(Nat), Len(l) = n + 1 PROVE l \in T
    OBVIOUS
  <2>1. l # <<>>
    BY EmptySeq
  <2>2. PICK m \in Seq(Nat), x \in Nat : l = Append(m, x)
    BY <2>1, SequenceEmptyOrAppend
  <2>3. Len(m) = n
    BY <2>2, AppendProperties, LenProperties
  <2> QED BY <1>2, <2>2, <2>3
<1>3. Nat \subseteq S
  <2> HIDE DEF S
  <2> QED BY <1>1, <1>2, Induction
<1> QED BY <1>3, LenProperties

\* A list with one more.
LEMMA OneMore ==
    ASSUME NEW l \in Seq(Nat), NEW x \in Nat
    PROVE  /\ Append(l, x) \in Seq(Nat) /\ Len(Append(l, x)) = Len(l) + 1
           /\ \A i \in 1..Len(l) : Append(l, x)[i] = l[i]
           /\ Append(l, x)[Len(l) + 1] = x
           /\ DOMAIN l = 1..Len(l) /\ DOMAIN Append(l, x) = 1..Len(l) + 1
           /\ ToSet(Append(l, x)) = ToSet(l) \cup {x}
           /\ IsInjective(Append(l, x)) <=> IsInjective(l) /\ x \notin ToSet(l)
<1> DEFINE m == Append(l, x)
<1>1. /\ m \in Seq(Nat) /\ Len(m) = Len(l) + 1 /\ Len(l) \in Nat
      /\ \A i \in 1..Len(l) : m[i] = l[i]
      /\ m[Len(l) + 1] = x
      /\ DOMAIN l = 1..Len(l) /\ DOMAIN m = 1..Len(l) + 1
  BY AppendProperties, LenProperties
<1> HIDE DEF m
<1>2. \A i : i \in 1..Len(l) + 1 <=> i \in 1..Len(l) \/ i = Len(l) + 1
  BY <1>1
<1>3. ToSet(m) = ToSet(l) \cup {x}
  BY <1>1, <1>2 DEF ToSet
<1>4. IsInjective(m) <=> IsInjective(l) /\ x \notin ToSet(l)
  <2>1. Len(l) + 1 \notin 1..Len(l)
    BY <1>1
  <2>2. ASSUME IsInjective(m) PROVE IsInjective(l) /\ x \notin ToSet(l)
    BY <1>1, <1>2, <2>1, <2>2 DEF IsInjective, ToSet
  <2>3. ASSUME IsInjective(l), x \notin ToSet(l) PROVE IsInjective(m)
    BY <1>1, <1>2, <2>1, <2>3 DEF IsInjective, ToSet
  <2> QED BY <2>2, <2>3
<1> QED BY <1>1, <1>3, <1>4 DEF m

-----------------------------------------------------------------------------
(* A list without some of its items (take_out).                            *)

\* What is left of each beginning of the list.
Lefts(f, l, S) ==
    /\ f \in [0..Len(l) -> Seq(Nat)] /\ f[0] = <<>>
    /\ \A k \in 1..Len(l) :
          f[k] = IF l[k] \in S THEN f[k - 1] ELSE Append(f[k - 1], l[k])

LEMMA LeftsMade ==
    ASSUME NEW l \in Seq(Nat), NEW S
    PROVE  \E f : Lefts(f, l, S) /\ Without(l, S) = f[Len(l)]
<1> DEFINE N == Len(l)
           B == Seq(Nat)
           step == [p \in (1..N) \X B |-> IF l[p[1]] \in S THEN p[2] ELSE Append(p[2], l[p[1]])]
           Made(f) == f = [k \in 0..N |-> IF k = 0 THEN <<>>
                              ELSE IF l[k] \in S THEN f[k - 1] ELSE Append(f[k - 1], l[k])]
<1>1. N \in Nat /\ <<>> \in B /\ \A k \in 1..N : l[k] \in Nat
  BY LenProperties, EmptySeq
<1>2. step \in StepsIn(N, B)
  <2>1. ASSUME NEW k \in 1..N, NEW b \in B
        PROVE  (IF l[k] \in S THEN b ELSE Append(b, l[k])) \in B
    BY <1>1, OneMore
  <2> HIDE DEF N, B
  <2> QED BY <2>1 DEF StepsIn
<1>3. \A k \in 1..N, b \in B :
          step[<<k, b>>] = IF l[k] \in S THEN b ELSE Append(b, l[k])
  OBVIOUS
<1> HIDE DEF step, N, B
<1>4. PICK f : Takes(f, <<>>, step, N, B)
  BY <1>1, <1>2, Recursion
<1>5. /\ f \in [0..N -> B] /\ f[0] = <<>>
      /\ \A k \in 1..N : f[k] = IF l[k] \in S THEN f[k - 1] ELSE Append(f[k - 1], l[k])
  <2>1. \A k \in 1..N : k - 1 \in 0..N
    BY <1>1
  <2> QED BY <1>3, <1>4, <2>1 DEF Takes
<1>6. Made(f)
  <2>1. \A k \in 0..N : k = 0 \/ k \in 1..N
    BY <1>1
  <2>2. \A k \in 1..N : k # 0
    BY <1>1
  <2>3. f = [k \in 0..N |-> f[k]]
    BY <1>5
  <2> QED BY <1>5, <2>1, <2>2, <2>3
<1> DEFINE left == CHOOSE g : Made(g)
<1>7. Made(left)
  BY <1>6
<1>8. Without(l, S) = left[N]
  BY DEF Without, N
<1> HIDE DEF left
<1>9. /\ left[0] = <<>>
      /\ \A k \in 1..N : left[k] = IF l[k] \in S THEN left[k - 1]
                                   ELSE Append(left[k - 1], l[k])
  <2>1. 0 \in 0..N /\ \A k \in 1..N : k \in 0..N /\ k # 0
    BY <1>1
  <2> QED BY <1>7, <2>1
<1>10. \A k \in 0..N : left[k] = f[k]
  <2> DEFINE T == {k \in 0..N : left[k] = f[k]}
  <2>1. 0 \in T /\ \A k \in 1..N : k - 1 \in T => k \in T
    BY <1>1, <1>5, <1>9
  <2>2. 0..N \subseteq T
    <3> HIDE DEF T
    <3> QED BY <1>1, <2>1, InductionTo
  <2> QED BY <2>2
<1>11. Without(l, S) = f[N]
  BY <1>1, <1>8, <1>10
<1> QED BY <1>5, <1>11 DEF Lefts, N, B

\* Lists that agree on what stays leave the same.
LEMMA LeftsAgree ==
    ASSUME NEW l \in Seq(Nat), NEW m \in Seq(Nat), NEW S, NEW T, NEW f, NEW g,
           Lefts(f, l, S), Lefts(g, m, T), NEW n \in Nat, n <= Len(l), n <= Len(m),
           \A p \in 1..n : (l[p] \in S <=> m[p] \in T) /\ (l[p] \notin S => l[p] = m[p])
    PROVE  f[n] = g[n]
<1> DEFINE D == {k \in 0..n : f[k] = g[k]}
<1>1. 0 \in D
  BY DEF Lefts
<1>2. ASSUME NEW k \in 1..n, k - 1 \in D PROVE k \in D
  <2>1. k \in 1..Len(l) /\ k \in 1..Len(m)
    BY LenProperties
  <2>2. f[k - 1] = g[k - 1]
    BY <1>2
  <2>3. f[k] = g[k]
    BY <2>1, <2>2 DEF Lefts
  <2> QED BY <2>3
<1>3. 0..n \subseteq D
  <2> HIDE DEF D
  <2> QED BY <1>1, <1>2, InductionTo
<1> QED BY <1>3

LEMMA WithoutAgree ==
    ASSUME NEW l \in Seq(Nat), NEW m \in Seq(Nat), NEW S, NEW T, Len(l) = Len(m),
           \A p \in 1..Len(l) : (l[p] \in S <=> m[p] \in T) /\ (l[p] \notin S => l[p] = m[p])
    PROVE  Without(l, S) = Without(m, T)
<1>1. PICK f : Lefts(f, l, S) /\ Without(l, S) = f[Len(l)]
  BY LeftsMade
<1>2. PICK g : Lefts(g, m, T) /\ Without(m, T) = g[Len(m)]
  BY LeftsMade
<1> DEFINE n == Len(l)
<1>3. n \in Nat /\ n <= Len(l) /\ n <= Len(m)
  BY LenProperties
<1>4. \A p \in 1..n : (l[p] \in S <=> m[p] \in T) /\ (l[p] \notin S => l[p] = m[p])
  OBVIOUS
<1>5. Lefts(f, l, S) /\ Lefts(g, m, T)
  BY <1>1, <1>2
<1> HIDE DEF n
<1>6. f[n] = g[n]
  BY <1>3, <1>4, <1>5, LeftsAgree
<1> QED BY <1>1, <1>2, <1>6 DEF n

LEMMA WithoutSame ==
    ASSUME NEW l \in Seq(Nat), NEW S, NEW T, \A x \in ToSet(l) : x \in S <=> x \in T
    PROVE  Without(l, S) = Without(l, T)
<1>1. \A p \in 1..Len(l) : l[p] \in ToSet(l)
  BY LenProperties DEF ToSet
<1> QED BY <1>1, WithoutAgree

\* The empty list, and a list with one more.
LEMMA WithoutSteps ==
    ASSUME NEW S
    PROVE  /\ Without(<<>>, S) = <<>>
           /\ \A l \in Seq(Nat), x \in Nat :
                 /\ Without(l, S) \in Seq(Nat)
                 /\ Without(Append(l, x), S) = IF x \in S THEN Without(l, S)
                                               ELSE Append(Without(l, S), x)
<1>1. Without(<<>>, S) = <<>>
  <2>1. <<>> \in Seq(Nat) /\ Len(<<>>) = 0
    BY EmptySeq
  <2>2. PICK f : Lefts(f, <<>>, S) /\ Without(<<>>, S) = f[Len(<<>>)]
    BY <2>1, LeftsMade
  <2> QED BY <2>1, <2>2 DEF Lefts
<1>2. ASSUME NEW l \in Seq(Nat), NEW x \in Nat
      PROVE  /\ Without(l, S) \in Seq(Nat)
             /\ Without(Append(l, x), S) = IF x \in S THEN Without(l, S)
                                           ELSE Append(Without(l, S), x)
  <2> DEFINE m == Append(l, x)
             n == Len(l)
  <2>1. /\ m \in Seq(Nat) /\ Len(m) = n + 1 /\ n \in Nat /\ m[n + 1] = x
        /\ \A i \in 1..n : m[i] = l[i]
    BY OneMore, LenProperties
  <2> HIDE DEF m, n
  <2>2. PICK f : Lefts(f, l, S) /\ Without(l, S) = f[Len(l)]
    BY LeftsMade
  <2>3. PICK g : Lefts(g, m, S) /\ Without(m, S) = g[Len(m)]
    BY <2>1, LeftsMade
  <2>4. g[n] = f[n]
    <3>1. n <= Len(l) /\ n <= Len(m)
      BY <2>1 DEF n
    <3>2. \A p \in 1..n : (m[p] \in S <=> l[p] \in S) /\ (m[p] \notin S => m[p] = l[p])
      BY <2>1
    <3>3. m \in Seq(Nat) /\ n \in Nat /\ Lefts(f, l, S) /\ Lefts(g, m, S)
      BY <2>1, <2>2, <2>3
    <3>4. \A p \in 1..n : (l[p] \in S <=> m[p] \in S) /\ (l[p] \notin S => l[p] = m[p])
      BY <3>2
    <3>5. f[n] = g[n]
      BY <3>1, <3>3, <3>4, LeftsAgree
    <3> QED BY <3>5
  <2>5. n + 1 \in 1..Len(m) /\ n + 1 - 1 = n /\ n \in 0..Len(l)
    BY <2>1 DEF n
  <2>6. g[n + 1] = IF x \in S THEN g[n] ELSE Append(g[n], x)
    BY <2>1, <2>3, <2>5 DEF Lefts
  <2>7. f[n] \in Seq(Nat)
    BY <2>2, <2>5 DEF Lefts
  <2> QED BY <2>1, <2>2, <2>3, <2>4, <2>6, <2>7 DEF m, n
<1> QED BY <1>1, <1>2

\* The same of one list, by what goes.
LEMMA WithoutMore ==
    ASSUME NEW S, NEW l \in Seq(Nat), NEW x \in Nat
    PROVE  /\ x \in S => Without(Append(l, x), S) = Without(l, S)
           /\ x \notin S => Without(Append(l, x), S) = Append(Without(l, S), x)
BY WithoutSteps

\* What stays, and what stays of what stays.
LEMMA WithoutType ==
    ASSUME NEW l \in Seq(Nat), NEW S
    PROVE  /\ Without(l, S) \in Seq(Nat)
           /\ ToSet(Without(l, S)) = ToSet(l) \ S
           /\ IsInjective(l) => IsInjective(Without(l, S))
<1> DEFINE T == {m \in Seq(Nat) : /\ ToSet(Without(m, S)) = ToSet(m) \ S
                                  /\ IsInjective(m) => IsInjective(Without(m, S))}
<1>1. <<>> \in T
  <2>1. <<>> \in Seq(Nat) /\ DOMAIN <<>> = {}
    BY EmptySeq
  <2>2. ToSet(<<>>) = {} /\ IsInjective(<<>>)
    BY <2>1 DEF ToSet, IsInjective
  <2> QED BY <2>1, <2>2, WithoutSteps
<1>2. ASSUME NEW m \in Seq(Nat), NEW x \in Nat, m \in T PROVE Append(m, x) \in T
  <2> DEFINE w == Without(m, S)
             a == Append(m, x)
             v == Without(a, S)
  <2>1. /\ w \in Seq(Nat) /\ ToSet(w) = ToSet(m) \ S
        /\ IsInjective(m) => IsInjective(w)
        /\ v = IF x \in S THEN w ELSE Append(w, x)
    BY <1>2, WithoutSteps
  <2>2. /\ a \in Seq(Nat) /\ ToSet(a) = ToSet(m) \cup {x}
        /\ IsInjective(a) <=> IsInjective(m) /\ x \notin ToSet(m)
    BY OneMore
  <2>3. /\ ToSet(Append(w, x)) = ToSet(w) \cup {x}
        /\ IsInjective(Append(w, x)) <=> IsInjective(w) /\ x \notin ToSet(w)
    BY <2>1, OneMore
  <2> HIDE DEF w, a, v
  <2>4. ToSet(v) = ToSet(a) \ S /\ (IsInjective(a) => IsInjective(v))
    BY <2>1, <2>2, <2>3
  <2> QED BY <2>2, <2>4 DEF v, a
<1>3. Seq(Nat) \subseteq T
  <2> HIDE DEF T
  <2> QED BY <1>1, <1>2, ListInduction
<1> QED BY <1>3, WithoutSteps

LEMMA WithoutTwice ==
    ASSUME NEW l \in Seq(Nat), NEW S, NEW U
    PROVE  Without(Without(l, S), U) = Without(l, S \cup U)
<1> DEFINE T == {m \in Seq(Nat) : Without(Without(m, S), U) = Without(m, S \cup U)}
<1>1. <<>> \in T
  BY EmptySeq, WithoutSteps
<1>2. ASSUME NEW m \in Seq(Nat), NEW x \in Nat, m \in T PROVE Append(m, x) \in T
  <2> DEFINE w == Without(m, S)
             B == S \cup U
             a == Append(m, x)
  <2>1. a \in Seq(Nat)
    BY OneMore
  <2>2. /\ w \in Seq(Nat)
        /\ Without(a, S) = IF x \in S THEN w ELSE Append(w, x)
    BY WithoutSteps
  <2>3. Without(a, B) = IF x \in B THEN Without(m, B) ELSE Append(Without(m, B), x)
    <3> HIDE DEF B
    <3> QED BY WithoutSteps
  <2>4. /\ x \in U => Without(Append(w, x), U) = Without(w, U)
        /\ x \notin U => Without(Append(w, x), U) = Append(Without(w, U), x)
    <3> HIDE DEF w
    <3>1. w \in Seq(Nat) /\ x \in Nat
      BY <2>2
    <3> QED BY ONLY <3>1, WithoutMore, Zenon
  <2>5. Without(w, U) = Without(m, B)
    BY <1>2
  <2>6. x \in B <=> x \in S \/ x \in U
    OBVIOUS
  <2> HIDE DEF w, B, a
  <2>7. Without(Without(a, S), U) = Without(a, B)
    <3>1. CASE x \in S
      BY <2>2, <2>3, <2>5, <2>6, <3>1
    <3>2. CASE x \notin S /\ x \in U
      BY <2>2, <2>3, <2>4, <2>5, <2>6, <3>2
    <3>3. CASE x \notin S /\ x \notin U
      BY <2>2, <2>3, <2>4, <2>5, <2>6, <3>3
    <3> QED BY <3>1, <3>2, <3>3
  <2> QED BY <2>1, <2>7 DEF a, B
<1>3. Seq(Nat) \subseteq T
  <2> HIDE DEF T
  <2> QED BY <1>1, <1>2, ListInduction
<1> QED BY <1>3

\* Nothing goes, or all does.
LEMMA WithoutNone ==
    ASSUME NEW l \in Seq(Nat), NEW S, ToSet(l) \cap S = {}
    PROVE  Without(l, S) = l
<1> DEFINE T == {m \in Seq(Nat) : Without(m, {}) = m}
<1>1. <<>> \in T
  BY EmptySeq, WithoutSteps
<1>2. ASSUME NEW m \in Seq(Nat), NEW x \in Nat, m \in T PROVE Append(m, x) \in T
  <2>1. Without(Append(m, x), {}) = Append(Without(m, {}), x)
    BY WithoutSteps
  <2>2. Append(m, x) \in Seq(Nat)
    BY OneMore
  <2> QED BY <1>2, <2>1, <2>2
<1>3. Seq(Nat) \subseteq T
  <2> HIDE DEF T
  <2> QED BY <1>1, <1>2, ListInduction
<1>4. Without(l, S) = Without(l, {})
  <2>1. \A x \in ToSet(l) : x \in S <=> x \in {}
    OBVIOUS
  <2> QED BY <2>1, WithoutSame
<1> QED BY <1>3, <1>4

LEMMA WithoutAll ==
    ASSUME NEW l \in Seq(Nat), NEW S, ToSet(l) \subseteq S
    PROVE  Without(l, S) = <<>>
<1> DEFINE w == Without(l, S)
<1>1. w \in Seq(Nat) /\ ToSet(w) = {}
  BY WithoutType
<1> HIDE DEF w
<1>2. w = <<>>
  <2> SUFFICES ASSUME w # <<>> PROVE FALSE
    OBVIOUS
  <2>1. Len(w) \in Nat \ {0} /\ DOMAIN w = 1..Len(w)
    BY <1>1, EmptySeq, LenProperties
  <2>2. w[1] \in ToSet(w)
    BY <2>1 DEF ToSet
  <2> QED BY <1>1, <2>2
<1> QED BY <1>2 DEF w

\* Two lists, one after the other.
LEMMA Joined ==
    ASSUME NEW l \in Seq(Nat), NEW m \in Seq(Nat)
    PROVE  /\ l \o m \in Seq(Nat) /\ l \o <<>> = l
           /\ Len(l \o m) = Len(l) + Len(m)
           /\ \A x \in Nat : l \o Append(m, x) = Append(l \o m, x)
           /\ \A i \in 1..Len(l) : (l \o m)[i] = l[i]
           /\ \A i \in 1..Len(m) : (l \o m)[Len(l) + i] = m[i]
           /\ ToSet(l \o m) = ToSet(l) \cup ToSet(m)
           /\ IsInjective(l \o m) <=>
                 IsInjective(l) /\ IsInjective(m) /\ ToSet(l) \cap ToSet(m) = {}
<1> DEFINE j == l \o m
<1>1. /\ j \in Seq(Nat) /\ Len(j) = Len(l) + Len(m) /\ Len(l) \in Nat /\ Len(m) \in Nat
      /\ \A i \in 1..Len(l) + Len(m) : j[i] = IF i <= Len(l) THEN l[i] ELSE m[i - Len(l)]
      /\ DOMAIN l = 1..Len(l) /\ DOMAIN m = 1..Len(m) /\ DOMAIN j = 1..Len(l) + Len(m)
  BY ConcatProperties, LenProperties
<1>2. l \o <<>> = l
  BY ConcatEmptySeq
<1>3. ASSUME NEW x \in Nat PROVE l \o Append(m, x) = Append(l \o m, x)
  <2>1. <<x>> \in Seq(Nat)
    OBVIOUS
  <2>2. Append(m, x) = m \o <<x>> /\ Append(l \o m, x) = (l \o m) \o <<x>>
    BY <1>1, AppendIsConcat
  <2> QED BY <2>1, <2>2, ConcatAssociative
<1> HIDE DEF j
<1>4. /\ \A i \in 1..Len(l) : j[i] = l[i]
      /\ \A i \in 1..Len(m) : j[Len(l) + i] = m[i]
  <2>1. \A i \in 1..Len(l) : i \in 1..Len(l) + Len(m) /\ i <= Len(l)
    BY <1>1
  <2>2. ASSUME NEW i \in 1..Len(m) PROVE j[Len(l) + i] = m[i]
    <3>1. /\ Len(l) + i \in 1..Len(l) + Len(m) /\ ~(Len(l) + i <= Len(l))
          /\ Len(l) + i - Len(l) = i
      BY <1>1
    <3>2. \A k \in 1..Len(l) + Len(m) : ~(k <= Len(l)) => j[k] = m[k - Len(l)]
      BY <1>1
    <3> DEFINE k == Len(l) + i
    <3>3. k \in 1..Len(l) + Len(m) /\ ~(k <= Len(l)) /\ k - Len(l) = i
      BY <3>1
    <3> HIDE DEF k
    <3>4. j[k] = m[i]
      BY <3>2, <3>3
    <3> QED BY <3>4 DEF k
  <2> QED BY <1>1, <2>1, <2>2
<1>5. /\ \A i \in 1..Len(l) : i \in DOMAIN j
      /\ \A i \in 1..Len(m) : Len(l) + i \in DOMAIN j
      /\ \A i \in DOMAIN j : i \in 1..Len(l) \/ \E k \in 1..Len(m) : i = Len(l) + k
  <2>1. ASSUME NEW i \in DOMAIN j, i \notin 1..Len(l)
        PROVE  i - Len(l) \in 1..Len(m) /\ i = Len(l) + (i - Len(l))
    BY <1>1, <2>1
  <2>2. \A i \in DOMAIN j : i \in 1..Len(l) \/ \E k \in 1..Len(m) : i = Len(l) + k
    BY <2>1
  <2>3. /\ \A i \in 1..Len(l) : i \in DOMAIN j
        /\ \A i \in 1..Len(m) : Len(l) + i \in DOMAIN j
    BY <1>1
  <2> QED BY <2>2, <2>3
<1>6. ToSet(j) = ToSet(l) \cup ToSet(m)
  <2>1. \A i \in DOMAIN j : j[i] \in ToSet(l) \cup ToSet(m)
    <3> SUFFICES ASSUME NEW i \in DOMAIN j PROVE j[i] \in ToSet(l) \cup ToSet(m)
      OBVIOUS
    <3>1. CASE i \in 1..Len(l)
      BY <1>1, <1>4, <3>1 DEF ToSet
    <3>2. CASE \E k \in 1..Len(m) : i = Len(l) + k
      BY <1>1, <1>4, <3>2 DEF ToSet
    <3> QED BY <1>5, <3>1, <3>2
  <2>2. \A i \in DOMAIN l : l[i] \in ToSet(j)
    BY <1>1, <1>4, <1>5 DEF ToSet
  <2>3. \A i \in DOMAIN m : m[i] \in ToSet(j)
    BY <1>1, <1>4, <1>5 DEF ToSet
  <2>4. ToSet(j) \subseteq ToSet(l) \cup ToSet(m)
    BY <2>1 DEF ToSet
  <2>5. ToSet(l) \subseteq ToSet(j) /\ ToSet(m) \subseteq ToSet(j)
    BY <2>2, <2>3 DEF ToSet
  <2> QED BY <2>4, <2>5
<1>7. ASSUME IsInjective(j)
      PROVE  IsInjective(l) /\ IsInjective(m) /\ ToSet(l) \cap ToSet(m) = {}
  <2>1. IsInjective(l)
    BY <1>1, <1>4, <1>5, <1>7 DEF IsInjective
  <2>2. IsInjective(m)
    <3> SUFFICES ASSUME NEW a \in DOMAIN m, NEW b \in DOMAIN m, m[a] = m[b] PROVE a = b
      BY DEF IsInjective
    <3>0. /\ Len(l) + a \in DOMAIN j /\ Len(l) + b \in DOMAIN j
          /\ j[Len(l) + a] = j[Len(l) + b]
      BY <1>1, <1>4, <1>5
    <3>1. Len(l) + a = Len(l) + b
      BY <1>7, <3>0 DEF IsInjective
    <3> QED BY <1>1, <3>1
  <2>3. ASSUME NEW a \in DOMAIN l, NEW b \in DOMAIN m, l[a] = m[b] PROVE FALSE
    <3>1. j[a] = j[Len(l) + b] /\ a \in DOMAIN j /\ Len(l) + b \in DOMAIN j
      BY <1>1, <1>4, <1>5, <2>3
    <3>2. a = Len(l) + b
      BY <1>7, <3>1 DEF IsInjective
    <3>3. a \in Int /\ b \in Int /\ a <= Len(l) /\ b > 0
      BY <1>1
    <3> QED BY <1>1, <3>2, <3>3
  <2> QED BY <2>1, <2>2, <2>3 DEF ToSet
<1>8. ASSUME IsInjective(l), IsInjective(m), ToSet(l) \cap ToSet(m) = {}
      PROVE  IsInjective(j)
  <2> SUFFICES ASSUME NEW a \in DOMAIN j, NEW b \in DOMAIN j, j[a] = j[b] PROVE a = b
    BY DEF IsInjective
  <2>0. ASSUME NEW i \in DOMAIN j, i \notin 1..Len(l)
        PROVE  \E k \in DOMAIN m : i = Len(l) + k /\ j[i] = m[k] /\ m[k] \in ToSet(m)
    <3>1. PICK k \in 1..Len(m) : i = Len(l) + k
      BY <1>5, <2>0
    <3> QED BY <1>1, <1>4, <3>1 DEF ToSet
  <2>5. \A i \in 1..Len(l) : i \in DOMAIN l /\ j[i] = l[i] /\ l[i] \in ToSet(l)
    BY <1>1, <1>4 DEF ToSet
  <2>1. CASE a \in 1..Len(l) /\ b \in 1..Len(l)
    <3>1. l[a] = l[b] /\ a \in DOMAIN l /\ b \in DOMAIN l
      BY <2>1, <2>5
    <3> QED BY <1>8, <3>1 DEF IsInjective
  <2>2. CASE a \notin 1..Len(l) /\ b \notin 1..Len(l)
    <3>1. PICK k \in DOMAIN m : a = Len(l) + k /\ j[a] = m[k]
      BY <2>0, <2>2
    <3>2. PICK n \in DOMAIN m : b = Len(l) + n /\ j[b] = m[n]
      BY <2>0, <2>2
    <3>3. k = n
      BY <1>8, <3>1, <3>2 DEF IsInjective
    <3> QED BY <3>1, <3>2, <3>3
  <2>3. CASE a \in 1..Len(l) /\ b \notin 1..Len(l)
    BY <1>8, <2>0, <2>3, <2>5
  <2>4. CASE a \notin 1..Len(l) /\ b \in 1..Len(l)
    BY <1>8, <2>0, <2>4, <2>5
  <2> QED BY <2>1, <2>2, <2>3, <2>4
<1> QED BY <1>1, <1>2, <1>3, <1>4, <1>6, <1>7, <1>8 DEF j

LEMMA WithoutJoined ==
    ASSUME NEW l \in Seq(Nat), NEW m \in Seq(Nat), NEW S
    PROVE  Without(l \o m, S) = Without(l, S) \o Without(m, S)
<1> DEFINE T == {k \in Seq(Nat) : Without(l \o k, S) = Without(l, S) \o Without(k, S)}
<1>1. <<>> \in T
  <2>1. <<>> \in Seq(Nat) /\ Without(<<>>, S) = <<>> /\ Without(l, S) \in Seq(Nat)
    BY EmptySeq, WithoutSteps
  <2> QED BY <2>1, Joined
<1>2. ASSUME NEW k \in Seq(Nat), NEW x \in Nat, k \in T PROVE Append(k, x) \in T
  <2> DEFINE w == Without(k, S)
             v == Without(l, S)
             a == Append(k, x)
  <2>1. w \in Seq(Nat) /\ v \in Seq(Nat) /\ a \in Seq(Nat)
        /\ Without(a, S) = IF x \in S THEN w ELSE Append(w, x)
    BY WithoutSteps, OneMore
  <2>2. l \o a = Append(l \o k, x) /\ l \o k \in Seq(Nat)
    BY Joined
  <2>3. Without(l \o a, S) = IF x \in S THEN Without(l \o k, S)
                             ELSE Append(Without(l \o k, S), x)
    <3> DEFINE lk == l \o k
    <3> HIDE DEF lk, a
    <3>1. lk \in Seq(Nat) /\ x \in Nat /\ l \o a = Append(lk, x)
      BY <2>2 DEF lk
    <3>2. /\ x \in S => Without(Append(lk, x), S) = Without(lk, S)
          /\ x \notin S => Without(Append(lk, x), S) = Append(Without(lk, S), x)
      BY ONLY WithoutMore, <3>1, Zenon
    <3> QED BY <3>1, <3>2 DEF lk
  <2>4. Without(l \o k, S) = v \o w
    BY <1>2
  <2>5. v \o Append(w, x) = Append(v \o w, x)
    BY <2>1, Joined
  <2> HIDE DEF w, v, a
  <2>6. Without(l \o a, S) = v \o Without(a, S)
    BY <2>1, <2>3, <2>4, <2>5
  <2> QED BY <2>1, <2>6 DEF v, a
<1>3. Seq(Nat) \subseteq T
  <2> HIDE DEF T
  <2> QED BY <1>1, <1>2, ListInduction
<1> QED BY <1>3

-----------------------------------------------------------------------------
(* The places gone, in order, and how many lie before one.                 *)

Sorted(g) == g \in Seq(Nat) /\ \A m, n \in 1..Len(g) : m < n => g[m] < g[n]

Below(g, o, c) == c \in 0..Len(g) /\ \A k \in 1..Len(g) : g[k] < o <=> k <= c

\* The first c places, and no others, lie below o, for some c.
LEMMA BelowExists ==
    ASSUME NEW g, Sorted(g), NEW o \in Nat
    PROVE  \E c : Below(g, o, c)
<1> DEFINE N == Len(g)
           D == {n \in 0..N : \E c \in 0..n : \A k \in 1..n : g[k] < o <=> k <= c}
<1>1. /\ N \in Nat /\ \A k \in 1..N : g[k] \in Nat
      /\ \A m, n \in 1..N : m < n => g[m] < g[n]
  BY LenProperties DEF Sorted
<1> HIDE DEF N
<1>2. 0 \in D
  <2>1. 0 \in 0..N /\ 0 \in 0..0 /\ \A k \in 1..0 : FALSE
    BY <1>1
  <2> QED BY <2>1
<1>3. ASSUME NEW n \in 1..N, n - 1 \in D PROVE n \in D
  <2>1. PICK c \in 0..n - 1 : \A k \in 1..n - 1 : g[k] < o <=> k <= c
    BY <1>3
  <2>2. n \in 0..N /\ n \in Nat /\ \A k \in 1..n : k \in 1..N /\ (k \in 1..n - 1 \/ k = n)
    BY <1>1
  <2>3. CASE g[n] < o
    <3>1. \A k \in 1..n : g[k] < o /\ k <= n
      <4> SUFFICES ASSUME NEW k \in 1..n, k # n PROVE g[k] < o
        BY <2>2, <2>3
      <4>1. g[k] < g[n]
        BY <1>1, <2>2
      <4>2. g[k] \in Nat /\ g[n] \in Nat
        BY <1>1, <2>2
      <4> QED BY <2>3, <4>1, <4>2
    <3>2. n \in 0..n
      BY <2>2
    <3> QED BY <2>2, <3>1, <3>2
  <2>4. CASE ~(g[n] < o)
    <3>1. c \in 0..n /\ ~(n <= c)
      BY <2>2
    <3>2. \A k \in 1..n : g[k] < o <=> k <= c
      BY <2>1, <2>2, <2>4, <3>1
    <3> QED BY <2>2, <3>1, <3>2
  <2> QED BY <2>3, <2>4
<1>4. 0..N \subseteq D
  <2> HIDE DEF D
  <2> QED BY <1>1, <1>2, <1>3, InductionTo
<1>5. N \in D
  <2>1. N \in 0..N
    BY <1>1
  <2> QED BY <1>4, <2>1
<1> QED BY <1>5 DEF Below, N

\* Places are at least as far apart as their numbers.
LEMMA SortedGap ==
    ASSUME NEW g, Sorted(g), NEW a \in 1..Len(g), NEW b \in 1..Len(g), a <= b
    PROVE  g[a] + (b - a) <= g[b]
<1> DEFINE N == b - a
           D == {d \in 0..N : g[a] + d <= g[a + d]}
<1>1. /\ Len(g) \in Nat /\ \A k \in 1..Len(g) : g[k] \in Nat
      /\ \A m, n \in 1..Len(g) : m < n => g[m] < g[n]
  BY LenProperties DEF Sorted
<1>2. N \in Nat /\ a \in Nat /\ b \in Nat /\ a + N = b
  BY <1>1
<1>3. 0 \in D
  <2>1. a + 0 = a /\ g[a] \in Nat /\ 0 \in 0..N
    BY <1>1, <1>2
  <2> QED BY <2>1
<1>4. ASSUME NEW d \in 1..N, d - 1 \in D PROVE d \in D
  <2>1. a + (d - 1) \in 1..Len(g) /\ a + d \in 1..Len(g) /\ a + (d - 1) < a + d
    BY <1>1, <1>2
  <2>2. g[a + (d - 1)] < g[a + d]
    BY <1>1, <2>1
  <2>3. g[a + (d - 1)] \in Nat /\ g[a + d] \in Nat /\ g[a] \in Nat
    BY <1>1, <2>1
  <2>4. g[a] + (d - 1) <= g[a + (d - 1)]
    BY <1>4
  <2> DEFINE x == g[a + (d - 1)]
             y == g[a + d]
  <2> HIDE DEF x, y
  <2>5. x < y /\ x \in Nat /\ y \in Nat /\ g[a] + (d - 1) <= x /\ g[a] \in Nat
    BY <2>2, <2>3, <2>4 DEF x, y
  <2>6. g[a] + d <= y
    BY <2>5
  <2> QED BY <2>6 DEF y
<1>5. 0..N \subseteq D
  <2> HIDE DEF D, N
  <2> QED BY <1>2, <1>3, <1>4, InductionTo
<1>6. N \in D
  <2>1. N \in 0..N
    BY <1>2
  <2> QED BY <1>5, <2>1
<1> QED BY <1>2, <1>6

\* Beginnings grow.
LEMMA LeftsGrow ==
    ASSUME NEW l \in Seq(Nat), NEW S, NEW f, Lefts(f, l, S),
           NEW a \in 0..Len(l), NEW b \in a..Len(l)
    PROVE  /\ Len(f[a]) <= Len(f[b])
           /\ \A i \in 1..Len(f[a]) : f[b][i] = f[a][i]
<1> DEFINE N == b - a
           D == {d \in 0..N : /\ Len(f[a]) <= Len(f[a + d])
                              /\ \A i \in 1..Len(f[a]) : f[a + d][i] = f[a][i]}
<1>1. Len(l) \in Nat /\ a \in Nat /\ b \in Nat /\ N \in Nat /\ a + N = b /\ b <= Len(l)
  BY LenProperties
<1>2. \A k \in 0..Len(l) : f[k] \in Seq(Nat) /\ Len(f[k]) \in Nat
  BY LenProperties DEF Lefts
<1>3. 0 \in D
  <2>1. a + 0 = a /\ 0 \in 0..N /\ Len(f[a]) \in Nat
    BY <1>1, <1>2
  <2> QED BY <2>1
<1>4. ASSUME NEW d \in 1..N, d - 1 \in D PROVE d \in D
  <2> DEFINE k == a + d
             p == f[k - 1]
             q == f[k]
             r == f[a]
  <2>1. k \in 1..Len(l) /\ k - 1 \in 0..Len(l) /\ k \in 0..Len(l) /\ a + (d - 1) = k - 1
        /\ a \in 0..Len(l)
    BY <1>1
  <2>2. Len(r) <= Len(p) /\ \A i \in 1..Len(r) : p[i] = r[i]
    BY <1>4, <2>1
  <2>3. p \in Seq(Nat) /\ q \in Seq(Nat) /\ Len(p) \in Nat /\ Len(q) \in Nat /\ Len(r) \in Nat
    BY <1>2, <2>1
  <2>4. q = IF l[k] \in S THEN p ELSE Append(p, l[k])
    BY <2>1 DEF Lefts
  <2>5. l[k] \in Nat
    BY <2>1, LenProperties
  <2> HIDE DEF k, p, q, r
  <2>6. Len(r) <= Len(q) /\ \A i \in 1..Len(r) : q[i] = r[i]
    <3>1. CASE q = p
      BY <2>2, <3>1
    <3>2. CASE q = Append(p, l[k])
      <4>1. Len(q) = Len(p) + 1 /\ \A i \in 1..Len(p) : q[i] = p[i]
        BY <2>3, <2>5, <3>2, OneMore
      <4>2. \A i \in 1..Len(r) : i \in 1..Len(p)
        BY <2>2, <2>3
      <4> QED BY <2>2, <2>3, <4>1, <4>2
    <3> QED BY <2>4, <3>1, <3>2
  <2> QED BY <2>6 DEF k, q, r
<1>5. 0..N \subseteq D
  <2> HIDE DEF D, N
  <2> QED BY <1>1, <1>3, <1>4, InductionTo
<1>6. N \in D
  <2>1. N \in 0..N
    BY <1>1
  <2> QED BY <1>5, <2>1
<1> QED BY <1>1, <1>6

\* The units at the places gone.
Taken(found, gone) == {found[a + 1] : a \in ToSet(gone)}

\* A list, no unit of which stands twice, and places of it in order.
Places(found, gone) ==
    /\ found \in Seq(Nat) /\ IsInjective(found)
    /\ Sorted(gone) /\ \A a \in ToSet(gone) : a < Len(found)

\* A unit is taken when its place is gone.
LEMMA TakenAt ==
    ASSUME NEW found, NEW gone, Places(found, gone)
    PROVE  /\ ToSet(gone) \subseteq Nat
           /\ Taken(found, gone) \subseteq ToSet(found)
           /\ \A o \in 0..Len(found) - 1 :
                 found[o + 1] \in Taken(found, gone) <=> o \in ToSet(gone)
<1>1. /\ Len(found) \in Nat /\ DOMAIN found = 1..Len(found)
      /\ \A i, k \in 1..Len(found) : found[i] = found[k] => i = k
  BY LenProperties DEF Places, IsInjective
<1>2. \A k \in DOMAIN gone : gone[k] \in Nat
  BY LenProperties DEF Places, Sorted
<1>3. ToSet(gone) \subseteq Nat
  BY <1>2 DEF ToSet
<1>4. \A a \in ToSet(gone) : a \in Nat /\ a + 1 \in 1..Len(found)
  <2> SUFFICES ASSUME NEW a \in ToSet(gone) PROVE a \in Nat /\ a + 1 \in 1..Len(found)
    OBVIOUS
  <2>1. a \in Nat /\ a < Len(found)
    BY <1>3 DEF Places
  <2> QED BY <1>1, <2>1
<1>5. Taken(found, gone) \subseteq ToSet(found)
  BY <1>1, <1>4 DEF Taken, ToSet
<1>6. ASSUME NEW o \in 0..Len(found) - 1
      PROVE  found[o + 1] \in Taken(found, gone) <=> o \in ToSet(gone)
  <2>1. o + 1 \in 1..Len(found) /\ o \in Nat
    BY <1>1
  <2>2. ASSUME NEW a \in ToSet(gone), found[o + 1] = found[a + 1] PROVE o = a
    <3>1. o + 1 = a + 1 /\ a \in Nat
      BY <1>1, <1>4, <2>1, <2>2
    <3> QED BY <2>1, <3>1
  <2> QED BY <2>2 DEF Taken
<1> QED BY <1>3, <1>5, <1>6

\* Of the first m units, those that stay are as many as are not gone.
LEMMA LeftsCount ==
    ASSUME NEW found, NEW gone, NEW f, Places(found, gone),
           Lefts(f, found, Taken(found, gone))
    PROVE  \A m \in 0..Len(found) :
              \E c : Below(gone, m, c) /\ Len(f[m]) = m - c
<1> DEFINE N == Len(found)
           T == Taken(found, gone)
           D == {m \in 0..N : \E c : Below(gone, m, c) /\ Len(f[m]) = m - c}
<1>1. N \in Nat /\ Len(gone) \in Nat /\ \A k \in 1..Len(gone) : gone[k] \in Nat
  BY LenProperties DEF Places, Sorted
<1>2. DOMAIN gone = 1..Len(gone)
  BY LenProperties DEF Places, Sorted
<1>3. 0 \in D
  <2>1. Below(gone, 0, 0)
    <3>1. \A k \in 1..Len(gone) : ~(gone[k] < 0) /\ ~(k <= 0)
      BY <1>1
    <3> QED BY <1>1, <3>1 DEF Below
  <2>2. Len(f[0]) = 0 - 0
    BY EmptySeq DEF Lefts
  <2>3. 0 \in 0..N
    BY <1>1
  <2> QED BY <2>1, <2>2, <2>3
<1>4. ASSUME NEW m \in 1..N, m - 1 \in D PROVE m \in D
  <2>1. PICK c : Below(gone, m - 1, c) /\ Len(f[m - 1]) = m - 1 - c
    BY <1>4
  <2>2. m - 1 \in 0..N - 1 /\ m - 1 \in 0..N /\ m - 1 + 1 = m /\ m \in 0..N
    BY <1>1
  <2>3. found[m] \in T <=> m - 1 \in ToSet(gone)
    <3>1. found[m - 1 + 1] \in T <=> m - 1 \in ToSet(gone)
      BY <2>2, TakenAt
    <3> QED BY <2>2, <3>1
  <2>4. f[m] = IF found[m] \in T THEN f[m - 1] ELSE Append(f[m - 1], found[m])
    BY DEF Lefts
  <2>5. c \in 0..Len(gone) /\ \A k \in 1..Len(gone) : gone[k] < m - 1 <=> k <= c
    BY <2>1 DEF Below
  <2>6. CASE m - 1 \in ToSet(gone)
    <3>1. PICK k \in 1..Len(gone) : gone[k] = m - 1
      BY <1>2, <2>6 DEF ToSet
    <3>2. \A i \in 1..Len(gone) : (i < k => gone[i] < m - 1) /\ (k < i => m - 1 < gone[i])
      BY <3>1 DEF Places, Sorted
    <3>3. k = c + 1
      <4>1. ~(k <= c)
        BY <1>1, <2>5, <3>1
      <4>2. \A i \in 1..Len(gone) : i < k => i <= c
        BY <2>5, <3>2
      <4>3. k - 1 <= c
        <5>1. CASE k = 1
          BY <2>5, <5>1
        <5>2. CASE k # 1
          <6>1. k - 1 \in 1..Len(gone) /\ k - 1 < k
            BY <1>1, <5>2
          <6> QED BY <4>2, <6>1
        <5> QED BY <5>1, <5>2
      <4> QED BY <1>1, <2>5, <4>1, <4>3
    <3>4. Below(gone, m, c + 1)
      <4>1. c + 1 \in 0..Len(gone)
        BY <3>3
      <4>2. ASSUME NEW i \in 1..Len(gone) PROVE gone[i] < m <=> i <= c + 1
        <5>1. gone[i] \in Nat /\ m \in Nat /\ c \in Nat /\ i \in Nat
          BY <1>1, <2>5
        <5>2. CASE i < k
          BY <3>2, <3>3, <5>1, <5>2
        <5>3. CASE i = k
          BY <3>1, <3>3, <5>1, <5>3
        <5>4. CASE k < i
          BY <3>2, <3>3, <5>1, <5>4
        <5> QED BY <3>3, <5>1, <5>2, <5>3, <5>4
      <4> QED BY <4>1, <4>2 DEF Below
    <3>5. Len(f[m]) = m - (c + 1)
      <4>1. f[m] = f[m - 1]
        BY <2>3, <2>4, <2>6
      <4> QED BY <2>1, <2>5, <4>1
    <3> QED BY <2>2, <3>4, <3>5
  <2>7. CASE m - 1 \notin ToSet(gone)
    <3>1. Below(gone, m, c)
      <4>1. ASSUME NEW i \in 1..Len(gone) PROVE gone[i] < m <=> gone[i] < m - 1
        <5>1. gone[i] # m - 1 /\ gone[i] \in Nat
          BY <1>1, <1>2, <2>7 DEF ToSet
        <5> QED BY <5>1
      <4> QED BY <2>5, <4>1 DEF Below
    <3>2. Len(f[m]) = m - c
      <4>1. f[m] = Append(f[m - 1], found[m])
        BY <2>3, <2>4, <2>7
      <4>2. f[m - 1] \in Seq(Nat) /\ found[m] \in Nat
        BY <2>2, LenProperties DEF Lefts, Places
      <4>3. Len(f[m]) = Len(f[m - 1]) + 1
        BY <4>1, <4>2, OneMore
      <4> QED BY <2>1, <2>5, <4>3
    <3> QED BY <2>2, <3>1, <3>2
  <2> QED BY <2>6, <2>7
<1>5. 0..N \subseteq D
  <2> HIDE DEF D
  <2> QED BY <1>1, <1>3, <1>4, InductionTo
<1> QED BY <1>5

\* The first so many below, and no others: how many is one number.
LEMMA BelowOne ==
    ASSUME NEW g, Len(g) \in Nat, NEW o, NEW c, NEW d, Below(g, o, c), Below(g, o, d)
    PROVE  c = d
<1>1. c \in 0..Len(g) /\ d \in 0..Len(g) /\ \A k \in 1..Len(g) : k <= c <=> k <= d
  BY DEF Below
<1>2. CASE c < d
  <2>1. d \in 1..Len(g) /\ ~(d <= c)
    BY <1>1, <1>2
  <2> QED BY <1>1, <2>1
<1>3. CASE d < c
  <2>1. c \in 1..Len(g) /\ ~(c <= d)
    BY <1>1, <1>3
  <2> QED BY <1>1, <2>1
<1> QED BY <1>1, <1>2, <1>3

\* A unit that stays stands, in what is left, as much earlier as places
\* below its own are gone; and so many units are left.
LEMMA PlaceLeft ==
    ASSUME NEW found, NEW gone, Places(found, gone)
    PROVE  LET left == Without(found, Taken(found, gone))
           IN  /\ Len(left) + Len(gone) = Len(found)
               /\ \A o \in 0..Len(found) - 1, c \in Nat :
                     o \notin ToSet(gone) /\ Below(gone, o, c)
                       => o - c + 1 \in 1..Len(left) /\ left[o - c + 1] = found[o + 1]
<1> DEFINE T == Taken(found, gone)
           N == Len(found)
           left == Without(found, T)
<1>1. found \in Seq(Nat) /\ N \in Nat /\ Len(gone) \in Nat
  BY LenProperties DEF Places, Sorted
<1>2. PICK f : Lefts(f, found, T) /\ left = f[N]
  BY <1>1, LeftsMade
<1>3. \A m \in 0..N : \E c : Below(gone, m, c) /\ Len(f[m]) = m - c
  <2>1. Lefts(f, found, Taken(found, gone)) /\ Places(found, gone)
    BY <1>2
  <2>2. \A m \in 0..Len(found) : \E c : Below(gone, m, c) /\ Len(f[m]) = m - c
    BY <2>1, LeftsCount, SMT
  <2> QED BY <2>2
<1> HIDE DEF left
<1>4. Len(left) + Len(gone) = N
  <2>1. PICK c : Below(gone, N, c) /\ Len(f[N]) = N - c
    BY <1>1, <1>3
  <2>2. Below(gone, N, Len(gone))
    <3>1. \A k \in 1..Len(gone) : gone[k] < N /\ k <= Len(gone)
      BY LenProperties DEF Places, Sorted, ToSet
    <3> QED BY <1>1, <3>1 DEF Below
  <2>3. c = Len(gone)
    BY <1>1, <2>1, <2>2, BelowOne
  <2> QED BY <1>1, <1>2, <2>1, <2>3
<1>5. ASSUME NEW o \in 0..N - 1, NEW c \in Nat, o \notin ToSet(gone), Below(gone, o, c)
      PROVE  o - c + 1 \in 1..Len(left) /\ left[o - c + 1] = found[o + 1]
  <2>1. o \in 0..N /\ o + 1 \in 1..N /\ o + 1 \in 0..N /\ N \in o + 1..N /\ o + 1 - 1 = o
    BY <1>1
  <2>2. PICK d : Below(gone, o, d) /\ Len(f[o]) = o - d
    BY <1>3, <2>1
  <2>3. d = c
    BY <1>1, <1>5, <2>2, BelowOne
  <2>4. found[o + 1] \notin T
    BY <1>5, TakenAt
  <2>5. f[o + 1] = Append(f[o], found[o + 1])
    <3> HIDE DEF T
    <3>1. \A k \in 1..N : found[k] \notin T => f[k] = Append(f[k - 1], found[k])
      BY <1>2 DEF Lefts
    <3>2. f[o + 1] = Append(f[o + 1 - 1], found[o + 1])
      BY <2>1, <2>4, <3>1
    <3> QED BY <2>1, <3>2
  <2>6. f[o] \in Seq(Nat) /\ found[o + 1] \in Nat /\ Len(f[o]) \in Nat
    BY <1>1, <1>2, <2>1, LenProperties DEF Lefts
  <2>7. Len(f[o + 1]) = o - c + 1 /\ f[o + 1][o - c + 1] = found[o + 1]
    <3> DEFINE x == found[o + 1]
               p == f[o]
    <3>1. p \in Seq(Nat) /\ x \in Nat /\ Len(p) = o - c /\ f[o + 1] = Append(p, x)
      BY <2>2, <2>3, <2>5, <2>6
    <3> HIDE DEF x, p
    <3>2. Len(Append(p, x)) = Len(p) + 1 /\ Append(p, x)[Len(p) + 1] = x
      BY <3>1, OneMore
    <3>3. Len(f[o + 1]) = o - c + 1 /\ f[o + 1][o - c + 1] = x
      BY <3>1, <3>2
    <3> QED BY <3>3 DEF x
  <2>8. Len(f[o + 1]) <= Len(left) /\ \A i \in 1..Len(f[o + 1]) : left[i] = f[o + 1][i]
    <3> DEFINE a == o + 1
    <3> HIDE DEF T
    <3>1. Lefts(f, found, T) /\ a \in 0..Len(found) /\ Len(found) \in a..Len(found)
      BY <1>2, <2>1
    <3> HIDE DEF a
    <3>2. /\ Len(f[a]) <= Len(f[N])
          /\ \A i \in 1..Len(f[a]) : f[N][i] = f[a][i]
      BY <1>1, <3>1, LeftsGrow
    <3> QED BY <1>2, <3>2 DEF a
  <2>9. o - c + 1 \in 1..Len(f[o + 1]) /\ o - c + 1 \in 1..Len(left)
    <3>1. Len(left) \in Nat
      BY <1>1, <1>4, <1>2, WithoutType, LenProperties DEF left
    <3> QED BY <2>2, <2>3, <2>6, <2>7, <2>8, <3>1
  <2> QED BY <2>7, <2>8, <2>9
<1> QED BY <1>4, <1>5 DEF left

LEMMA IndexOfIs ==
    ASSUME NEW l \in Seq(Nat), IsInjective(l), NEW p \in 1..Len(l)
    PROVE  IndexOf(l, l[p]) = p - 1
<1>1. DOMAIN l = 1..Len(l)
  BY LenProperties
<1> DEFINE i == CHOOSE i \in DOMAIN l : l[i] = l[p]
<1>2. i \in DOMAIN l /\ l[i] = l[p]
  BY <1>1
<1>3. i = p
  BY <1>1, <1>2 DEF IsInjective
<1> QED BY <1>3 DEF IndexOf

\* The units before a place that stays are those before the search's end:
\* the k-th place gone lies before it just when as many units, counted on
\* what is left, do.
LEMMA BelowLeft ==
    ASSUME NEW g, Sorted(g), NEW o \in Nat, NEW c, Below(g, o, c), o \notin ToSet(g)
    PROVE  c <= o /\ \A k \in 0..Len(g) - 1 : g[k + 1] - k <= o - c <=> k + 1 <= c
<1>1. /\ Len(g) \in Nat /\ DOMAIN g = 1..Len(g)
      /\ \A k \in 1..Len(g) : g[k] \in Nat /\ g[k] # o
      /\ c \in 0..Len(g) /\ c \in Nat /\ \A k \in 1..Len(g) : g[k] < o <=> k <= c
  BY LenProperties DEF Sorted, Below, ToSet
<1>2. c <= o
  <2>1. CASE c = 0
    BY <1>1, <2>1
  <2>2. CASE c # 0
    <3>1. 1 \in 1..Len(g) /\ c \in 1..Len(g) /\ 1 <= c
      BY <1>1, <2>2
    <3>2. g[1] + (c - 1) <= g[c]
      BY <3>1, SortedGap
    <3>3. g[c] < o /\ g[1] \in Nat /\ g[c] \in Nat
      BY <1>1, <3>1
    <3> QED BY <1>1, <3>2, <3>3
  <2> QED BY <2>1, <2>2
<1>3. ASSUME NEW k \in 0..Len(g) - 1 PROVE g[k + 1] - k <= o - c <=> k + 1 <= c
  <2>1. k \in Nat /\ k + 1 \in 1..Len(g) /\ g[k + 1] \in Nat
    BY <1>1
  <2>2. CASE k + 1 <= c
    <3>1. c \in 1..Len(g)
      BY <1>1, <2>1, <2>2
    <3>2. g[k + 1] + (c - (k + 1)) <= g[c]
      BY <2>1, <2>2, <3>1, SortedGap
    <3>3. g[c] < o /\ g[c] \in Nat
      BY <1>1, <3>1
    <3> DEFINE x == g[k + 1]
               y == g[c]
    <3> HIDE DEF x, y
    <3>4. x + (c - (k + 1)) <= y /\ y < o /\ x \in Nat /\ y \in Nat
      BY <2>1, <3>2, <3>3 DEF x, y
    <3>5. x - k <= o - c
      BY <1>1, <2>1, <3>4
    <3> QED BY <2>2, <3>5 DEF x
  <2>3. CASE ~(k + 1 <= c)
    <3>1. c + 1 \in 1..Len(g) /\ c + 1 <= k + 1 /\ ~(c + 1 <= c)
      BY <1>1, <2>1, <2>3
    <3>2. g[c + 1] + (k + 1 - (c + 1)) <= g[k + 1]
      BY <2>1, <3>1, SortedGap
    <3>3. ~(g[c + 1] < o) /\ g[c + 1] # o /\ g[c + 1] \in Nat
      BY <1>1, <3>1
    <3> DEFINE x == g[k + 1]
               y == g[c + 1]
    <3> HIDE DEF x, y
    <3>4. y + (k + 1 - (c + 1)) <= x /\ o < y /\ x \in Nat /\ y \in Nat
      BY <2>1, <3>2, <3>3 DEF x, y
    <3>5. ~(x - k <= o - c)
      BY <1>1, <2>1, <3>4
    <3> QED BY <2>3, <3>5 DEF x
  <2> QED BY <2>2, <2>3
<1> QED BY <1>2, <1>3

\* The search by halving, of n places, as a function of the span searched.
SearchOf(s, g, now, n) ==
    s = [span \in (0..n) \X (0..n) |->
            LET lo  == span[1]
                hi  == span[2]
                mid == lo + (hi - lo) \div 2
            IN  IF lo >= hi THEN lo
                ELSE IF g[mid + 1] - mid <= now THEN s[<<mid + 1, hi>>]
                ELSE s[<<lo, mid>>]]

\* What it finds in each span.
Searches(s, g, now, n) ==
    \A lo \in 0..n, hi \in 0..n :
        s[<<lo, hi>>] = LET mid == lo + (hi - lo) \div 2
                        IN  IF lo >= hi THEN lo
                            ELSE IF g[mid + 1] - mid <= now THEN s[<<mid + 1, hi>>]
                            ELSE s[<<lo, mid>>]

Half(lo, hi) == lo + (hi - lo) \div 2
LEMMA Halves ==
    ASSUME NEW n \in Nat, NEW lo \in 0..n, NEW hi \in 0..n, lo < hi
    PROVE  /\ Half(lo, hi) \in Nat /\ lo <= Half(lo, hi) /\ Half(lo, hi) < hi
           /\ Half(lo, hi) \in 0..n - 1 /\ Half(lo, hi) \in 0..n /\ Half(lo, hi) + 1 \in 0..n
<1>1. lo \in Int /\ hi \in Int /\ n \in Int
  OBVIOUS
<1>2. \A d \in Int : 0 < d => d \div 2 \in Int /\ 0 <= d \div 2 /\ d \div 2 < d
  OBVIOUS
<1>3. hi - lo \in Int /\ 0 < hi - lo
  BY <1>1
<1> DEFINE h == (hi - lo) \div 2
<1>4. h \in Int /\ 0 <= h /\ h < hi - lo
  BY <1>2, <1>3
<1> HIDE DEF h
<1>5. /\ lo + h \in Nat /\ lo <= lo + h /\ lo + h < hi
      /\ lo + h \in 0..n - 1 /\ lo + h \in 0..n /\ lo + h + 1 \in 0..n
  BY <1>1, <1>4
<1> QED BY <1>5 DEF h, Half

\* There is such a search, and where the k-th place counts just when k <= c
\* it ends at c.
LEMMA SearchMade ==
    ASSUME NEW g, NEW now, NEW n \in Nat, NEW c \in 0..n,
           \A k \in 0..n - 1 : g[k + 1] - k <= now <=> k + 1 <= c
    PROVE  \E s : SearchOf(s, g, now, n)
<1> DEFINE Clip(lo, hi) == IF c < lo THEN lo ELSE IF hi < c THEN hi ELSE c
           At(lo, hi) == IF lo >= hi THEN lo ELSE Clip(lo, hi)
           s == [span \in (0..n) \X (0..n) |-> At(span[1], span[2])]
           Found(span) == LET lo  == span[1]
                              hi  == span[2]
                              mid == lo + (hi - lo) \div 2
                          IN  IF lo >= hi THEN lo
                              ELSE IF g[mid + 1] - mid <= now THEN s[<<mid + 1, hi>>]
                              ELSE s[<<lo, mid>>]
<1>1. \A lo \in 0..n, hi \in 0..n : s[<<lo, hi>>] = At(lo, hi)
  OBVIOUS
<1> HIDE DEF s
<1>2. ASSUME NEW lo \in 0..n, NEW hi \in 0..n PROVE At(lo, hi) = Found(<<lo, hi>>)
  <2> DEFINE mid == Half(lo, hi)
  <2>1. Found(<<lo, hi>>) = IF lo >= hi THEN lo
                            ELSE IF g[mid + 1] - mid <= now THEN s[<<mid + 1, hi>>]
                            ELSE s[<<lo, mid>>]
    BY DEF Half
  <2> HIDE DEF Found, mid
  <2>2. CASE lo >= hi
    BY <2>1, <2>2
  <2>3. CASE ~(lo >= hi)
    <3>1. lo \in Int /\ hi \in Int /\ c \in Int /\ lo < hi
      BY <2>3
    <3>2. /\ mid \in Nat /\ lo <= mid /\ mid < hi
          /\ mid \in 0..n - 1 /\ mid \in 0..n /\ mid + 1 \in 0..n
      BY <3>1, Halves DEF mid
    <3>3. g[mid + 1] - mid <= now <=> mid + 1 <= c
      BY <3>2
    <3>4. CASE mid + 1 <= c
      <4>1. Found(<<lo, hi>>) = At(mid + 1, hi)
        BY <1>1, <2>1, <2>3, <3>2, <3>3, <3>4
      <4>2. At(mid + 1, hi) = At(lo, hi)
        BY <3>1, <3>2, <3>4
      <4> QED BY <4>1, <4>2
    <3>5. CASE ~(mid + 1 <= c)
      <4>1. Found(<<lo, hi>>) = At(lo, mid)
        BY <1>1, <2>1, <2>3, <3>2, <3>3, <3>5
      <4>2. At(lo, mid) = At(lo, hi)
        BY <3>1, <3>2, <3>5
      <4> QED BY <4>1, <4>2
    <3> QED BY <3>4, <3>5
  <2> QED BY <2>2, <2>3
<1>3. \A span \in (0..n) \X (0..n) : At(span[1], span[2]) = Found(span)
  <2> SUFFICES ASSUME NEW lo \in 0..n, NEW hi \in 0..n
               PROVE  At(lo, hi) = Found(<<lo, hi>>)
    <3> HIDE DEF At, Found
    <3> QED OBVIOUS
  <2> QED BY <1>2
<1>4. s = [span \in (0..n) \X (0..n) |-> Found(span)]
  <2> HIDE DEF Found, At
  <2> QED BY <1>3 DEF s
<1> QED BY <1>4 DEF SearchOf

LEMMA SearchEnds ==
    ASSUME NEW g, NEW now, NEW n \in Nat, NEW c \in 0..n, NEW s, Searches(s, g, now, n),
           \A k \in 0..n - 1 : g[k + 1] - k <= now <=> k + 1 <= c
    PROVE  s[<<0, n>>] = c
<1> DEFINE D == {d \in 0..n : \A lo \in 0..n, hi \in 0..n :
                    lo <= c /\ c <= hi /\ hi - lo <= d => s[<<lo, hi>>] = c}
<1>1. ASSUME NEW lo \in 0..n, NEW hi \in 0..n
      PROVE  s[<<lo, hi>>] = IF lo >= hi THEN lo
                             ELSE IF g[Half(lo, hi) + 1] - Half(lo, hi) <= now
                             THEN s[<<Half(lo, hi) + 1, hi>>] ELSE s[<<lo, Half(lo, hi)>>]
  BY DEF Searches, Half
<1>2. 0 \in D
  <2> SUFFICES ASSUME NEW lo \in 0..n, NEW hi \in 0..n, lo <= c, c <= hi, hi - lo <= 0
               PROVE  s[<<lo, hi>>] = c
    OBVIOUS
  <2>1. lo >= hi /\ lo = c
    OBVIOUS
  <2> QED BY <1>1, <2>1
<1>3. ASSUME NEW d \in 1..n, d - 1 \in D PROVE d \in D
  <2> SUFFICES ASSUME NEW lo \in 0..n, NEW hi \in 0..n, lo <= c, c <= hi, hi - lo <= d
               PROVE  s[<<lo, hi>>] = c
    OBVIOUS
  <2>1. CASE lo >= hi
    <3>1. lo = c
      BY <2>1
    <3> QED BY <1>1, <2>1, <3>1
  <2>2. CASE ~(lo >= hi)
    <3> DEFINE mid == Half(lo, hi)
    <3>1. lo < hi /\ lo \in Int /\ hi \in Int /\ c \in Int
      BY <2>2
    <3>2. /\ mid \in Nat /\ lo <= mid /\ mid < hi
          /\ mid \in 0..n - 1 /\ mid \in 0..n /\ mid + 1 \in 0..n
      BY <3>1, Halves
    <3>3. s[<<lo, hi>>] = IF g[mid + 1] - mid <= now THEN s[<<mid + 1, hi>>]
                          ELSE s[<<lo, mid>>]
      BY <1>1, <2>2
    <3> HIDE DEF mid
    <3>4. g[mid + 1] - mid <= now <=> mid + 1 <= c
      BY <3>2
    <3>5. \A a \in 0..n, b \in 0..n :
              a <= c /\ c <= b /\ b - a <= d - 1 => s[<<a, b>>] = c
      BY <1>3
    <3>6. CASE mid + 1 <= c
      <4>1. mid + 1 <= c /\ c <= hi /\ hi - (mid + 1) <= d - 1
        BY <3>1, <3>2, <3>6
      <4>2. s[<<mid + 1, hi>>] = c
        BY <3>2, <3>5, <4>1
      <4> QED BY <3>3, <3>4, <3>6, <4>2
    <3>7. CASE ~(mid + 1 <= c)
      <4>1. lo <= c /\ c <= mid /\ mid - lo <= d - 1
        BY <3>1, <3>2, <3>7
      <4>2. s[<<lo, mid>>] = c
        BY <3>2, <3>5, <4>1
      <4> QED BY <3>3, <3>4, <3>7, <4>2
    <3> QED BY <3>6, <3>7
  <2> QED BY <2>1, <2>2
<1>4. 0..n \subseteq D
  <2> HIDE DEF D
  <2> QED BY <1>2, <1>3, InductionTo
<1>5. n \in D /\ 0 \in 0..n /\ n \in 0..n /\ 0 <= c /\ c <= n /\ n - 0 <= n
  <2>1. 0 \in 0..n /\ n \in 0..n /\ 0 <= c /\ c <= n /\ n - 0 <= n
    OBVIOUS
  <2> QED BY <1>4, <2>1
<1> QED BY <1>5

\* original(): the place of a unit that stays, from the one it has now.
LEMMA OriginalIs ==
    ASSUME NEW g, Sorted(g), NEW o \in Nat, NEW c, Below(g, o, c), o \notin ToSet(g)
    PROVE  Original(g, o - c) = o
<1> DEFINE n == Len(g)
           now == o - c
           search == CHOOSE s : SearchOf(s, g, now, n)
<1>1. n \in Nat /\ c \in 0..n
  BY LenProperties DEF Sorted, Below
<1>2. \A k \in 0..n - 1 : g[k + 1] - k <= now <=> k + 1 <= c
  BY BelowLeft
<1>3. Original(g, o - c) = now + search[<<0, n>>]
  BY DEF Original, SearchOf
<1> HIDE DEF n, now
<1>5. SearchOf(search, g, now, n)
  BY <1>1, <1>2, SearchMade
<1> HIDE DEF search
<1>6. Searches(search, g, now, n)
  BY <1>5 DEF Searches, SearchOf
<1>7. search[<<0, n>>] = c
  BY <1>1, <1>2, <1>6, SearchEnds
<1>8. o - c + c = o
  BY <1>1
<1> QED BY <1>3, <1>7, <1>8 DEF now

\* A list with one put in, after the first n.
LEMMA InsertAtIs ==
    ASSUME NEW g \in Seq(Nat), NEW n \in 0..Len(g), NEW x \in Nat
    PROVE  LET h == InsertAt(g, n + 1, x)
           IN  /\ h \in Seq(Nat) /\ Len(h) = Len(g) + 1
               /\ \A k \in 1..n : h[k] = g[k]
               /\ h[n + 1] = x
               /\ \A k \in n + 1..Len(g) : h[k + 1] = g[k]
<1> DEFINE a == SubSeq(g, 1, (n + 1) - 1)
           b == <<x>>
           d == SubSeq(g, n + 1, Len(g))
           N == Len(g)
<1>1. N \in Nat /\ n \in Nat /\ n <= N /\ \A k \in 1..N : g[k] \in Nat
  BY LenProperties
<1>2. (n + 1) - 1 = n
  BY <1>1
<1>3. /\ a \in Seq(Nat) /\ Len(a) = n /\ \A i \in 1..n : a[i] = g[i]
  <2>1. \A i \in 1..n : g[i] \in Nat
    BY <1>1
  <2>2. /\ SubSeq(g, 1, n) \in Seq(Nat)
        /\ Len(SubSeq(g, 1, n)) = IF 1 <= n THEN n - 1 + 1 ELSE 0
        /\ \A i \in 1..n - 1 + 1 : SubSeq(g, 1, n)[i] = g[1 + i - 1]
    BY <1>1, <2>1, SubSeqProperties
  <2>3. n - 1 + 1 = n /\ \A i \in 1..n : 1 + i - 1 = i
    BY <1>1
  <2>4. (IF 1 <= n THEN n ELSE 0) = n
    BY <1>1
  <2> QED BY <1>2, <2>2, <2>3, <2>4
<1>4. /\ d \in Seq(Nat) /\ Len(d) = N - n /\ \A i \in 1..N - n : d[i] = g[n + i]
  <2>1. \A i \in n + 1..N : g[i] \in Nat
    BY <1>1
  <2>2. /\ d \in Seq(Nat)
        /\ Len(d) = IF n + 1 <= N THEN N - (n + 1) + 1 ELSE 0
        /\ \A i \in 1..N - (n + 1) + 1 : d[i] = g[(n + 1) + i - 1]
    BY <1>1, <2>1, SubSeqProperties
  <2>3. N - (n + 1) + 1 = N - n /\ \A i \in 1..N - n : (n + 1) + i - 1 = n + i
    BY <1>1
  <2>4. (IF n + 1 <= N THEN N - n ELSE 0) = N - n
    BY <1>1
  <2> QED BY <2>2, <2>3, <2>4
<1>5. b \in Seq(Nat) /\ Len(b) = 1 /\ b[1] = x
  OBVIOUS
<1>6. InsertAt(g, n + 1, x) = a \o b \o d
  BY Zenon DEF InsertAt
<1> HIDE DEF a, b, d, N
<1> DEFINE ab == a \o b
<1>7. /\ ab \in Seq(Nat) /\ Len(ab) = n + 1
      /\ \A i \in 1..n + 1 : ab[i] = IF i <= n THEN a[i] ELSE b[i - n]
  <2>1. /\ ab \in Seq(Nat) /\ Len(ab) = Len(a) + Len(b)
        /\ \A i \in 1..Len(a) + Len(b) : ab[i] = IF i <= Len(a) THEN a[i] ELSE b[i - Len(a)]
    BY <1>3, <1>5, ConcatProperties
  <2>2. Len(a) = n /\ Len(b) = 1
    BY <1>3, <1>5
  <2> HIDE DEF ab
  <2> QED BY <2>1, <2>2
<1> HIDE DEF ab
<1> DEFINE h == ab \o d
<1>8. /\ h \in Seq(Nat) /\ Len(h) = n + 1 + (N - n)
      /\ \A i \in 1..n + 1 + (N - n) : h[i] = IF i <= n + 1 THEN ab[i] ELSE d[i - (n + 1)]
  <2>1. /\ h \in Seq(Nat) /\ Len(h) = Len(ab) + Len(d)
        /\ \A i \in 1..Len(ab) + Len(d) :
              h[i] = IF i <= Len(ab) THEN ab[i] ELSE d[i - Len(ab)]
    BY <1>4, <1>7, ConcatProperties
  <2>2. Len(ab) = n + 1 /\ Len(d) = N - n
    BY <1>4, <1>7
  <2> HIDE DEF h
  <2> QED BY <2>1, <2>2
<1> HIDE DEF h
<1>9. n + 1 + (N - n) = N + 1
  BY <1>1
<1>10. \A k \in 1..n : h[k] = g[k]
  <2> SUFFICES ASSUME NEW k \in 1..n PROVE h[k] = g[k]
    OBVIOUS
  <2>1. k \in 1..N + 1 /\ k <= n + 1 /\ k \in 1..n + 1 /\ k <= n
    BY <1>1
  <2> QED BY <1>3, <1>7, <1>8, <1>9, <2>1
<1>11. h[n + 1] = x
  <2>1. n + 1 \in 1..N + 1 /\ n + 1 <= n + 1 /\ n + 1 \in 1..n + 1 /\ ~(n + 1 <= n)
        /\ n + 1 - n = 1
    BY <1>1
  <2>2. h[n + 1] = ab[n + 1]
    BY <1>8, <1>9, <2>1
  <2>3. ab[n + 1] = b[n + 1 - n]
    BY <1>7, <2>1
  <2> QED BY <1>5, <2>1, <2>2, <2>3
<1>12. \A k \in n + 1..N : h[k + 1] = g[k]
  <2> SUFFICES ASSUME NEW k \in n + 1..N PROVE h[k + 1] = g[k]
    OBVIOUS
  <2>1. k + 1 \in 1..N + 1 /\ ~(k + 1 <= n + 1) /\ k + 1 - (n + 1) = k - n
        /\ k - n \in 1..N - n /\ n + (k - n) = k
    BY <1>1
  <2>2. h[k + 1] = d[k + 1 - (n + 1)]
    BY <1>8, <1>9, <2>1
  <2>3. d[k - n] = g[n + (k - n)]
    BY <1>4, <2>1
  <2> QED BY <2>1, <2>2, <2>3
<1>13. InsertAt(g, n + 1, x) = h
  BY <1>6 DEF h, ab
<1> QED BY <1>8, <1>9, <1>10, <1>11, <1>12, <1>13 DEF N

\* note_gone(): the places gone stay in order, and none is noted twice.
LEMMA Noted ==
    ASSUME NEW g, Sorted(g), NEW at \in Nat, at \notin ToSet(g)
    PROVE  Sorted(NoteGone(g, at)) /\ ToSet(NoteGone(g, at)) = ToSet(g) \cup {at}
<1> DEFINE N == Len(g)
           n == CHOOSE n \in 0..N : \A k \in DOMAIN g : g[k] < at <=> k <= n
           h == NoteGone(g, at)
<1>1. /\ g \in Seq(Nat) /\ N \in Nat /\ DOMAIN g = 1..N
      /\ \A k \in 1..N : g[k] \in Nat /\ g[k] # at
      /\ \A i, k \in 1..N : i < k => g[i] < g[k]
  BY LenProperties DEF Sorted, ToSet
<1>2. \E c \in 0..N : \A k \in DOMAIN g : g[k] < at <=> k <= c
  <2>1. PICK c : Below(g, at, c)
    BY BelowExists
  <2> QED BY <1>1, <2>1 DEF Below
<1>3. n \in 0..N /\ \A k \in 1..N : g[k] < at <=> k <= n
  <2>1. n \in 0..N /\ \A k \in DOMAIN g : g[k] < at <=> k <= n
    BY <1>2
  <2> QED BY <1>1, <2>1
<1>4. h = InsertAt(g, n + 1, at)
  BY DEF NoteGone
<1> HIDE DEF n, h
<1>5. /\ h \in Seq(Nat) /\ Len(h) = N + 1
      /\ \A k \in 1..n : h[k] = g[k]
      /\ h[n + 1] = at
      /\ \A k \in n + 1..N : h[k + 1] = g[k]
  <2>1. LET i == InsertAt(g, n + 1, at)
        IN  /\ i \in Seq(Nat) /\ Len(i) = Len(g) + 1
            /\ \A k \in 1..n : i[k] = g[k]
            /\ i[n + 1] = at
            /\ \A k \in n + 1..Len(g) : i[k + 1] = g[k]
    BY <1>1, <1>3, InsertAtIs, Zenon
  <2> QED BY <1>4, <2>1
<1>6. DOMAIN h = 1..N + 1
  BY <1>1, <1>5, LenProperties
<1> HIDE DEF N
<1>7. \A k \in 1..N + 1 :
          /\ k \in 1..n => k \in 1..N /\ h[k] = g[k] /\ g[k] < at
          /\ k = n + 1 => h[k] = at
          /\ k \in n + 2..N + 1 => k - 1 \in 1..N /\ h[k] = g[k - 1] /\ at < g[k - 1]
          /\ k \in 1..n \/ k = n + 1 \/ k \in n + 2..N + 1
  <2> SUFFICES ASSUME NEW k \in 1..N + 1
               PROVE  /\ k \in 1..n => k \in 1..N /\ h[k] = g[k] /\ g[k] < at
                      /\ k = n + 1 => h[k] = at
                      /\ k \in n + 2..N + 1
                            => k - 1 \in 1..N /\ h[k] = g[k - 1] /\ at < g[k - 1]
                      /\ k \in 1..n \/ k = n + 1 \/ k \in n + 2..N + 1
    OBVIOUS
  <2>1. k \in 1..n => k \in 1..N /\ h[k] = g[k] /\ g[k] < at
    BY <1>1, <1>3, <1>5
  <2>2. ASSUME k \in n + 2..N + 1 PROVE k - 1 \in 1..N /\ h[k] = g[k - 1] /\ at < g[k - 1]
    <3>1. k - 1 \in n + 1..N /\ k - 1 + 1 = k /\ k - 1 \in 1..N /\ ~(k - 1 <= n)
      BY <1>1, <1>3, <2>2
    <3>2. h[k] = g[k - 1]
      BY <1>5, <3>1
    <3>3. ~(g[k - 1] < at) /\ g[k - 1] # at /\ g[k - 1] \in Nat
      BY <1>1, <1>3, <3>1
    <3> QED BY <3>1, <3>2, <3>3
  <2>3. k \in 1..n \/ k = n + 1 \/ k \in n + 2..N + 1
    BY <1>1, <1>3
  <2> QED BY <1>5, <2>1, <2>2, <2>3
<1>8. \A i, k \in 1..N + 1 : i < k => h[i] < h[k]
  <2> SUFFICES ASSUME NEW i \in 1..N + 1, NEW k \in 1..N + 1, i < k PROVE h[i] < h[k]
    OBVIOUS
  <2>1. CASE k \in 1..n
    <3>1. i \in 1..n
      BY <1>1, <1>3, <2>1
    <3> QED BY <1>1, <1>7, <2>1, <3>1
  <2>2. CASE k = n + 1
    <3>1. i \in 1..n
      BY <1>1, <1>3, <2>2
    <3> QED BY <1>7, <2>2, <3>1
  <2>3. CASE k \in n + 2..N + 1
    <3>0. k - 1 \in 1..N /\ h[k] = g[k - 1] /\ at < g[k - 1] /\ g[k - 1] \in Nat
      BY <1>1, <1>7, <2>3
    <3>1. CASE i \in 1..n
      <4>1. i \in 1..N /\ h[i] = g[i] /\ g[i] < at /\ g[i] \in Nat
        BY <1>1, <1>7, <3>1
      <4> QED BY <3>0, <4>1
    <3>2. CASE i = n + 1
      BY <1>7, <3>0, <3>2
    <3>3. CASE i \in n + 2..N + 1
      <4>1. i - 1 \in 1..N /\ h[i] = g[i - 1] /\ i - 1 < k - 1
        BY <1>1, <1>3, <1>7, <3>3
      <4>2. g[i - 1] < g[k - 1]
        BY <1>1, <3>0, <4>1
      <4> QED BY <3>0, <4>1, <4>2
    <3> QED BY <1>7, <3>1, <3>2, <3>3
  <2> QED BY <1>7, <2>1, <2>2, <2>3
<1>9. ToSet(h) = ToSet(g) \cup {at}
  <2>1. \A k \in DOMAIN h : h[k] = at \/ \E i \in DOMAIN g : h[k] = g[i]
    <3> SUFFICES ASSUME NEW k \in 1..N + 1
                 PROVE  h[k] = at \/ \E i \in 1..N : h[k] = g[i]
      BY <1>1, <1>6
    <3>1. CASE k \in 1..n
      BY <1>7, <3>1
    <3>2. CASE k = n + 1
      BY <1>7, <3>2
    <3>3. CASE k \in n + 2..N + 1
      BY <1>7, <3>3
    <3> QED BY <1>7, <3>1, <3>2, <3>3
  <2>2. n + 1 \in DOMAIN h /\ h[n + 1] = at
    BY <1>1, <1>3, <1>5, <1>6
  <2>3. ASSUME NEW i \in DOMAIN g PROVE \E k \in DOMAIN h : h[k] = g[i]
    <3>1. CASE i \in 1..n
      <4>1. i \in DOMAIN h
        BY <1>1, <1>3, <1>6, <3>1
      <4> QED BY <1>5, <3>1, <4>1
    <3>2. CASE i \in n + 1..N
      <4>1. i + 1 \in DOMAIN h
        BY <1>1, <1>3, <1>6, <3>2
      <4> QED BY <1>5, <3>2, <4>1
    <3>3. i \in 1..n \/ i \in n + 1..N
      BY <1>1, <1>3
    <3> QED BY <3>1, <3>2, <3>3
  <2>4. \A x \in ToSet(h) : x \in ToSet(g) \cup {at}
    BY <2>1 DEF ToSet
  <2>5. at \in ToSet(h)
    BY <2>2 DEF ToSet
  <2>6. \A x \in ToSet(g) : x \in ToSet(h)
    BY <2>3 DEF ToSet
  <2> QED BY <2>4, <2>5, <2>6
<1>10. Sorted(h)
  BY <1>1, <1>5, <1>8 DEF Sorted
<1> QED BY <1>9, <1>10 DEF h

-----------------------------------------------------------------------------
(* What an open journal knows.                                             *)

\* The units it heard of: where each that was there stood.
Among(touched, id) == \E t \in touched : t.id = id

Heard(found, touched, n) ==
    /\ touched \subseteq [id : 1..n - 1, at : Nat, was : BOOLEAN]
    /\ \A t, u \in touched : t.id = u.id => t = u
    /\ \A t \in touched : t.was => t.at < Len(found) /\ found[t.at + 1] = t.id
    /\ \A t \in touched : ~t.was => t.id \notin ToSet(found)

\* The units laid since, after those of the list found that stay.
Laid(found, touched, gone, l, fresh) ==
    /\ fresh \in Seq(Nat) /\ IsInjective(fresh)
    /\ \A x \in ToSet(fresh) : x \notin ToSet(found) /\ Among(touched, x)
    /\ l = Without(found, Taken(found, gone)) \o fresh

\* The list l, of ids below n, is the list found without the units at the
\* places gone, all heard of, and with units laid at the end, all heard of.
Knows(found, touched, gone, l, n) ==
    /\ n \in Nat \ {0}
    /\ Places(found, gone) /\ ToSet(found) \subseteq 1..n - 1
    /\ Heard(found, touched, n)
    /\ \A x \in Taken(found, gone) : Among(touched, x)
    /\ \E fresh : Laid(found, touched, gone, l, fresh)

LEMMA KnowsList ==
    ASSUME NEW found, NEW touched, NEW gone, NEW l, NEW n,
           Knows(found, touched, gone, l, n)
    PROVE  /\ l \in Seq(Nat) /\ IsInjective(l) /\ ToSet(l) \subseteq 1..n - 1
           /\ \A x \in ToSet(l) : ~Among(touched, x) =>
                 x \in ToSet(found) /\ x \notin Taken(found, gone)
           /\ \A x \in ToSet(found) : x \in ToSet(l) <=> x \notin Taken(found, gone)
<1> DEFINE T == Taken(found, gone)
           left == Without(found, T)
<1>1. PICK fresh : Laid(found, touched, gone, l, fresh)
  BY DEF Knows
<1>2. found \in Seq(Nat) /\ IsInjective(found)
  BY DEF Knows, Places
<1>3. left \in Seq(Nat) /\ ToSet(left) = ToSet(found) \ T /\ IsInjective(left)
  BY <1>2, WithoutType
<1>4. /\ fresh \in Seq(Nat) /\ IsInjective(fresh)
      /\ \A x \in ToSet(fresh) : x \notin ToSet(found) /\ Among(touched, x)
      /\ l = left \o fresh
  BY <1>1 DEF Laid
<1> HIDE DEF left
<1>5. /\ l \in Seq(Nat) /\ ToSet(l) = ToSet(left) \cup ToSet(fresh)
      /\ IsInjective(l)
  <2>1. ToSet(left) \cap ToSet(fresh) = {}
    BY <1>3, <1>4
  <2> QED BY <1>3, <1>4, <2>1, Joined
<1>6. \A x : Among(touched, x) => x \in 1..n - 1
  BY DEF Knows, Heard, Among
<1>7. ToSet(found) \subseteq 1..n - 1
  BY DEF Knows
<1>8. ToSet(l) \subseteq 1..n - 1
  BY <1>3, <1>4, <1>5, <1>6, <1>7
<1> QED BY <1>3, <1>4, <1>5, <1>8

\* An index the unit has now leads back to the place it had.
LEMMA KnowsPlace ==
    ASSUME NEW found, NEW touched, NEW gone, NEW l, NEW n,
           Knows(found, touched, gone, l, n),
           NEW id \in ToSet(l), ~Among(touched, id)
    PROVE  LET at == Original(gone, IndexOf(l, id))
           IN  at \in Nat /\ at < Len(found) /\ found[at + 1] = id
<1> DEFINE T == Taken(found, gone)
           left == Without(found, T)
<1>1. PICK fresh : Laid(found, touched, gone, l, fresh)
  BY DEF Knows
<1>2. /\ found \in Seq(Nat) /\ IsInjective(found) /\ Places(found, gone)
      /\ Sorted(gone) /\ Len(found) \in Nat /\ DOMAIN found = 1..Len(found)
  BY LenProperties DEF Knows, Places
<1>3. id \in ToSet(found) /\ id \notin T
  BY KnowsList
<1>4. PICK o \in 0..Len(found) - 1 : found[o + 1] = id
  <2>1. PICK i \in 1..Len(found) : found[i] = id
    BY <1>2, <1>3 DEF ToSet
  <2>2. i - 1 \in 0..Len(found) - 1 /\ (i - 1) + 1 = i
    BY <1>2
  <2> QED BY <2>1, <2>2
<1>5. o \in Nat /\ o < Len(found)
  BY <1>2
<1>6. o \notin ToSet(gone)
  BY <1>2, <1>3, <1>4, TakenAt
<1>7. PICK c : Below(gone, o, c)
  BY <1>2, <1>5, BelowExists
<1>8. c \in Nat
  <2>1. Len(gone) \in Nat
    BY <1>2, LenProperties DEF Sorted
  <2> QED BY <1>7, <2>1 DEF Below
<1>9. o - c + 1 \in 1..Len(left) /\ left[o - c + 1] = id
  BY <1>2, <1>4, <1>6, <1>7, <1>8, PlaceLeft
<1>10. left \in Seq(Nat) /\ fresh \in Seq(Nat) /\ l = left \o fresh
  BY <1>1, <1>2, WithoutType DEF Laid
<1> HIDE DEF left
<1> DEFINE p == o - c + 1
<1>11. p \in 1..Len(l) /\ l[p] = id /\ p - 1 = o - c
  <2>1. /\ Len(l) = Len(left) + Len(fresh)
        /\ \A i \in 1..Len(left) : l[i] = left[i]
    BY <1>10, Joined
  <2>2. Len(left) \in Nat /\ Len(fresh) \in Nat
    BY <1>10, LenProperties
  <2>3. p - 1 = o - c
    BY <1>5, <1>8
  <2> HIDE DEF p
  <2>4. p \in 1..Len(left) /\ left[p] = id
    BY <1>9 DEF p
  <2> QED BY <2>1, <2>2, <2>3, <2>4
<1>12. IndexOf(l, id) = o - c
  <2>1. l \in Seq(Nat) /\ IsInjective(l)
    BY KnowsList
  <2> HIDE DEF p
  <2>2. IndexOf(l, l[p]) = p - 1
    BY <1>11, <2>1, IndexOfIs
  <2> QED BY <1>11, <2>2
<1>13. Original(gone, o - c) = o
  BY <1>2, <1>5, <1>6, <1>7, OriginalIs
<1> QED BY <1>4, <1>5, <1>12, <1>13

\* What it keeps of a unit that was there, and of one that is new.
Old(id, at) == [id |-> id, at |-> at, was |-> TRUE]
New(id)     == [id |-> id, at |-> 0, was |-> FALSE]

SeeOld(j, id, at) == See(j, id, at, TRUE)
SeeNew(j, id)     == See(j, id, 0, FALSE)

\* It hears of a unit that was there, ...
LEMMA KnowsOld ==
    ASSUME NEW found, NEW touched, NEW gone, NEW l, NEW n,
           Knows(found, touched, gone, l, n),
           NEW id, ~Among(touched, id),
           NEW at \in Nat, at < Len(found), found[at + 1] = id
    PROVE  Knows(found, touched \cup {Old(id, at)}, gone, l, n)
<1> DEFINE t1 == Old(id, at)
           more == touched \cup {t1}
<1>1. id \in 1..n - 1
  <2>1. Len(found) \in Nat /\ DOMAIN found = 1..Len(found)
    BY LenProperties DEF Knows, Places
  <2>2. at + 1 \in DOMAIN found
    BY <2>1
  <2>3. id \in ToSet(found)
    BY <2>2 DEF ToSet
  <2> QED BY <2>3 DEF Knows
<1>2. t1 \in [id : 1..n - 1, at : Nat, was : BOOLEAN] /\ t1.id = id /\ t1.at = at /\ t1.was
  BY <1>1 DEF Old
<1> HIDE DEF t1
<1>3. Heard(found, more, n)
  <2>1. Heard(found, touched, n) /\ \A t \in touched : t.id # id
    BY DEF Knows, Among
  <2> QED BY <1>2, <2>1 DEF Heard
<1>4. \A x : Among(touched, x) => Among(more, x)
  BY DEF Among
<1>5. PICK fresh : Laid(found, touched, gone, l, fresh)
  BY DEF Knows
<1>6. Laid(found, more, gone, l, fresh)
  BY <1>4, <1>5 DEF Laid
<1> HIDE DEF more
<1>7. Knows(found, more, gone, l, n)
  BY <1>3, <1>4, <1>6 DEF Knows
<1> QED BY <1>7 DEF more, t1

\* ... and of one that is new.
LEMMA KnowsNew ==
    ASSUME NEW found, NEW touched, NEW gone, NEW l, NEW n,
           Knows(found, touched, gone, l, n)
    PROVE  /\ ~Among(touched, n) /\ n \notin ToSet(found) /\ n \notin ToSet(l)
           /\ Knows(found, touched \cup {New(n)}, gone, l, n + 1)
<1> DEFINE t1 == New(n)
           more == touched \cup {t1}
<1>1. n \in Nat /\ n \notin 1..n - 1 /\ 1..n - 1 \subseteq 1..(n + 1) - 1
  BY DEF Knows
<1>2. ~Among(touched, n) /\ n \notin ToSet(found) /\ n \notin ToSet(l)
  <2>1. ToSet(l) \subseteq 1..n - 1
    BY KnowsList
  <2> QED BY <1>1, <2>1 DEF Knows, Among, Heard
<1>3. t1 \in [id : 1..(n + 1) - 1, at : Nat, was : BOOLEAN] /\ t1.id = n /\ ~t1.was
  <2>1. n \in 1..(n + 1) - 1
    BY DEF Knows
  <2> QED BY <2>1 DEF New
<1> HIDE DEF t1
<1>4. Heard(found, more, n + 1)
  <2>1. Heard(found, touched, n) /\ \A t \in touched : t.id # n
    BY <1>2 DEF Knows, Among
  <2>2. touched \subseteq [id : 1..(n + 1) - 1, at : Nat, was : BOOLEAN]
    BY <1>1, <2>1 DEF Heard
  <2> QED BY <1>2, <1>3, <2>1, <2>2 DEF Heard
<1>5. \A x : Among(touched, x) => Among(more, x)
  BY DEF Among
<1>6. PICK fresh : Laid(found, touched, gone, l, fresh)
  BY DEF Knows
<1>7. Laid(found, more, gone, l, fresh)
  BY <1>5, <1>6 DEF Laid
<1>8. n + 1 \in Nat /\ ToSet(found) \subseteq 1..(n + 1) - 1
  BY <1>1 DEF Knows
<1> HIDE DEF more
<1>9. Knows(found, more, gone, l, n + 1)
  BY <1>4, <1>5, <1>7, <1>8 DEF Knows
<1> QED BY <1>2, <1>9 DEF more, t1

\* A unit that is new goes to the end of the list.
LEMMA KnowsAppend ==
    ASSUME NEW found, NEW touched, NEW gone, NEW l, NEW n,
           Knows(found, touched, gone, l, n),
           NEW t \in touched, ~t.was, t.id \notin ToSet(l)
    PROVE  Knows(found, touched, gone, Append(l, t.id), n)
<1> DEFINE left == Without(found, Taken(found, gone))
           id == t.id
<1>1. PICK fresh : Laid(found, touched, gone, l, fresh)
  BY DEF Knows
<1>2. id \in Nat /\ id \notin ToSet(found) /\ Among(touched, id)
  BY DEF Knows, Heard, Among
<1>3. left \in Seq(Nat) /\ fresh \in Seq(Nat) /\ l = left \o fresh
  BY <1>1, WithoutType DEF Laid, Knows, Places
<1>4. id \notin ToSet(fresh)
  <2> HIDE DEF left
  <2>1. ToSet(l) = ToSet(left) \cup ToSet(fresh)
    BY <1>3, Joined
  <2> QED BY <2>1
<1> HIDE DEF id
<1>5. Append(l, id) = left \o Append(fresh, id)
  <2> HIDE DEF left
  <2>1. left \o Append(fresh, id) = Append(left \o fresh, id)
    BY <1>2, <1>3, Joined
  <2> QED BY <1>3, <2>1
<1>6. /\ Append(fresh, id) \in Seq(Nat) /\ IsInjective(Append(fresh, id))
      /\ ToSet(Append(fresh, id)) = ToSet(fresh) \cup {id}
  BY <1>1, <1>2, <1>3, <1>4, OneMore DEF Laid
<1>7. Laid(found, touched, gone, Append(l, id), Append(fresh, id))
  BY <1>1, <1>2, <1>5, <1>6 DEF Laid
<1>8. Knows(found, touched, gone, Append(l, id), n)
  BY <1>7 DEF Knows
<1> QED BY <1>8 DEF id

\* A unit laid in the gesture leaves, ...
LEMMA KnowsLost ==
    ASSUME NEW found, NEW touched, NEW gone, NEW l, NEW n,
           Knows(found, touched, gone, l, n),
           NEW id, id \notin ToSet(found)
    PROVE  Knows(found, touched, gone, Without(l, {id}), n)
<1> DEFINE T == Taken(found, gone)
           left == Without(found, T)
           S == {id}
<1>1. PICK fresh : Laid(found, touched, gone, l, fresh)
  BY DEF Knows
<1> DEFINE less == Without(fresh, S)
<1>2. left \in Seq(Nat) /\ fresh \in Seq(Nat) /\ l = left \o fresh
      /\ ToSet(left) = ToSet(found) \ T
  BY <1>1, WithoutType DEF Laid, Knows, Places
<1> HIDE DEF left
<1>3. ToSet(left) \cap S = {}
  BY <1>2
<1> HIDE DEF S
<1>4. Without(l, S) = left \o less
  <2>1. Without(left \o fresh, S) = Without(left, S) \o Without(fresh, S)
    BY <1>2, WithoutJoined
  <2>2. Without(left, S) = left
    BY <1>2, <1>3, WithoutNone
  <2> QED BY <1>2, <2>1, <2>2
<1>5. less \in Seq(Nat) /\ ToSet(less) = ToSet(fresh) \ S /\ IsInjective(less)
  BY <1>1, <1>2, WithoutType DEF Laid
<1> HIDE DEF less
<1>6. Laid(found, touched, gone, Without(l, S), less)
  BY <1>1, <1>4, <1>5 DEF Laid, left
<1>7. Knows(found, touched, gone, Without(l, S), n)
  BY <1>6 DEF Knows
<1> QED BY <1>7 DEF S

\* ... and one that was there.
LEMMA KnowsGone ==
    ASSUME NEW found, NEW touched, NEW gone, NEW l, NEW n,
           Knows(found, touched, gone, l, n),
           NEW t \in touched, t.was, t.id \in ToSet(l)
    PROVE  Knows(found, touched, NoteGone(gone, t.at), Without(l, {t.id}), n)
<1> DEFINE id == t.id
           at == t.at
           g == NoteGone(gone, at)
           T == Taken(found, gone)
           U == Taken(found, g)
           S == {id}
           left == Without(found, T)
<1>1. PICK fresh : Laid(found, touched, gone, l, fresh)
  BY DEF Knows
<1>2. id \in Nat /\ at \in Nat /\ at < Len(found) /\ found[at + 1] = id /\ Among(touched, id)
  BY DEF Knows, Heard, Among
<1>3. Places(found, gone) /\ found \in Seq(Nat) /\ IsInjective(found) /\ Sorted(gone)
      /\ Len(found) \in Nat /\ DOMAIN found = 1..Len(found)
  BY LenProperties DEF Knows, Places
<1>4. at \in 0..Len(found) - 1 /\ at + 1 \in DOMAIN found
  BY <1>2, <1>3
<1>5. id \in ToSet(found)
  BY <1>2, <1>4 DEF ToSet
<1>6. id \notin T
  BY <1>5, KnowsList
<1>7. at \notin ToSet(gone)
  BY <1>2, <1>3, <1>4, <1>6, TakenAt
<1> HIDE DEF id, at
<1>8. Sorted(g) /\ ToSet(g) = ToSet(gone) \cup {at}
  BY <1>2, <1>3, <1>7, Noted
<1> HIDE DEF g
<1>9. Places(found, g)
  BY <1>2, <1>3, <1>8 DEF Places
<1>10. U = T \cup S
  BY <1>2, <1>8 DEF Taken
<1>11. /\ left \in Seq(Nat) /\ fresh \in Seq(Nat) /\ l = left \o fresh
       /\ id \notin ToSet(fresh)
  BY <1>1, <1>3, <1>5, WithoutType DEF Laid
<1>12. Without(l, S) = Without(found, U) \o fresh
  <2> HIDE DEF T, S, U
  <2>1. Without(left, S) = Without(found, U)
    BY <1>3, <1>10, WithoutTwice
  <2> HIDE DEF left
  <2>2. Without(left \o fresh, S) = Without(left, S) \o Without(fresh, S)
    BY <1>11, WithoutJoined
  <2>3. ToSet(fresh) \cap S = {}
    BY <1>11 DEF S
  <2>4. Without(fresh, S) = fresh
    BY <1>11, <2>3, WithoutNone
  <2> QED BY <1>11, <2>1, <2>2, <2>4
<1>13. Laid(found, touched, g, Without(l, S), fresh)
  BY <1>1, <1>12 DEF Laid
<1>14. \A x \in U : Among(touched, x)
  BY <1>2, <1>10 DEF Knows
<1> HIDE DEF S
<1>15. Knows(found, touched, g, Without(l, S), n)
  BY <1>9, <1>13, <1>14 DEF Knows
<1> QED BY <1>15 DEF S, g, id, at

-----------------------------------------------------------------------------
(* What the journal's operations keep.                                     *)

\* An open journal.
Book(touched, gone, slots, found) ==
    [open |-> TRUE, touched |-> touched, gone |-> gone, slots |-> slots, found |-> found]

\* The journal j of a gesture that found the list `found`, when the list is
\* l and the next id n, with no slot to settle.
JournalKnows(j, found, l, n) ==
    /\ j = Book(j.touched, j.gone, <<>>, found)
    /\ Knows(found, j.touched, j.gone, l, n)

LEMMA BookOld ==
    ASSUME NEW touched, NEW gone, NEW slots, NEW found, NEW id, NEW at
    PROVE  SeeOld(Book(touched, gone, slots, found), id, at)
              = Book(touched \cup {Old(id, at)}, gone, slots, found)
<1> DEFINE j == Book(touched, gone, slots, found)
           r == SeeOld(j, id, at)
           more == touched \cup {Old(id, at)}
<1>1. j.touched = touched
  BY DEF Book
<1>2. r = [j EXCEPT !.touched = more]
  BY <1>1, Zenon DEF SeeOld, See, Old
<1>3. j = Book(touched, gone, slots, found)
  OBVIOUS
<1> HIDE DEF r, j, more
<1>4. r = Book(more, gone, slots, found)
  BY <1>2, <1>3 DEF Book
<1> QED BY <1>4 DEF r, j, more

LEMMA BookNew ==
    ASSUME NEW touched, NEW gone, NEW slots, NEW found, NEW id
    PROVE  SeeNew(Book(touched, gone, slots, found), id)
              = Book(touched \cup {New(id)}, gone, slots, found)
<1> DEFINE j == Book(touched, gone, slots, found)
           r == SeeNew(j, id)
           more == touched \cup {New(id)}
<1>1. j.touched = touched
  BY DEF Book
<1>2. r = [j EXCEPT !.touched = more]
  BY <1>1, Zenon DEF SeeNew, See, New
<1>3. j = Book(touched, gone, slots, found)
  OBVIOUS
<1> HIDE DEF r, j, more
<1>4. r = Book(more, gone, slots, found)
  BY <1>2, <1>3 DEF Book
<1> QED BY <1>4 DEF r, j, more

LEMMA BookKnows ==
    ASSUME NEW touched, NEW gone, NEW found, NEW l, NEW n,
           Knows(found, touched, gone, l, n)
    PROVE  JournalKnows(Book(touched, gone, <<>>, found), found, l, n)
BY DEF JournalKnows, Book

\* The unit a journal has heard of.
LEMMA TouchIs ==
    ASSUME NEW j, NEW id, Seen(j, id)
    PROVE  Touch(j, id) \in j.touched /\ Touch(j, id).id = id
BY DEF Seen, Touch

\* A unit is laid.
LEMMA UnitInKnows ==
    ASSUME NEW j, NEW found, NEW l, NEW n, JournalKnows(j, found, l, n)
    PROVE  JournalKnows(UnitIn(j, n), found, Append(l, n), n + 1)
<1> DEFINE touched == j.touched
           gone == j.gone
           t1 == New(n)
           more == touched \cup {t1}
<1>1. j = Book(touched, gone, <<>>, found) /\ Knows(found, touched, gone, l, n)
  BY DEF JournalKnows
<1>2. ~Seen(j, n)
  BY <1>1, KnowsNew DEF Seen, Among
<1>3. UnitIn(j, n) = SeeNew(j, n)
  BY <1>2 DEF UnitIn, SeeNew
<1> HIDE DEF touched, gone
<1>4. UnitIn(j, n) = Book(more, gone, <<>>, found)
  <2>1. SeeNew(Book(touched, gone, <<>>, found), n) = Book(more, gone, <<>>, found)
    BY BookNew
  <2> QED BY <1>1, <1>3, <2>1
<1>5. Knows(found, more, gone, l, n + 1) /\ n \notin ToSet(l)
  BY <1>1, KnowsNew
<1>6. t1 \in more /\ ~t1.was /\ t1.id = n
  BY DEF New
<1> HIDE DEF more, t1
<1>7. Knows(found, more, gone, Append(l, n), n + 1)
  <2>1. t1.id \notin ToSet(l)
    BY <1>5, <1>6
  <2>2. Knows(found, more, gone, Append(l, t1.id), n + 1)
    BY <1>5, <1>6, <2>1, KnowsAppend
  <2> QED BY <1>6, <2>2
<1> QED BY <1>4, <1>7, BookKnows

\* A unit is written where it stands.
LEMMA UnitEditKnows ==
    ASSUME NEW j, NEW found, NEW l, NEW n, JournalKnows(j, found, l, n),
           NEW id \in ToSet(l)
    PROVE  JournalKnows(UnitEdit(j, l, id), found, l, n)
<1> DEFINE touched == j.touched
           gone == j.gone
           at == Original(gone, IndexOf(l, id))
           more == touched \cup {Old(id, at)}
<1>1. j = Book(touched, gone, <<>>, found) /\ Knows(found, touched, gone, l, n)
  BY DEF JournalKnows
<1>2. CASE Seen(j, id)
  BY <1>2 DEF UnitEdit
<1>3. CASE ~Seen(j, id)
  <2>1. ~Among(touched, id)
    BY <1>3 DEF Seen, Among
  <2>2. UnitEdit(j, l, id) = SeeOld(j, id, at)
    BY <1>3 DEF UnitEdit, SeeOld
  <2> HIDE DEF touched, gone
  <2>3. at \in Nat /\ at < Len(found) /\ found[at + 1] = id
    BY <1>1, <2>1, KnowsPlace
  <2> HIDE DEF at
  <2>4. UnitEdit(j, l, id) = Book(more, gone, <<>>, found)
    <3>1. SeeOld(Book(touched, gone, <<>>, found), id, at)
             = Book(more, gone, <<>>, found)
      BY BookOld
    <3> QED BY <1>1, <2>2, <3>1
  <2>5. Knows(found, more, gone, l, n)
    BY <1>1, <2>1, <2>3, KnowsOld
  <2> HIDE DEF more
  <2> QED BY <2>4, <2>5, BookKnows
<1> QED BY <1>2, <1>3

\* A unit leaves the list m, where it has the index it has in l.
LEMMA UnitOutKnows ==
    ASSUME NEW j, NEW found, NEW m, NEW n, JournalKnows(j, found, m, n),
           NEW l, NEW id \in ToSet(m), IndexOf(l, id) = IndexOf(m, id)
    PROVE  JournalKnows(UnitOut(j, l, id), found, Without(m, {id}), n)
<1> DEFINE touched == j.touched
           gone == j.gone
           at == Original(gone, IndexOf(l, id))
           t0 == Touch(j, id)
           t1 == Old(id, at)
           more == touched \cup {t1}
           out == UnitOut(j, l, id)
           less == Without(m, {id})
<1>1. j = Book(touched, gone, <<>>, found) /\ Knows(found, touched, gone, m, n)
  BY DEF JournalKnows
<1>2. CASE Seen(j, id)
  <2>1. t0 \in touched /\ t0.id = id
    BY <1>2, TouchIs
  <2>2. CASE t0.was
    <3>1. out = [j EXCEPT !.gone = NoteGone(gone, t0.at)]
      BY <1>2, <2>2 DEF UnitOut
    <3> HIDE DEF touched, gone, out, t0
    <3>2. out = Book(touched, NoteGone(gone, t0.at), <<>>, found)
      BY <1>1, <3>1 DEF Book
    <3>3. Knows(found, touched, NoteGone(gone, t0.at), Without(m, {t0.id}), n)
      BY <1>1, <2>1, <2>2, KnowsGone
    <3>4. Knows(found, touched, NoteGone(gone, t0.at), less, n)
      BY <2>1, <3>3
    <3> HIDE DEF less
    <3>5. JournalKnows(out, found, less, n)
      BY <3>2, <3>4, BookKnows
    <3> QED BY <3>5 DEF out, less
  <2>3. CASE ~t0.was
    <3>1. out = j
      BY <1>2, <2>3 DEF UnitOut
    <3> HIDE DEF touched, gone, out, t0
    <3>2. id \notin ToSet(found)
      BY <1>1, <2>1, <2>3 DEF Knows, Heard
    <3>3. Knows(found, touched, gone, less, n)
      BY <1>1, <3>2, KnowsLost
    <3> HIDE DEF less
    <3>4. JournalKnows(out, found, less, n)
      BY <1>1, <3>1, <3>3, BookKnows
    <3> QED BY <3>4 DEF out, less
  <2> QED BY <2>2, <2>3
<1>3. CASE ~Seen(j, id)
  <2>1. ~Among(touched, id)
    BY <1>3 DEF Seen, Among
  <2>2. out = [SeeOld(j, id, at) EXCEPT !.gone = NoteGone(@, at)]
    BY <1>3 DEF UnitOut, SeeOld
  <2> HIDE DEF touched, gone, out
  <2>3. at \in Nat /\ at < Len(found) /\ found[at + 1] = id
    BY <1>1, <2>1, KnowsPlace
  <2> HIDE DEF at
  <2>4. SeeOld(j, id, at) = Book(more, gone, <<>>, found)
    <3>1. SeeOld(Book(touched, gone, <<>>, found), id, at)
             = Book(more, gone, <<>>, found)
      BY BookOld
    <3> QED BY <1>1, <3>1
  <2>5. Knows(found, more, gone, m, n)
    BY <1>1, <2>1, <2>3, KnowsOld
  <2>6. t1 \in more /\ t1.was /\ t1.id = id /\ t1.at = at
    BY DEF Old
  <2> HIDE DEF more, t1
  <2>7. out = Book(more, NoteGone(gone, at), <<>>, found)
    <3>1. out = [Book(more, gone, <<>>, found) EXCEPT !.gone = NoteGone(@, at)]
      BY <2>2, <2>4
    <3> QED BY <3>1 DEF Book
  <2>8. Knows(found, more, NoteGone(gone, at), less, n)
    <3>1. t1.id \in ToSet(m)
      BY <2>6
    <3>2. Knows(found, more, NoteGone(gone, t1.at), Without(m, {t1.id}), n)
      BY <2>5, <2>6, <3>1, KnowsGone
    <3> QED BY <2>6, <3>2
  <2> HIDE DEF less
  <2>9. JournalKnows(out, found, less, n)
    BY <2>7, <2>8, BookKnows
  <2> QED BY <2>9 DEF out, less
<1> QED BY <1>2, <1>3

-----------------------------------------------------------------------------
(* A batch leaves (take_out).                                              *)

\* What stays keeps its order.
LEMMA WithoutOrder ==
    ASSUME NEW l \in Seq(Nat), NEW S,
           NEW a \in 1..Len(Without(l, S)), NEW b \in 1..Len(Without(l, S)), a < b
    PROVE  \E p, q \in 1..Len(l) :
              p < q /\ l[p] = Without(l, S)[a] /\ l[q] = Without(l, S)[b]
<1> DEFINE OrderOf(m, w) == \A c, d \in 1..Len(w) : c < d =>
                               \E p, q \in 1..Len(m) : p < q /\ m[p] = w[c] /\ m[q] = w[d]
           T == {m \in Seq(Nat) : OrderOf(m, Without(m, S))}
<1>1. <<>> \in T
  <2>1. <<>> \in Seq(Nat) /\ Len(<<>>) = 0 /\ Without(<<>>, S) = <<>>
    BY EmptySeq, WithoutSteps
  <2>2. \A c \in 1..0 : FALSE
    OBVIOUS
  <2> QED BY <2>1, <2>2
<1>2. ASSUME NEW m \in Seq(Nat), NEW x \in Nat, m \in T PROVE Append(m, x) \in T
  <2> DEFINE w == Without(m, S)
             u == Append(m, x)
             v == Without(u, S)
  <2>1. /\ w \in Seq(Nat) /\ Len(w) \in Nat /\ Len(m) \in Nat
        /\ v = IF x \in S THEN w ELSE Append(w, x)
        /\ ToSet(w) = ToSet(m) \ S /\ DOMAIN w = 1..Len(w) /\ DOMAIN m = 1..Len(m)
    BY WithoutSteps, WithoutType, LenProperties
  <2>2. /\ u \in Seq(Nat) /\ Len(u) = Len(m) + 1 /\ u[Len(m) + 1] = x
        /\ \A i \in 1..Len(m) : u[i] = m[i]
    BY OneMore
  <2>3. OrderOf(m, w)
    BY <1>2
  <2> HIDE DEF w, u, v
  <2>4. OrderOf(u, w)
    <3>1. \A i \in 1..Len(m) : i \in 1..Len(u)
      BY <2>1, <2>2
    <3> QED BY <2>2, <2>3, <3>1
  <2> SUFFICES OrderOf(u, v)
    BY <2>2 DEF u, v
  <2>5. CASE x \in S
    <3>1. v = w
      BY <2>1, <2>5
    <3> QED BY <2>4, <3>1
  <2>6. CASE x \notin S
    <3>1. v = Append(w, x)
      BY <2>1, <2>6
    <3>2. Len(v) = Len(w) + 1 /\ v[Len(w) + 1] = x /\ \A i \in 1..Len(w) : v[i] = w[i]
      BY <2>1, <3>1, OneMore
    <3>3. ASSUME NEW c \in 1..Len(v), NEW d \in 1..Len(v), c < d
          PROVE  \E p, q \in 1..Len(u) : p < q /\ u[p] = v[c] /\ u[q] = v[d]
      <4>1. c \in 1..Len(w) /\ v[c] = w[c]
        BY <2>1, <3>2, <3>3
      <4>2. CASE d \in 1..Len(w)
        <5>1. v[d] = w[d]
          BY <3>2, <4>2
        <5>2. PICK p \in 1..Len(u), q \in 1..Len(u) : p < q /\ u[p] = w[c] /\ u[q] = w[d]
          BY <2>4, <3>3, <4>1, <4>2
        <5> QED BY <4>1, <5>1, <5>2
      <4>3. CASE d \notin 1..Len(w)
        <5>1. d = Len(w) + 1 /\ v[d] = x
          BY <2>1, <3>2, <4>3
        <5>2. w[c] \in ToSet(m)
          BY <2>1, <4>1 DEF ToSet
        <5>3. PICK p \in 1..Len(m) : m[p] = w[c]
          BY <2>1, <5>2 DEF ToSet
        <5>4. p \in 1..Len(u) /\ Len(m) + 1 \in 1..Len(u) /\ p < Len(m) + 1
          BY <2>1, <2>2
        <5> QED BY <2>2, <4>1, <5>1, <5>3, <5>4
      <4> QED BY <4>2, <4>3
    <3> QED BY <3>3
  <2> QED BY <2>5, <2>6
<1>3. Seq(Nat) \subseteq T
  <2> HIDE DEF T
  <2> QED BY <1>1, <1>2, ListInduction
<1> QED BY <1>3

\* An item keeps its index when nothing before it goes.
LEMMA IndexKept ==
    ASSUME NEW l \in Seq(Nat), IsInjective(l), NEW S, NEW p \in 1..Len(l),
           \A i \in 1..p : l[i] \notin S
    PROVE  IndexOf(Without(l, S), l[p]) = IndexOf(l, l[p])
<1> DEFINE w == Without(l, S)
<1>1. PICK f : Lefts(f, l, S) /\ w = f[Len(l)]
  BY LeftsMade
<1>2. /\ Len(l) \in Nat /\ p \in Nat /\ p <= Len(l) /\ p - 1 \in Nat
      /\ \A i \in 1..Len(l) : l[i] \in Nat
  BY LenProperties
<1> DEFINE D == {k \in 0..p : Len(f[k]) = k}
<1>3. 0 \in D
  BY <1>1, <1>2, EmptySeq DEF Lefts
<1>4. ASSUME NEW k \in 1..p, k - 1 \in D PROVE k \in D /\ f[k] = Append(f[k - 1], l[k])
  <2>1. k \in 1..Len(l) /\ k - 1 \in 0..Len(l) /\ l[k] \notin S /\ k \in 0..p
    BY <1>2
  <2>2. f[k] = Append(f[k - 1], l[k]) /\ f[k - 1] \in Seq(Nat) /\ l[k] \in Nat
    BY <1>1, <1>2, <2>1 DEF Lefts
  <2>3. Len(f[k]) = (k - 1) + 1
    BY <1>4, <2>2, OneMore
  <2> QED BY <2>1, <2>2, <2>3
<1>5. 0..p \subseteq D
  <2>1. \A k \in 1..p : k - 1 \in D => k \in D
    BY <1>4
  <2> HIDE DEF D
  <2> QED BY <1>2, <1>3, <2>1, InductionTo
<1>6. Len(f[p]) = p /\ f[p][p] = l[p]
  <2>1. p \in D /\ p - 1 \in D /\ p \in 1..p
    <3>1. p \in 0..p /\ p - 1 \in 0..p /\ p \in 1..p
      BY <1>2
    <3> QED BY <1>5, <3>1
  <2>2. f[p] = Append(f[p - 1], l[p])
    BY <1>4, <2>1
  <2>3. f[p - 1] \in Seq(Nat) /\ Len(f[p - 1]) = p - 1 /\ Len(f[p]) = p /\ l[p] \in Nat
    <3>1. p - 1 \in 0..Len(l)
      BY <1>2
    <3> QED BY <1>1, <1>2, <2>1, <3>1 DEF Lefts
  <2>4. Append(f[p - 1], l[p])[(p - 1) + 1] = l[p]
    BY <2>3, OneMore
  <2>5. (p - 1) + 1 = p
    BY <1>2
  <2> QED BY <2>2, <2>3, <2>4, <2>5
<1>7. p \in 1..Len(w) /\ w[p] = l[p]
  <2>1. p \in 0..Len(l) /\ Len(l) \in p..Len(l)
    BY <1>2
  <2>2. Len(f[p]) <= Len(f[Len(l)]) /\ \A i \in 1..Len(f[p]) : f[Len(l)][i] = f[p][i]
    BY <1>1, <2>1, LeftsGrow
  <2>3. Len(w) \in Nat
    BY WithoutType, LenProperties
  <2> HIDE DEF w
  <2> QED BY <1>1, <1>2, <1>6, <2>2, <2>3
<1>8. w \in Seq(Nat) /\ IsInjective(w)
  BY WithoutType
<1> HIDE DEF w
<1>9. IndexOf(w, w[p]) = p - 1
  BY <1>7, <1>8, IndexOfIs
<1>10. IndexOf(l, l[p]) = p - 1
  BY IndexOfIs
<1> QED BY <1>7, <1>9, <1>10 DEF w

\* The journal as it hears of each.
OutOf(f, j, l, ids, N) ==
    f = [k \in 0..N |-> IF k = 0 THEN j ELSE UnitOut(f[k - 1], l, ids[N - k + 1])]

LEMMA OutMade ==
    ASSUME NEW j, NEW l, NEW ids, NEW N \in Nat
    PROVE  \E f : OutOf(f, j, l, ids, N)
<1> DEFINE Goes(f, m) == f = [k \in 0..m |-> IF k = 0 THEN j
                                             ELSE UnitOut(f[k - 1], l, ids[N - k + 1])]
           S == {m \in 0..N : \E f : Goes(f, m)}
<1>1. 0 \in S
  <2> DEFINE f == [k \in 0..0 |-> j]
  <2>1. \A k \in 0..0 : k = 0
    OBVIOUS
  <2>2. Goes(f, 0) /\ 0 \in 0..N
    BY <2>1
  <2> HIDE DEF f, Goes
  <2> QED BY <2>2
<1>2. ASSUME NEW m \in 1..N, m - 1 \in S PROVE m \in S
  <2>1. PICK f : Goes(f, m - 1)
    BY <1>2
  <2> DEFINE g == [k \in 0..m |-> IF k = m THEN UnitOut(f[m - 1], l, ids[N - m + 1])
                                  ELSE f[k]]
             G(k) == IF k = 0 THEN j ELSE UnitOut(g[k - 1], l, ids[N - k + 1])
  <2>2. /\ m \in 0..N /\ m # 0 /\ m - 1 \in 0..m /\ m - 1 # m /\ m - 1 \in 0..m - 1
        /\ \A k \in 0..m : k # m => k \in 0..m - 1
        /\ \A k \in 0..m : k # m /\ k # 0 => k - 1 \in 0..m /\ k - 1 # m
    OBVIOUS
  <2>3. /\ \A k \in 0..m : k # m => g[k] = f[k]
        /\ g[m] = UnitOut(f[m - 1], l, ids[N - m + 1])
    BY <2>2
  <2>4. \A k \in 0..m - 1 : f[k] = IF k = 0 THEN j ELSE UnitOut(f[k - 1], l, ids[N - k + 1])
    BY <2>1
  <2>5. ASSUME NEW k \in 0..m PROVE g[k] = G(k)
    <3> HIDE DEF g
    <3>1. CASE k = m
      <4>1. g[m - 1] = f[m - 1]
        BY <2>2, <2>3
      <4> QED BY <2>2, <2>3, <3>1, <4>1
    <3>2. CASE k # m /\ k = 0
      BY <2>2, <2>3, <2>4, <3>2
    <3>3. CASE k # m /\ k # 0
      <4>1. g[k - 1] = f[k - 1] /\ g[k] = f[k] /\ k \in 0..m - 1
        BY <2>2, <2>3, <3>3
      <4> QED BY <2>4, <3>3, <4>1
    <3> QED BY <3>1, <3>2, <3>3
  <2>6. g = [k \in 0..m |-> G(k)]
    <3>1. g = [k \in 0..m |-> g[k]]
      OBVIOUS
    <3> HIDE DEF g, G
    <3> QED BY <2>5, <3>1
  <2>7. Goes(g, m)
    <3> HIDE DEF g
    <3> QED BY <2>6
  <2> QED BY <2>2, <2>7
<1>3. 0..N \subseteq S
  <2> HIDE DEF S
  <2> QED BY <1>1, <1>2, InductionTo
<1>4. N \in 0..N
  OBVIOUS
<1> QED BY <1>3, <1>4 DEF OutOf

LEMMA BatchOutKnows ==
    ASSUME NEW j, NEW found, NEW l, NEW n, JournalKnows(j, found, l, n),
           NEW batch, batch \subseteq ToSet(l)
    PROVE  JournalKnows(BatchOut(j, l, batch), found, Without(l, batch), n)
<1> DEFINE rest == ToSet(l) \ batch
           ids == Without(l, rest)
           N == Len(ids)
           out == CHOOSE f : OutOf(f, j, l, ids, N)
           Late(k) == {ids[i] : i \in N - k + 1..N}
<1>1. l \in Seq(Nat) /\ IsInjective(l) /\ DOMAIN l = 1..Len(l)
  BY KnowsList, LenProperties DEF JournalKnows
<1>2. /\ ids \in Seq(Nat) /\ IsInjective(ids) /\ N \in Nat /\ DOMAIN ids = 1..N
      /\ ToSet(ids) = batch
  <2>1. ToSet(l) \ rest = batch
    OBVIOUS
  <2> HIDE DEF rest
  <2>2. ids \in Seq(Nat) /\ IsInjective(ids) /\ ToSet(ids) = batch
    BY <1>1, <2>1, WithoutType
  <2> HIDE DEF ids
  <2> QED BY <2>2, LenProperties
<1>3. \A a, b \in 1..N : a < b =>
          \E p, q \in 1..Len(l) : p < q /\ l[p] = ids[a] /\ l[q] = ids[b]
  <2> HIDE DEF rest
  <2> SUFFICES ASSUME NEW a \in 1..N, NEW b \in 1..N, a < b
               PROVE  \E p, q \in 1..Len(l) : p < q /\ l[p] = ids[a] /\ l[q] = ids[b]
    OBVIOUS
  <2> QED BY <1>1, WithoutOrder
<1>4. BatchOut(j, l, batch) = out[N]
  BY DEF BatchOut, OutOf
<1> HIDE DEF rest, ids, N
<1>5. OutOf(out, j, l, ids, N)
  BY <1>2, OutMade
<1> HIDE DEF out
<1>6. out[0] = j /\ \A k \in 1..N : out[k] = UnitOut(out[k - 1], l, ids[N - k + 1])
  <2>1. 0 \in 0..N /\ \A k \in 1..N : k \in 0..N /\ k # 0
    BY <1>2
  <2> QED BY <1>5, <2>1 DEF OutOf
<1> DEFINE D == {k \in 0..N : JournalKnows(out[k], found, Without(l, Late(k)), n)}
<1>7. 0 \in D
  <2>1. Late(0) = {}
    <3>1. N - 0 + 1..N = {}
      BY <1>2
    <3> QED BY <3>1
  <2>2. Without(l, Late(0)) = l
    <3>1. ToSet(l) \cap Late(0) = {}
      BY <2>1
    <3> HIDE DEF Late
    <3> QED BY <1>1, <3>1, WithoutNone
  <2> HIDE DEF Late
  <2>3. 0 \in 0..N
    BY <1>2
  <2> QED BY <1>6, <2>2, <2>3
<1>8. ASSUME NEW k \in 1..N, k - 1 \in D PROVE k \in D
  <2> DEFINE a == N - k + 1
             id == ids[a]
             S == Late(k - 1)
             m == Without(l, S)
  <2>1. a \in 1..N /\ N - (k - 1) + 1 = a + 1 /\ k \in 0..N /\ a \in Nat
    BY <1>2
  <2>2. Late(k) = S \cup {id}
    <3>1. N - k + 1..N = (a + 1..N) \cup {a}
      BY <1>2, <2>1
    <3> HIDE DEF a
    <3>2. S = {ids[i] : i \in a + 1..N}
      BY <2>1
    <3>3. Late(k) = {ids[i] : i \in (a + 1..N) \cup {a}}
      BY <3>1
    <3> QED BY <3>2, <3>3
  <2>3. S = {ids[i] : i \in a + 1..N}
    BY <2>1
  <2> HIDE DEF a
  <2>4. PICK p \in 1..Len(l) : l[p] = id
    <3>1. id \in ToSet(l)
      <4>1. id \in ToSet(ids)
        BY <1>2, <2>1 DEF ToSet
      <4> QED BY <1>2, <4>1
    <3> QED BY <1>1, <3>1 DEF ToSet
  <2>5. ASSUME NEW i \in 1..p, l[i] \in S PROVE FALSE
    <3>1. PICK b \in a + 1..N : l[i] = ids[b]
      BY <2>3, <2>5
    <3>2. b \in 1..N /\ a < b
      BY <1>2, <2>1
    <3>3. PICK x \in 1..Len(l), y \in 1..Len(l) : x < y /\ l[x] = id /\ l[y] = ids[b]
      BY <1>3, <2>1, <3>2
    <3>4. Len(l) \in Nat
      BY <1>1, LenProperties
    <3>5. i \in 1..Len(l)
      BY <3>4
    <3>6. x = p /\ y = i
      BY <1>1, <2>4, <3>1, <3>3, <3>5 DEF IsInjective
    <3> QED BY <3>3, <3>4, <3>6
  <2> HIDE DEF S
  <2>6. IndexOf(m, id) = IndexOf(l, id)
    <3>1. \A i \in 1..p : l[i] \notin S
      BY <2>5
    <3>2. IndexOf(Without(l, S), l[p]) = IndexOf(l, l[p])
      BY <1>1, <3>1, IndexKept
    <3> QED BY <2>4, <3>2
  <2>7. id \in ToSet(m)
    <3>1. ToSet(m) = ToSet(l) \ S
      BY <1>1, WithoutType
    <3>2. Len(l) \in Nat /\ p \in 1..p
      BY <1>1, LenProperties
    <3>3. l[p] \notin S
      BY <2>5, <3>2
    <3>4. l[p] \in ToSet(l)
      BY <1>1 DEF ToSet
    <3> QED BY <2>4, <3>1, <3>3, <3>4
  <2>8. JournalKnows(out[k - 1], found, m, n)
    BY <1>8 DEF S
  <2>9. out[k] = UnitOut(out[k - 1], l, id)
    BY <1>6 DEF a
  <2> HIDE DEF m, id
  <2>10. JournalKnows(out[k], found, Without(m, {id}), n)
    BY <2>6, <2>7, <2>8, <2>9, UnitOutKnows
  <2>11. Without(m, {id}) = Without(l, Late(k))
    <3> DEFINE U == {id}
    <3> HIDE DEF U
    <3>1. Without(Without(l, S), U) = Without(l, S \cup U)
      BY <1>1, WithoutTwice
    <3> HIDE DEF Late
    <3> QED BY <2>2, <3>1 DEF U, m, id
  <2> QED BY <2>1, <2>10, <2>11
<1>9. 0..N \subseteq D
  <2> HIDE DEF D
  <2> QED BY <1>2, <1>7, <1>8, InductionTo
<1>10. JournalKnows(out[N], found, Without(l, Late(N)), n)
  <2>1. N \in 0..N
    BY <1>2
  <2> QED BY <1>9, <2>1
<1>11. Late(N) = batch
  <2>1. N - N + 1..N = 1..N
    BY <1>2
  <2> QED BY <1>2, <2>1 DEF ToSet
<1> HIDE DEF Late
<1> QED BY <1>4, <1>10, <1>11

\* A batch of units the journal knows to be new tells it nothing.
LEMMA BatchOutNew ==
    ASSUME NEW j, NEW l \in Seq(Nat), NEW batch, \A x \in batch : UnitOut(j, l, x) = j
    PROVE  BatchOut(j, l, batch) = j
<1> DEFINE rest == ToSet(l) \ batch
           ids == Without(l, rest)
           N == Len(ids)
           out == CHOOSE f : OutOf(f, j, l, ids, N)
<1>1. N \in Nat /\ \A i \in 1..N : ids[i] \in batch
  <2>1. ToSet(l) \ rest \subseteq batch
    OBVIOUS
  <2> HIDE DEF rest
  <2>2. ids \in Seq(Nat) /\ ToSet(ids) \subseteq batch
    BY <2>1, WithoutType
  <2> HIDE DEF ids
  <2> QED BY <2>2, LenProperties DEF ToSet
<1>2. BatchOut(j, l, batch) = out[N]
  BY DEF BatchOut, OutOf
<1> HIDE DEF rest, ids, N
<1>3. OutOf(out, j, l, ids, N)
  BY <1>1, OutMade
<1> HIDE DEF out
<1>4. out[0] = j /\ \A k \in 1..N : out[k] = UnitOut(out[k - 1], l, ids[N - k + 1])
  <2>1. 0 \in 0..N /\ \A k \in 1..N : k \in 0..N /\ k # 0
    BY <1>1
  <2> QED BY <1>3, <2>1 DEF OutOf
<1> DEFINE D == {k \in 0..N : out[k] = j}
<1>5. 0 \in D
  BY <1>1, <1>4
<1>6. ASSUME NEW k \in 1..N, k - 1 \in D PROVE k \in D
  <2>1. N - k + 1 \in 1..N /\ k \in 0..N
    BY <1>1
  <2>2. out[k] = UnitOut(j, l, ids[N - k + 1])
    BY <1>4, <1>6
  <2>3. ids[N - k + 1] \in batch
    BY <1>1, <2>1
  <2> QED BY <2>1, <2>2, <2>3
<1>7. 0..N \subseteq D
  <2> HIDE DEF D
  <2> QED BY <1>1, <1>5, <1>6, InductionTo
<1>8. N \in D
  <2>1. N \in 0..N
    BY <1>1
  <2> QED BY <1>7, <2>1
<1> QED BY <1>2, <1>8

-----------------------------------------------------------------------------
(* The slots of the brush, noted as gone one by one (SlotsSettled).        *)

NotedUpTo(f, gone, slots, m) ==
    f = [k \in 0..m |-> IF k = 0 THEN gone ELSE NoteGone(f[k - 1], slots[k])]

LEMMA NotedMade ==
    ASSUME NEW gone, NEW slots, NEW N \in Nat
    PROVE  \E f : NotedUpTo(f, gone, slots, N)
<1> DEFINE Goes(f, m) == f = [k \in 0..m |-> IF k = 0 THEN gone
                                             ELSE NoteGone(f[k - 1], slots[k])]
           S == {m \in 0..N : \E f : Goes(f, m)}
<1>1. 0 \in S
  <2> DEFINE f == [k \in 0..0 |-> gone]
  <2>1. \A k \in 0..0 : k = 0
    OBVIOUS
  <2>2. Goes(f, 0) /\ 0 \in 0..N
    BY <2>1
  <2> HIDE DEF f, Goes
  <2> QED BY <2>2
<1>2. ASSUME NEW m \in 1..N, m - 1 \in S PROVE m \in S
  <2>1. PICK f : Goes(f, m - 1)
    BY <1>2
  <2> DEFINE g == [k \in 0..m |-> IF k = m THEN NoteGone(f[m - 1], slots[m]) ELSE f[k]]
             G(k) == IF k = 0 THEN gone ELSE NoteGone(g[k - 1], slots[k])
  <2>2. /\ m \in 0..N /\ m # 0 /\ m - 1 \in 0..m /\ m - 1 # m /\ m - 1 \in 0..m - 1
        /\ \A k \in 0..m : k # m => k \in 0..m - 1
        /\ \A k \in 0..m : k # m /\ k # 0 => k - 1 \in 0..m /\ k - 1 # m
    OBVIOUS
  <2>3. /\ \A k \in 0..m : k # m => g[k] = f[k]
        /\ g[m] = NoteGone(f[m - 1], slots[m])
    BY <2>2
  <2>4. \A k \in 0..m - 1 : f[k] = IF k = 0 THEN gone ELSE NoteGone(f[k - 1], slots[k])
    BY <2>1
  <2>5. ASSUME NEW k \in 0..m PROVE g[k] = G(k)
    <3> HIDE DEF g
    <3>1. CASE k = m
      <4>1. g[m - 1] = f[m - 1]
        BY <2>2, <2>3
      <4> QED BY <2>2, <2>3, <3>1, <4>1
    <3>2. CASE k # m /\ k = 0
      BY <2>2, <2>3, <2>4, <3>2
    <3>3. CASE k # m /\ k # 0
      <4>1. g[k - 1] = f[k - 1] /\ g[k] = f[k] /\ k \in 0..m - 1
        BY <2>2, <2>3, <3>3
      <4> QED BY <2>4, <3>3, <4>1
    <3> QED BY <3>1, <3>2, <3>3
  <2>6. g = [k \in 0..m |-> G(k)]
    <3>1. g = [k \in 0..m |-> g[k]]
      OBVIOUS
    <3> HIDE DEF g, G
    <3> QED BY <2>5, <3>1
  <2>7. Goes(g, m)
    <3> HIDE DEF g
    <3> QED BY <2>6
  <2> QED BY <2>2, <2>7
<1>3. 0..N \subseteq S
  <2> HIDE DEF S
  <2> QED BY <1>1, <1>2, InductionTo
<1>4. N \in 0..N
  OBVIOUS
<1> QED BY <1>3, <1>4 DEF NotedUpTo

\* The places gone once the slots are settled.
Settled(gone, slots) ==
    LET Gone[k \in 0..Len(slots)] ==
            IF k = 0 THEN gone ELSE NoteGone(Gone[k - 1], slots[k])
    IN  Gone[Len(slots)]

LEMMA SettledIs ==
    ASSUME NEW gone, NEW slots, Len(slots) \in Nat
    PROVE  \E f : /\ f[0] = gone
                  /\ \A k \in 1..Len(slots) : f[k] = NoteGone(f[k - 1], slots[k])
                  /\ Settled(gone, slots) = f[Len(slots)]
<1> DEFINE N == Len(slots)
           f == CHOOSE g : NotedUpTo(g, gone, slots, N)
<1>1. Settled(gone, slots) = f[N]
  BY DEF Settled, NotedUpTo
<1>2. NotedUpTo(f, gone, slots, N)
  BY NotedMade
<1> HIDE DEF f
<1>3. f[0] = gone /\ \A k \in 1..N : f[k] = NoteGone(f[k - 1], slots[k])
  <2>1. 0 \in 0..N /\ \A k \in 1..N : k \in 0..N /\ k # 0
    OBVIOUS
  <2> QED BY <1>2, <2>1 DEF NotedUpTo
<1> QED BY <1>1, <1>3

LEMMA SettledSteps ==
    ASSUME NEW gone
    PROVE  /\ Settled(gone, <<>>) = gone
           /\ \A s \in Seq(Nat), x \in Nat :
                 Settled(gone, Append(s, x)) = NoteGone(Settled(gone, s), x)
<1>1. Settled(gone, <<>>) = gone
  <2>1. Len(<<>>) = 0
    BY EmptySeq
  <2> QED BY <2>1, SettledIs
<1>2. ASSUME NEW s \in Seq(Nat), NEW x \in Nat
      PROVE  Settled(gone, Append(s, x)) = NoteGone(Settled(gone, s), x)
  <2> DEFINE m == Append(s, x)
             n == Len(s)
  <2>1. n \in Nat /\ Len(m) = n + 1 /\ m[n + 1] = x /\ \A i \in 1..n : m[i] = s[i]
    BY OneMore, LenProperties
  <2> HIDE DEF m
  <2>2. PICK f : /\ f[0] = gone
                 /\ \A k \in 1..n : f[k] = NoteGone(f[k - 1], s[k])
                 /\ Settled(gone, s) = f[n]
    BY <2>1, SettledIs
  <2>3. PICK g : /\ g[0] = gone
                 /\ \A k \in 1..n + 1 : g[k] = NoteGone(g[k - 1], m[k])
                 /\ Settled(gone, m) = g[n + 1]
    <3>1. Len(m) \in Nat
      BY <2>1
    <3> QED BY <2>1, <3>1, SettledIs
  <2> DEFINE D == {k \in 0..n : g[k] = f[k]}
  <2>4. 0 \in D
    BY <2>1, <2>2, <2>3
  <2>5. ASSUME NEW k \in 1..n, k - 1 \in D PROVE k \in D
    <3>1. k \in 1..n + 1 /\ k \in 0..n
      BY <2>1
    <3>2. g[k] = NoteGone(f[k - 1], s[k])
      BY <2>1, <2>3, <2>5, <3>1
    <3> QED BY <2>2, <3>1, <3>2
  <2>6. 0..n \subseteq D
    <3> HIDE DEF D, n
    <3> QED BY <2>1, <2>4, <2>5, InductionTo
  <2>7. g[n] = f[n]
    <3>1. n \in 0..n
      BY <2>1
    <3> QED BY <2>6, <3>1
  <2>8. g[n + 1] = NoteGone(g[(n + 1) - 1], m[n + 1])
    <3>1. n + 1 \in 1..n + 1
      BY <2>1
    <3> QED BY <2>3, <3>1
  <2>9. (n + 1) - 1 = n
    BY <2>1
  <2> QED BY <2>1, <2>2, <2>3, <2>7, <2>8, <2>9 DEF m
<1> QED BY <1>1, <1>2

LEMMA SlotsSettledIs ==
    ASSUME NEW touched, NEW gone, NEW slots, NEW found
    PROVE  SlotsSettled(Book(touched, gone, slots, found))
              = Book(touched, Settled(gone, slots), <<>>, found)
<1> DEFINE j == Book(touched, gone, slots, found)
           r == SlotsSettled(j)
           g == Settled(gone, slots)
<1>1. j.slots = slots /\ j.gone = gone
  BY DEF Book
<1>2. r = [j EXCEPT !.gone = g, !.slots = <<>>]
  BY <1>1, Zenon DEF SlotsSettled, Settled
<1>3. j = Book(touched, gone, slots, found)
  OBVIOUS
<1> HIDE DEF r, j, g
<1>4. r = Book(touched, g, <<>>, found)
  BY <1>2, <1>3 DEF Book
<1> QED BY <1>4 DEF r, j, g

-----------------------------------------------------------------------------
(* The lobby brush.                                                        *)

\* In the middle of a stroke the journal knows the list u it began with,
\* and the list l that there will be when its slots are settled.
SlotsKnow(touched, gone, slots, found, u, l, n) ==
    /\ slots \in Seq(Nat)
    /\ Knows(found, touched, gone, u, n)
    /\ Knows(found, touched, Settled(gone, slots), l, n)

\* A floor tile gives its slot (unit_slot).
Slotted(r, touched, gone, found, u, less, n) ==
    \E more, after :
        /\ r = Book(more, gone, after, found)
        /\ touched \subseteq more
        /\ SlotsKnow(more, gone, after, found, u, less, n)

LEMMA UnitSlotKnows ==
    ASSUME NEW touched, NEW gone, NEW slots, NEW found, NEW u, NEW l, NEW n,
           SlotsKnow(touched, gone, slots, found, u, l, n),
           NEW list, NEW id \in ToSet(u), id \in ToSet(l), IndexOf(list, id) = IndexOf(u, id)
    PROVE  Slotted(UnitSlot(Book(touched, gone, slots, found), list, id),
                   touched, gone, found, u, Without(l, {id}), n)
<1> DEFINE j == Book(touched, gone, slots, found)
           t0 == Touch(j, id)
           at == Original(gone, IndexOf(u, id))
           r == UnitSlot(j, list, id)
           less == Without(l, {id})
           was == Settled(gone, slots)
<1>1. /\ j.touched = touched /\ j.gone = gone /\ j.slots = slots
      /\ j = Book(touched, gone, slots, found)
  BY DEF Book
<1>2. /\ slots \in Seq(Nat) /\ Knows(found, touched, gone, u, n)
      /\ Knows(found, touched, was, l, n)
  BY DEF SlotsKnow
<1>3. Seen(j, id) <=> Among(touched, id)
  BY <1>1 DEF Seen, Among
<1>4. Seen(j, id) => t0 \in touched /\ t0.id = id
  BY <1>1, TouchIs
<1>5. Seen(j, id) /\ t0.was => r = [j EXCEPT !.slots = Append(slots, t0.at)]
  BY <1>1 DEF UnitSlot
<1>6. Seen(j, id) /\ ~t0.was => r = j
  BY DEF UnitSlot
<1>7. ~Seen(j, id) => r = [SeeOld(j, id, at) EXCEPT !.slots = Append(@, at)]
  BY <1>1 DEF UnitSlot, SeeOld
<1> HIDE DEF j, t0, r, was, less
<1> SUFFICES \E more, after : /\ r = Book(more, gone, after, found)
                              /\ touched \subseteq more
                              /\ SlotsKnow(more, gone, after, found, u, less, n)
  BY DEF Slotted, r, j, less
<1>8. CASE Seen(j, id) /\ t0.was
  <2> DEFINE after == Append(slots, t0.at)
  <2>1. t0 \in touched /\ t0.id = id /\ t0.at \in Nat
    BY <1>2, <1>4, <1>8 DEF Knows, Heard
  <2>2. after \in Seq(Nat) /\ Settled(gone, after) = NoteGone(was, t0.at)
    <3> DEFINE a == t0.at
    <3>1. a \in Nat
      BY <2>1
    <3> HIDE DEF a
    <3>2. Append(slots, a) \in Seq(Nat)
      BY <1>2, <3>1, OneMore
    <3>3. Settled(gone, Append(slots, a)) = NoteGone(Settled(gone, slots), a)
      BY <1>2, <3>1, SettledSteps
    <3> QED BY <3>2, <3>3 DEF was, a
  <2>3. r = [j EXCEPT !.slots = after]
    BY <1>5, <1>8
  <2> HIDE DEF after
  <2>4. r = Book(touched, gone, after, found)
    <3>1. j = Book(touched, gone, slots, found)
      BY <1>1
    <3> QED BY <2>3, <3>1 DEF Book
  <2>5. Knows(found, touched, NoteGone(was, t0.at), Without(l, {t0.id}), n)
    BY <1>2, <1>8, <2>1, KnowsGone
  <2>6. SlotsKnow(touched, gone, after, found, u, less, n)
    BY <1>2, <2>1, <2>2, <2>5 DEF SlotsKnow, less
  <2> QED BY <2>4, <2>6
<1>9. CASE Seen(j, id) /\ ~t0.was
  <2>1. r = Book(touched, gone, slots, found)
    BY <1>1, <1>6, <1>9
  <2>2. id \notin ToSet(found)
    BY <1>2, <1>4, <1>9 DEF Knows, Heard
  <2>3. Knows(found, touched, was, less, n)
    BY <1>2, <2>2, KnowsLost DEF less
  <2>4. SlotsKnow(touched, gone, slots, found, u, less, n)
    BY <1>2, <2>3 DEF SlotsKnow, was
  <2> QED BY <2>1, <2>4
<1>10. CASE ~Seen(j, id)
  <2> DEFINE t1 == Old(id, at)
             more == touched \cup {t1}
             after == Append(slots, at)
  <2>1. ~Among(touched, id)
    BY <1>3, <1>10
  <2>2. at \in Nat /\ at < Len(found) /\ found[at + 1] = id
    BY <1>2, <2>1, KnowsPlace
  <2>3. SeeOld(Book(touched, gone, slots, found), id, at) = Book(more, gone, slots, found)
    BY BookOld
  <2> HIDE DEF at
  <2>4. /\ t1 \in more /\ t1.was /\ t1.id = id /\ t1.at = at
    BY DEF Old
  <2>5. Knows(found, more, gone, u, n) /\ Knows(found, more, was, l, n)
    BY <1>2, <2>1, <2>2, KnowsOld
  <2>6. after \in Seq(Nat) /\ Settled(gone, after) = NoteGone(was, at)
    <3>1. Append(slots, at) \in Seq(Nat)
      BY <1>2, <2>2, OneMore
    <3>2. Settled(gone, Append(slots, at)) = NoteGone(Settled(gone, slots), at)
      BY <1>2, <2>2, SettledSteps
    <3> QED BY <3>1, <3>2 DEF was
  <2>7. touched \subseteq more
    OBVIOUS
  <2> HIDE DEF more, t1
  <2>8. r = Book(more, gone, after, found)
    <3>1. r = [Book(more, gone, slots, found) EXCEPT !.slots = Append(@, at)]
      BY <1>1, <1>7, <1>10, <2>3
    <3>2. r = Book(more, gone, Append(slots, at), found)
      BY <3>1 DEF Book
    <3> QED BY <3>2
  <2> HIDE DEF after
  <2>9. Knows(found, more, NoteGone(was, at), less, n)
    <3>1. t1.id \in ToSet(l)
      BY <2>4
    <3>2. Knows(found, more, NoteGone(was, t1.at), Without(l, {t1.id}), n)
      BY <2>4, <2>5, <3>1, KnowsGone
    <3> QED BY <2>4, <3>2 DEF less
  <2>10. SlotsKnow(more, gone, after, found, u, less, n)
    BY <2>5, <2>6, <2>9 DEF SlotsKnow
  <2> QED BY <2>7, <2>8, <2>10
<1> QED BY <1>8, <1>9, <1>10

\* A lobby tile is laid (unit_in).
LEMMA UnitInSlots ==
    ASSUME NEW touched, NEW gone, NEW slots, NEW found, NEW u, NEW l, NEW n,
           SlotsKnow(touched, gone, slots, found, u, l, n)
    PROVE  \E more :
              /\ UnitIn(Book(touched, gone, slots, found), n)
                    = Book(more, gone, slots, found)
              /\ touched \subseteq more
              /\ \E t \in more : t.id = n /\ ~t.was
              /\ SlotsKnow(more, gone, slots, found, u, Append(l, n), n + 1)
<1> DEFINE j == Book(touched, gone, slots, found)
           t1 == New(n)
           more == touched \cup {t1}
           was == Settled(gone, slots)
<1>1. /\ slots \in Seq(Nat) /\ Knows(found, touched, gone, u, n)
      /\ Knows(found, touched, was, l, n)
  BY DEF SlotsKnow
<1>2. ~Among(touched, n) /\ n \notin ToSet(l)
  BY <1>1, KnowsNew
<1>3. j.touched = touched
  BY DEF Book
<1>4. UnitIn(j, n) = SeeNew(j, n)
  BY <1>2, <1>3 DEF UnitIn, SeeNew, Seen, Among
<1>5. SeeNew(j, n) = Book(more, gone, slots, found)
  BY BookNew
<1> HIDE DEF was
<1>6. Knows(found, more, gone, u, n + 1) /\ Knows(found, more, was, l, n + 1)
  BY <1>1, KnowsNew
<1>7. t1 \in more /\ t1.id = n /\ ~t1.was /\ touched \subseteq more
  BY DEF New
<1> HIDE DEF j, t1, more
<1>8. Knows(found, more, was, Append(l, n), n + 1)
  <2>1. t1.id \notin ToSet(l)
    BY <1>2, <1>7
  <2>2. Knows(found, more, was, Append(l, t1.id), n + 1)
    BY <1>6, <1>7, <2>1, KnowsAppend
  <2> QED BY <1>7, <2>2
<1>9. SlotsKnow(more, gone, slots, found, u, Append(l, n), n + 1)
  BY <1>1, <1>6, <1>8 DEF SlotsKnow, was
<1> QED BY <1>4, <1>5, <1>7, <1>9 DEF j

\* A list m with a new item n in the place p of l.
Swapped(l, p, n, m) ==
    /\ m \in Seq(Nat) /\ IsInjective(m) /\ Len(m) = Len(l)
    /\ ToSet(m) = (ToSet(l) \ {l[p]}) \cup {n}
    /\ \A q \in 1..Len(l) : q # p => m[q] = l[q]
    /\ \A S : Without(m, S \cup {n}) = Without(l, S \cup {l[p]})

LEMMA Replaced ==
    ASSUME NEW l \in Seq(Nat), IsInjective(l), NEW p \in 1..Len(l),
           NEW n \in Nat, n \notin ToSet(l), NEW m, m = [l EXCEPT ![p] = n]
    PROVE  Swapped(l, p, n, m)
<1>1. /\ m \in Seq(Nat) /\ Len(m) = Len(l)
      /\ \A q \in 1..Len(l) : m[q] = IF q = p THEN n ELSE l[q]
  BY ExceptSeq
<1>2. DOMAIN l = 1..Len(l) /\ DOMAIN m = 1..Len(l)
  BY <1>1, LenProperties
<1>3. \A q \in 1..Len(l) : l[q] # n /\ (l[q] = l[p] => q = p)
  BY <1>2 DEF ToSet, IsInjective
<1>4. IsInjective(m)
  BY <1>1, <1>2, <1>3 DEF IsInjective
<1>5. ToSet(m) = (ToSet(l) \ {l[p]}) \cup {n}
  <2>1. ASSUME NEW q \in 1..Len(l) PROVE m[q] \in (ToSet(l) \ {l[p]}) \cup {n}
    BY <1>1, <1>2, <1>3 DEF ToSet
  <2>2. n \in ToSet(m)
    BY <1>1, <1>2 DEF ToSet
  <2>3. ASSUME NEW q \in 1..Len(l), l[q] # l[p] PROVE l[q] \in ToSet(m)
    <3>1. m[q] = l[q]
      BY <1>1, <2>3
    <3> QED BY <1>2, <3>1 DEF ToSet
  <2>4. ToSet(m) \subseteq (ToSet(l) \ {l[p]}) \cup {n}
    BY <1>2, <2>1 DEF ToSet
  <2>5. ToSet(l) \ {l[p]} \subseteq ToSet(m)
    BY <1>2, <2>3 DEF ToSet
  <2> QED BY <2>2, <2>4, <2>5
<1>6. ASSUME NEW S PROVE Without(m, S \cup {n}) = Without(l, S \cup {l[p]})
  <2> DEFINE A == S \cup {n}
             B == S \cup {l[p]}
  <2>1. \A q \in 1..Len(m) : (m[q] \in A <=> l[q] \in B) /\ (m[q] \notin A => m[q] = l[q])
    BY <1>1, <1>3
  <2> HIDE DEF A, B
  <2>2. m \in Seq(Nat) /\ l \in Seq(Nat) /\ Len(m) = Len(l)
    BY <1>1
  <2>3. Without(m, A) = Without(l, B)
    BY ONLY <2>1, <2>2, WithoutAgree
  <2> QED BY <2>3 DEF A, B
<1> QED BY <1>1, <1>4, <1>5, <1>6 DEF Swapped

\* What the brush has made of the list u, where it found floor tiles `overs`.
Brush(b, found, gone, u, overs) ==
    /\ b = [list |-> b.list, j |-> b.j, placed |-> b.placed, next |-> b.next,
            upgraded |-> b.upgraded]
    /\ b.upgraded \in BOOLEAN
    /\ b.list \in Seq(Nat) /\ IsInjective(b.list) /\ b.placed \in Seq(Nat)
    /\ ToSet(b.list) = (ToSet(u) \ overs) \cup ToSet(b.placed)
    /\ ToSet(b.placed) \cap ToSet(u) = {}
    /\ Len(u) <= Len(b.list)
    /\ \A p \in 1..Len(u) : u[p] \notin overs => b.list[p] = u[p]
    /\ Without(b.list, ToSet(b.placed)) = Without(u, overs)
    /\ b.upgraded = FALSE => overs = {} /\ b.list = u \o b.placed
    /\ \E touched, slots :
          /\ b.j = Book(touched, gone, slots, found)
          /\ b.upgraded = FALSE => slots = <<>>
          /\ \A x \in ToSet(b.placed) : \E t \in touched : t.id = x /\ ~t.was
          /\ SlotsKnow(touched, gone, slots, found, u, Without(u, overs) \o b.placed, b.next)

\* The list u, and the next id, which no list has.
LEMMA BrushNext ==
    ASSUME NEW b, NEW found, NEW gone, NEW u, NEW overs, Brush(b, found, gone, u, overs)
    PROVE  /\ u \in Seq(Nat) /\ IsInjective(u) /\ b.next \in Nat
           /\ b.next \notin ToSet(u) /\ b.next \notin ToSet(b.list)
           /\ b.next \notin ToSet(b.placed)
<1>1. PICK touched, slots :
         SlotsKnow(touched, gone, slots, found, u, Without(u, overs) \o b.placed, b.next)
  BY DEF Brush
<1> DEFINE n == b.next
           left == Without(u, overs)
           l == left \o b.placed
           was == Settled(gone, slots)
<1>2. Knows(found, touched, gone, u, n) /\ Knows(found, touched, was, l, n)
  BY <1>1 DEF SlotsKnow
<1>3. u \in Seq(Nat) /\ IsInjective(u) /\ n \notin ToSet(u) /\ n \in Nat
  <2> HIDE DEF n
  <2> QED BY <1>2, KnowsList, KnowsNew DEF Knows
<1>4. n \notin ToSet(l)
  <2> HIDE DEF n, l, was
  <2> QED BY <1>2, KnowsNew
<1>5. ToSet(l) = ToSet(left) \cup ToSet(b.placed)
  <2>1. left \in Seq(Nat) /\ b.placed \in Seq(Nat)
    BY <1>3, WithoutType DEF Brush
  <2> HIDE DEF left
  <2> QED BY <2>1, Joined
<1> QED BY <1>3, <1>4, <1>5 DEF Brush

\* A tile on free ground.
LEMMA LayFree ==
    ASSUME NEW b, NEW found, NEW gone, NEW u, NEW overs, Brush(b, found, gone, u, overs)
    PROVE  Brush(LayLobby(b, 0), found, gone, u, overs) /\ LayLobby(b, 0).next = b.next + 1
<1> DEFINE r == LayLobby(b, 0)
           n == b.next
           list == b.list
           placed == b.placed
           left == Without(u, overs)
           P == ToSet(placed)
           more == Append(placed, n)
<1>1. r = [b EXCEPT !.list = Append(list, n), !.j = UnitIn(b.j, n),
                    !.placed = more, !.next = n + 1]
  BY DEF LayLobby
<1>2. b = [list |-> b.list, j |-> b.j, placed |-> b.placed, next |-> b.next,
           upgraded |-> b.upgraded]
      /\ b.upgraded \in BOOLEAN
  BY DEF Brush
<1> HIDE DEF r
<1>3. /\ r.list = Append(list, n) /\ r.j = UnitIn(b.j, n) /\ r.placed = more
      /\ r.next = n + 1 /\ r.upgraded = b.upgraded
      /\ r = [list |-> r.list, j |-> r.j, placed |-> r.placed, next |-> r.next,
              upgraded |-> r.upgraded]
  BY <1>1, <1>2
<1>4. PICK touched, slots :
         /\ b.j = Book(touched, gone, slots, found)
         /\ b.upgraded = FALSE => slots = <<>>
         /\ \A x \in P : \E t \in touched : t.id = x /\ ~t.was
         /\ SlotsKnow(touched, gone, slots, found, u, left \o placed, n)
  BY DEF Brush
<1>5. /\ u \in Seq(Nat) /\ IsInjective(u) /\ n \in Nat
      /\ n \notin ToSet(u) /\ n \notin ToSet(list) /\ n \notin P
  BY BrushNext
<1>6. /\ list \in Seq(Nat) /\ IsInjective(list) /\ placed \in Seq(Nat)
      /\ ToSet(list) = (ToSet(u) \ overs) \cup P /\ P \cap ToSet(u) = {}
      /\ Len(u) <= Len(list)
      /\ \A p \in 1..Len(u) : u[p] \notin overs => list[p] = u[p]
      /\ Without(list, P) = left
      /\ b.upgraded = FALSE => overs = {} /\ list = u \o placed
  BY DEF Brush
<1>7. left \in Seq(Nat) /\ Len(list) \in Nat /\ Len(u) \in Nat
  BY <1>5, <1>6, WithoutType, LenProperties
<1> HIDE DEF n, list, placed, left
<1>8. /\ r.list \in Seq(Nat) /\ IsInjective(r.list) /\ Len(r.list) = Len(list) + 1
      /\ ToSet(r.list) = ToSet(list) \cup {n}
      /\ \A i \in 1..Len(list) : r.list[i] = list[i]
  BY <1>3, <1>5, <1>6, OneMore
<1>9. r.placed \in Seq(Nat) /\ ToSet(r.placed) = P \cup {n}
  BY <1>3, <1>5, <1>6, OneMore
<1>10. Without(r.list, ToSet(r.placed)) = left
  <2> DEFINE S == P \cup {n}
  <2>1. n \in S /\ \A x \in ToSet(list) : x \in S <=> x \in P
    BY <1>5
  <2> HIDE DEF S, P
  <2>2. Without(Append(list, n), S) = Without(list, S)
    BY <1>5, <1>6, <2>1, WithoutMore
  <2>3. Without(list, S) = Without(list, P)
    BY <1>6, <2>1, WithoutSame
  <2> QED BY <1>3, <1>6, <1>9, <2>2, <2>3 DEF S
<1>11. left \o more = Append(left \o placed, n)
  BY <1>5, <1>6, <1>7, Joined
<1>12. r.upgraded = FALSE => overs = {} /\ r.list = u \o r.placed
  <2>1. u \o more = Append(u \o placed, n)
    BY <1>5, <1>6, Joined
  <2> QED BY <1>3, <1>6, <2>1
<1>13. PICK after :
         /\ UnitIn(Book(touched, gone, slots, found), n) = Book(after, gone, slots, found)
         /\ touched \subseteq after
         /\ \E t \in after : t.id = n /\ ~t.was
         /\ SlotsKnow(after, gone, slots, found, u, Append(left \o placed, n), n + 1)
  BY <1>4, UnitInSlots
<1>14. /\ r.j = Book(after, gone, slots, found)
       /\ r.upgraded = FALSE => slots = <<>>
       /\ \A x \in ToSet(r.placed) : \E t \in after : t.id = x /\ ~t.was
       /\ SlotsKnow(after, gone, slots, found, u, left \o r.placed, r.next)
  <2>1. \A x \in ToSet(r.placed) : \E t \in after : t.id = x /\ ~t.was
    BY <1>4, <1>9, <1>13
  <2> HIDE DEF P, more
  <2> QED BY <1>3, <1>4, <1>11, <1>13, <2>1
<1>15. Len(u) <= Len(r.list) /\ \A p \in 1..Len(u) : u[p] \notin overs => r.list[p] = u[p]
  <2>1. \A p \in 1..Len(u) : p \in 1..Len(list)
    BY <1>6, <1>7
  <2> QED BY <1>6, <1>7, <1>8, <2>1
<1>16. /\ ToSet(r.list) = (ToSet(u) \ overs) \cup ToSet(r.placed)
       /\ ToSet(r.placed) \cap ToSet(u) = {}
  BY <1>5, <1>6, <1>8, <1>9
<1> HIDE DEF P, more
<1>17. Brush(r, found, gone, u, overs)
  BY <1>2, <1>3, <1>8, <1>9, <1>10, <1>12, <1>14, <1>15, <1>16 DEF Brush, left
<1> QED BY <1>3, <1>17 DEF r, n

\* A tile over a floor tile.
LEMMA LayOver ==
    ASSUME NEW b, NEW found, NEW gone, NEW u, NEW overs, Brush(b, found, gone, u, overs),
           NEW over \in ToSet(u), over \notin overs, over # 0
    PROVE  /\ Brush(LayLobby(b, over), found, gone, u, overs \cup {over})
           /\ LayLobby(b, over).next = b.next + 1
<1> DEFINE r == LayLobby(b, over)
           n == b.next
           list == b.list
           placed == b.placed
           left == Without(u, overs)
           P == ToSet(placed)
           more == Append(placed, n)
           S == {over}
           U == overs \cup S
           l == left \o placed
           m == [list EXCEPT ![IndexOf(list, over) + 1] = n]
           j1 == UnitSlot(b.j, list, over)
<1>1. r = [b EXCEPT !.list = m, !.j = UnitIn(j1, n), !.placed = more, !.next = n + 1,
                    !.upgraded = TRUE]
  BY Zenon DEF LayLobby
<1>2. b = [list |-> b.list, j |-> b.j, placed |-> b.placed, next |-> b.next,
           upgraded |-> b.upgraded]
  BY DEF Brush
<1>3. /\ u \in Seq(Nat) /\ IsInjective(u) /\ n \in Nat
      /\ n \notin ToSet(u) /\ n \notin ToSet(list) /\ n \notin P
  BY BrushNext
<1>4. /\ list \in Seq(Nat) /\ IsInjective(list) /\ placed \in Seq(Nat)
      /\ ToSet(list) = (ToSet(u) \ overs) \cup P /\ P \cap ToSet(u) = {}
      /\ Len(u) <= Len(list)
      /\ \A p \in 1..Len(u) : u[p] \notin overs => list[p] = u[p]
      /\ Without(list, P) = left
  BY DEF Brush
<1>5. PICK touched, slots :
         /\ b.j = Book(touched, gone, slots, found)
         /\ \A x \in P : \E t \in touched : t.id = x /\ ~t.was
         /\ SlotsKnow(touched, gone, slots, found, u, l, n)
  BY DEF Brush
<1>6. left \in Seq(Nat) /\ Len(list) \in Nat /\ Len(u) \in Nat /\ ToSet(left) = ToSet(u) \ overs
  BY <1>3, <1>4, WithoutType, LenProperties
<1>7. PICK p \in 1..Len(u) : u[p] = over
  BY <1>3, LenProperties DEF ToSet
<1>8. p \in 1..Len(list) /\ list[p] = over
  BY <1>4, <1>6, <1>7
<1> HIDE DEF r, n, list, placed, left, m, j1
<1>9. /\ IndexOf(list, over) = p - 1 /\ IndexOf(u, over) = p - 1
      /\ IndexOf(list, over) + 1 = p
  <2>1. IndexOf(list, list[p]) = p - 1
    BY <1>4, <1>8, IndexOfIs
  <2>2. IndexOf(u, u[p]) = p - 1
    BY <1>3, <1>7, IndexOfIs
  <2>3. p - 1 + 1 = p
    BY <1>6
  <2> QED BY <1>7, <1>8, <2>1, <2>2, <2>3
<1>10. /\ r.list = m /\ r.j = UnitIn(j1, n) /\ r.placed = more
       /\ r.next = n + 1 /\ r.upgraded = TRUE
       /\ r = [list |-> r.list, j |-> r.j, placed |-> r.placed, next |-> r.next,
               upgraded |-> r.upgraded]
  BY <1>1, <1>2
<1>11. /\ m \in Seq(Nat) /\ IsInjective(m) /\ Len(m) = Len(list)
       /\ ToSet(m) = (ToSet(list) \ S) \cup {n}
       /\ \A q \in 1..Len(list) : q # p => m[q] = list[q]
       /\ \A A : Without(m, A \cup {n}) = Without(list, A \cup S)
  <2>1. /\ m = [list EXCEPT ![p] = n] /\ list \in Seq(Nat) /\ IsInjective(list)
        /\ p \in 1..Len(list) /\ n \in Nat /\ n \notin ToSet(list)
    BY <1>3, <1>4, <1>8, <1>9 DEF m
  <2>2. Swapped(list, p, n, m)
    BY ONLY <2>1, Replaced
  <2> QED BY <1>8, <2>2 DEF Swapped
<1>12. r.placed \in Seq(Nat) /\ ToSet(r.placed) = P \cup {n}
  BY <1>3, <1>4, <1>10, OneMore
<1>13. over \notin P
  BY <1>4
<1>14. /\ ToSet(m) = (ToSet(u) \ U) \cup (P \cup {n})
       /\ (P \cup {n}) \cap ToSet(u) = {}
  BY <1>3, <1>4, <1>11, <1>13
<1>15. \A q \in 1..Len(u) : u[q] \notin U => m[q] = u[q]
  <2> SUFFICES ASSUME NEW q \in 1..Len(u), u[q] \notin U PROVE m[q] = u[q]
    OBVIOUS
  <2>1. q # p /\ u[q] \notin overs /\ q \in 1..Len(list)
    BY <1>4, <1>6, <1>7
  <2> QED BY <1>4, <1>11, <2>1
<1>16. Without(left, S) = Without(u, U)
  <2> HIDE DEF S, U
  <2>1. Without(Without(u, overs), S) = Without(u, overs \cup S)
    BY <1>3, WithoutTwice
  <2> QED BY <2>1 DEF left, U
<1>17. Without(m, P \cup {n}) = Without(u, U)
  <2>1. Without(m, P \cup {n}) = Without(list, P \cup S)
    BY <1>11
  <2> HIDE DEF S, P, U
  <2>2. Without(Without(list, P), S) = Without(list, P \cup S)
    BY <1>4, WithoutTwice
  <2> QED BY <1>4, <1>16, <2>1, <2>2
<1>18. Without(l, S) = Without(u, U) \o placed
  <2>0. ToSet(placed) \cap S = {}
    BY <1>13
  <2> HIDE DEF S, U
  <2>3. left \in Seq(Nat) /\ placed \in Seq(Nat)
    BY <1>4, <1>6
  <2>1. Without(left \o placed, S) = Without(left, S) \o Without(placed, S)
    BY ONLY <2>3, WithoutJoined
  <2>2. Without(placed, S) = placed
    BY <1>4, <2>0, WithoutNone
  <2> QED BY <1>16, <2>1, <2>2
<1>19. Append(Without(l, S), n) = Without(u, U) \o more
  <2> DEFINE w == Without(u, U)
  <2>1. w \in Seq(Nat)
    BY <1>3, WithoutType
  <2> HIDE DEF w
  <2>3. w \in Seq(Nat) /\ placed \in Seq(Nat) /\ n \in Nat
    BY <1>3, <1>4, <2>1
  <2>2. w \o Append(placed, n) = Append(w \o placed, n)
    BY ONLY <2>3, Joined
  <2> QED BY <1>18, <2>2 DEF w
<1>20. over \in ToSet(l)
  <2>1. ToSet(left \o placed) = ToSet(left) \cup ToSet(placed)
    BY <1>4, <1>6, Joined
  <2> QED BY <1>6, <2>1
<1> HIDE DEF P, more, l
<1>21. PICK mid, after :
         /\ UnitSlot(Book(touched, gone, slots, found), list, over)
               = Book(mid, gone, after, found)
         /\ touched \subseteq mid
         /\ SlotsKnow(mid, gone, after, found, u, Without(l, S), n)
  <2>1. /\ SlotsKnow(touched, gone, slots, found, u, l, n)
        /\ over \in ToSet(u) /\ over \in ToSet(l)
        /\ IndexOf(list, over) = IndexOf(u, over)
    BY <1>5, <1>9, <1>20
  <2>2. Slotted(UnitSlot(Book(touched, gone, slots, found), list, over),
                touched, gone, found, u, Without(l, {over}), n)
    BY ONLY <2>1, UnitSlotKnows
  <2> QED BY <2>2 DEF S, Slotted
<1> HIDE DEF S
<1>22. PICK end :
         /\ UnitIn(Book(mid, gone, after, found), n) = Book(end, gone, after, found)
         /\ mid \subseteq end
         /\ \E t \in end : t.id = n /\ ~t.was
         /\ SlotsKnow(end, gone, after, found, u, Append(Without(l, S), n), n + 1)
  BY <1>21, UnitInSlots
<1> HIDE DEF U
<1>23. /\ r.j = Book(end, gone, after, found)
       /\ r.upgraded = FALSE => after = <<>>
       /\ \A x \in ToSet(r.placed) : \E t \in end : t.id = x /\ ~t.was
       /\ SlotsKnow(end, gone, after, found, u, Without(u, U) \o r.placed, r.next)
  <2>1. \A x \in ToSet(r.placed) : \E t \in end : t.id = x /\ ~t.was
    BY <1>5, <1>12, <1>21, <1>22
  <2>2. j1 = Book(mid, gone, after, found)
    BY <1>5, <1>21 DEF j1
  <2> QED BY <1>10, <1>19, <1>22, <2>1, <2>2
<1>24. Brush(r, found, gone, u, U)
  BY <1>4, <1>10, <1>11, <1>12, <1>14, <1>15, <1>17, <1>23 DEF Brush
<1> QED BY <1>10, <1>24 DEF r, n, U, S

\* The stroke begins, ...
LEMMA BrushBegins ==
    ASSUME NEW j, NEW found, NEW u, NEW n, JournalKnows(j, found, u, n)
    PROVE  Brush([list |-> u, j |-> j, placed |-> <<>>, next |-> n, upgraded |-> FALSE],
                 found, j.gone, u, {})
<1> DEFINE b == [list |-> u, j |-> j, placed |-> <<>>, next |-> n, upgraded |-> FALSE]
           touched == j.touched
           gone == j.gone
<1>1. j = Book(touched, gone, <<>>, found) /\ Knows(found, touched, gone, u, n)
  BY DEF JournalKnows
<1>2. /\ b.list = u /\ b.j = j /\ b.placed = <<>> /\ b.next = n /\ b.upgraded = FALSE
      /\ b = [list |-> b.list, j |-> b.j, placed |-> b.placed, next |-> b.next,
              upgraded |-> b.upgraded]
  OBVIOUS
<1> HIDE DEF b, touched, gone
<1>3. u \in Seq(Nat) /\ IsInjective(u)
  BY <1>1, KnowsList
<1>4. <<>> \in Seq(Nat) /\ ToSet(<<>>) = {} /\ Len(u) \in Nat
  BY <1>3, EmptySeq, LenProperties DEF ToSet
<1>5. Without(u, {}) = u /\ u \o <<>> = u
  <2>1. Without(u, {}) = u
    BY <1>3, WithoutNone
  <2>2. u \o <<>> = u
    BY <1>3, <1>4, Joined
  <2> QED BY <2>1, <2>2
<1>6. Settled(gone, <<>>) = gone
  BY SettledSteps
<1>7. SlotsKnow(touched, gone, <<>>, found, u, u, n)
  BY <1>1, <1>4, <1>6 DEF SlotsKnow
<1>8. /\ b.j = Book(touched, gone, <<>>, found)
      /\ b.upgraded = FALSE => <<>> = <<>>
      /\ \A x \in ToSet(b.placed) : \E t \in touched : t.id = x /\ ~t.was
      /\ SlotsKnow(touched, gone, <<>>, found, u, Without(u, {}) \o b.placed, b.next)
  BY <1>1, <1>2, <1>4, <1>5, <1>7
<1>9. /\ ToSet(b.list) = (ToSet(u) \ {}) \cup ToSet(b.placed)
      /\ ToSet(b.placed) \cap ToSet(u) = {}
      /\ Len(u) <= Len(b.list)
      /\ \A p \in 1..Len(u) : u[p] \notin {} => b.list[p] = u[p]
      /\ Without(b.list, ToSet(b.placed)) = Without(u, {})
      /\ b.upgraded = FALSE => {} = {} /\ b.list = u \o b.placed
  <2>1. ToSet(b.list) = ToSet(u) /\ ToSet(b.placed) = {}
    BY <1>2, <1>4
  <2>2. ToSet(b.list) = (ToSet(u) \ {}) \cup ToSet(b.placed)
    BY <2>1
  <2>3. Len(u) <= Len(b.list) /\ \A p \in 1..Len(u) : b.list[p] = u[p]
    BY <1>2, <1>4
  <2>4. Without(b.list, ToSet(b.placed)) = Without(u, {})
    BY <1>2, <2>1
  <2>5. b.list = u \o b.placed
    BY <1>2, <1>5
  <2> QED BY <2>1, <2>2, <2>3, <2>4, <2>5
<1>10. b.list \in Seq(Nat) /\ IsInjective(b.list) /\ b.placed \in Seq(Nat)
       /\ b.upgraded \in BOOLEAN
  BY <1>2, <1>3, <1>4
<1>11. Brush(b, found, gone, u, {})
  BY <1>2, <1>8, <1>9, <1>10 DEF Brush
<1> QED BY <1>11 DEF b, gone

\* ... and ends.
LEMMA BrushEnds ==
    ASSUME NEW b, NEW found, NEW gone, NEW u, NEW overs, Brush(b, found, gone, u, overs)
    PROVE  /\ JournalKnows(BrushJournal(b), found, BrushList(b), b.next)
           /\ ToSet(b.placed) \subseteq 1..b.next - 1
           /\ BrushList(b) = Without(u, overs) \o b.placed
<1> DEFINE n == b.next
           placed == b.placed
           batch == ToSet(placed)
           left == Without(u, overs)
           l == left \o placed
<1>1. PICK touched, slots :
         /\ b.j = Book(touched, gone, slots, found)
         /\ b.upgraded = FALSE => slots = <<>>
         /\ \A x \in batch : \E t \in touched : t.id = x /\ ~t.was
         /\ SlotsKnow(touched, gone, slots, found, u, l, n)
  BY DEF Brush
<1> DEFINE was == Settled(gone, slots)
<1>2. Knows(found, touched, was, l, n) /\ Heard(found, touched, n)
  BY <1>1 DEF SlotsKnow, Knows
<1>3. u \in Seq(Nat) /\ placed \in Seq(Nat) /\ b.list \in Seq(Nat) /\ b.upgraded \in BOOLEAN
  BY BrushNext DEF Brush
<1>4. left \in Seq(Nat)
  BY <1>3, WithoutType
<1>5. batch \subseteq 1..n - 1
  <2> HIDE DEF left, was, n
  <2>1. ToSet(l) = ToSet(left) \cup batch
    BY <1>3, <1>4, Joined
  <2> HIDE DEF l
  <2>2. ToSet(l) \subseteq 1..n - 1
    BY <1>2, KnowsList
  <2> QED BY <2>1, <2>2
<1>7. BrushList(b) = l
  <2>1. CASE b.upgraded
    BY <2>1 DEF Brush, BrushList
  <2>2. CASE b.upgraded = FALSE
    <3>1. BrushList(b) = b.list /\ overs = {} /\ b.list = u \o placed
      BY <2>2 DEF BrushList, Brush
    <3>2. left = u
      BY <1>3, <3>1, WithoutNone
    <3> QED BY <3>1, <3>2
  <2> QED BY <1>3, <2>1, <2>2
<1>6. JournalKnows(BrushJournal(b), found, BrushList(b), n)
  <2>1. CASE b.upgraded
    <3>1. BrushList(b) = l
      BY <1>7
    <3>2. ASSUME NEW x \in batch PROVE UnitOut(b.j, b.list, x) = b.j
      <4>1. b.j.touched = touched
        BY <1>1 DEF Book
      <4>2. PICK t \in touched : t.id = x /\ ~t.was
        BY <1>1
      <4>3. Seen(b.j, x)
        BY <4>1, <4>2 DEF Seen
      <4>4. Touch(b.j, x) \in touched /\ Touch(b.j, x).id = x
        BY <4>1, <4>3, TouchIs
      <4>5. Touch(b.j, x) = t
        BY <1>2, <4>2, <4>4 DEF Heard
      <4> QED BY <4>2, <4>3, <4>5 DEF UnitOut
    <3>3. BatchOut(b.j, b.list, batch) = b.j
      <4> HIDE DEF batch
      <4> QED BY <1>3, <3>2, BatchOutNew
    <3>4. SlotsSettled(b.j) = Book(touched, was, <<>>, found)
      BY <1>1, SlotsSettledIs
    <3>5. BrushJournal(b) = Book(touched, was, <<>>, found)
      BY <2>1, <3>3, <3>4 DEF BrushJournal
    <3> HIDE DEF was, l, n
    <3>6. JournalKnows(Book(touched, was, <<>>, found), found, l, n)
      BY <1>2, BookKnows
    <3> QED BY <3>1, <3>5, <3>6
  <2>2. CASE b.upgraded = FALSE
    <3>1. BrushList(b) = b.list /\ BrushJournal(b) = b.j
      BY <2>2 DEF BrushList, BrushJournal
    <3>2. slots = <<>> /\ overs = {} /\ b.list = u \o placed
      BY <1>1, <2>2 DEF Brush
    <3>3. was = gone
      BY <3>2, SettledSteps
    <3>4. left = u
      BY <1>3, <3>2, WithoutNone
    <3>5. b.list = l /\ b.j = Book(touched, was, <<>>, found)
      BY <1>1, <3>2, <3>3, <3>4
    <3> HIDE DEF was, l, n
    <3>6. JournalKnows(Book(touched, was, <<>>, found), found, l, n)
      BY <1>2, BookKnows
    <3> QED BY <3>1, <3>5, <3>6
  <2> QED BY <1>3, <2>1, <2>2
<1> QED BY <1>5, <1>6, <1>7

\* The stroke, tile by tile.
LaidBy(f, start, tiles, N) ==
    f = [k \in 0..N |-> IF k > 0 THEN LayLobby(f[k - 1], tiles[k]) ELSE start]

LEMMA LaidMade ==
    ASSUME NEW start, NEW tiles, NEW N \in Nat
    PROVE  \E f : LaidBy(f, start, tiles, N)
<1> DEFINE Goes(f, m) == f = [k \in 0..m |-> IF k > 0 THEN LayLobby(f[k - 1], tiles[k])
                                             ELSE start]
           S == {m \in 0..N : \E f : Goes(f, m)}
<1>1. 0 \in S
  <2> DEFINE f == [k \in 0..0 |-> start]
  <2>1. \A k \in 0..0 : ~(k > 0)
    OBVIOUS
  <2>2. Goes(f, 0) /\ 0 \in 0..N
    BY <2>1
  <2> HIDE DEF f, Goes
  <2> QED BY <2>2
<1>2. ASSUME NEW m \in 1..N, m - 1 \in S PROVE m \in S
  <2>1. PICK f : Goes(f, m - 1)
    BY <1>2
  <2> DEFINE g == [k \in 0..m |-> IF k = m THEN LayLobby(f[m - 1], tiles[m]) ELSE f[k]]
             G(k) == IF k > 0 THEN LayLobby(g[k - 1], tiles[k]) ELSE start
  <2>2. /\ m \in 0..N /\ m > 0 /\ m - 1 \in 0..m /\ m - 1 # m /\ m - 1 \in 0..m - 1
        /\ \A k \in 0..m : k # m => k \in 0..m - 1
        /\ \A k \in 0..m : k # m /\ k > 0 => k - 1 \in 0..m /\ k - 1 # m
    OBVIOUS
  <2>3. /\ \A k \in 0..m : k # m => g[k] = f[k]
        /\ g[m] = LayLobby(f[m - 1], tiles[m])
    BY <2>2
  <2>4. \A k \in 0..m - 1 : f[k] = IF k > 0 THEN LayLobby(f[k - 1], tiles[k]) ELSE start
    BY <2>1
  <2>5. ASSUME NEW k \in 0..m PROVE g[k] = G(k)
    <3> HIDE DEF g
    <3>1. CASE k = m
      <4>1. g[m - 1] = f[m - 1]
        BY <2>2, <2>3
      <4> QED BY <2>2, <2>3, <3>1, <4>1
    <3>2. CASE k # m /\ ~(k > 0)
      BY <2>2, <2>3, <2>4, <3>2
    <3>3. CASE k # m /\ k > 0
      <4>1. g[k - 1] = f[k - 1] /\ g[k] = f[k] /\ k \in 0..m - 1
        BY <2>2, <2>3, <3>3
      <4> QED BY <2>4, <3>3, <4>1
    <3> QED BY <3>1, <3>2, <3>3
  <2>6. g = [k \in 0..m |-> G(k)]
    <3>1. g = [k \in 0..m |-> g[k]]
      OBVIOUS
    <3> HIDE DEF g, G
    <3> QED BY <2>5, <3>1
  <2>7. Goes(g, m)
    <3> HIDE DEF g
    <3> QED BY <2>6
  <2> QED BY <2>2, <2>7
<1>3. 0..N \subseteq S
  <2> HIDE DEF S
  <2> QED BY <1>1, <1>2, InductionTo
<1>4. N \in 0..N
  OBVIOUS
<1> QED BY <1>3, <1>4 DEF LaidBy

\* Each tile lays one lobby.
LEMMA LaysOne ==
    ASSUME NEW b, NEW found, NEW gone, NEW u, NEW overs, Brush(b, found, gone, u, overs),
           NEW over
    PROVE  LayLobby(b, over).placed = Append(b.placed, b.next)
<1>1. b = [list |-> b.list, j |-> b.j, placed |-> b.placed, next |-> b.next,
           upgraded |-> b.upgraded]
  BY DEF Brush
<1> QED BY <1>1 DEF LayLobby

\* The floor tiles among the first k.
Overs(tiles, k) == {tiles[i] : i \in 1..k} \ {0}

LEMMA BrushedKnows ==
    ASSUME JournalKnows(journal, journal.found, units, nextId),
           NEW tiles, Len(tiles) \in Nat,
           \A k \in 1..Len(tiles) : tiles[k] = 0 \/ tiles[k] \in ToSet(units),
           \A i, k \in 1..Len(tiles) : i # k => tiles[i] = 0 \/ tiles[i] # tiles[k]
    PROVE  /\ Brush(Brushed(tiles), journal.found, journal.gone, units,
                    Overs(tiles, Len(tiles)))
           /\ Brushed(tiles).next = nextId + Len(tiles)
           /\ Len(Brushed(tiles).placed) = Len(tiles)
           /\ \A i \in 1..Len(tiles) : Brushed(tiles).placed[i] = nextId + (i - 1)
<1> DEFINE N == Len(tiles)
           start == [list |-> units, j |-> journal, placed |-> <<>>,
                     next |-> nextId, upgraded |-> FALSE]
           G == CHOOSE f : LaidBy(f, start, tiles, N)
           Good(k) == /\ Brush(G[k], journal.found, journal.gone, units, Overs(tiles, k))
                      /\ G[k].next = nextId + k
                      /\ Len(G[k].placed) = k
                      /\ \A i \in 1..k : G[k].placed[i] = nextId + (i - 1)
           S == {k \in 0..N : Good(k)}
<1>1. LaidBy(G, start, tiles, N)
  <2> HIDE DEF start
  <2>1. \E f : LaidBy(f, start, tiles, N)
    BY LaidMade
  <2> QED BY <2>1
<1>2. Brushed(tiles) = G[N]
  BY Zenon DEF Brushed, LaidBy
<1>3. nextId \in Nat
  BY DEF JournalKnows, Knows
<1>4. start.next = nextId /\ Len(start.placed) = 0
  OBVIOUS
<1>5. Brush(start, journal.found, journal.gone, units, {})
  BY BrushBegins
<1> HIDE DEF G, start
<1>6. G[0] = start /\ \A k \in 1..N : G[k] = LayLobby(G[k - 1], tiles[k])
  BY <1>1 DEF LaidBy
<1>7. 0 \in S
  <2>1. Overs(tiles, 0) = {}
    BY DEF Overs
  <2>2. G[0].next = nextId + 0
    BY <1>3, <1>4, <1>6
  <2>5. Len(G[0].placed) = 0 /\ \A i \in 1..0 : G[0].placed[i] = nextId + (i - 1)
    BY <1>4, <1>6
  <2>3. Good(0)
    BY <1>5, <1>6, <2>1, <2>2, <2>5
  <2>4. 0 \in 0..N
    OBVIOUS
  <2> HIDE DEF Good
  <2> QED BY <2>3, <2>4
<1>8. ASSUME NEW k \in 1..N, k - 1 \in S PROVE k \in S
  <2> DEFINE b == G[k - 1]
             over == tiles[k]
             overs == Overs(tiles, k - 1)
  <2>1. /\ Brush(b, journal.found, journal.gone, units, overs)
        /\ b.next = nextId + (k - 1)
        /\ Len(b.placed) = k - 1 /\ \A i \in 1..k - 1 : b.placed[i] = nextId + (i - 1)
    BY <1>8
  <2>2. G[k] = LayLobby(b, over)
    BY <1>6
  <2>3. \A i \in 1..k : i = k \/ i \in 1..k - 1
    OBVIOUS
  <2>4. Overs(tiles, k) = (overs \cup {over}) \ {0}
    BY <2>3 DEF Overs
  <2>5. b.next + 1 = nextId + k
    BY <1>3, <2>1
  <2>7. G[k].placed = Append(b.placed, b.next)
    <3>1. /\ over = 0 => LayLobby(b, over).placed = Append(b.placed, b.next)
          /\ over # 0 => LayLobby(b, over).placed = Append(b.placed, b.next)
      BY LaysOne, <2>1
    <3> QED BY <2>2, <3>1
  <2> HIDE DEF b, overs
  <2>8. Len(G[k].placed) = k /\ \A i \in 1..k : G[k].placed[i] = nextId + (i - 1)
    <3>1. b.placed \in Seq(Nat) /\ b.next \in Nat
      <4>1. b.placed \in Seq(Nat)
        BY <2>1 DEF Brush
      <4>2. k - 1 \in Nat
        OBVIOUS
      <4> QED BY <1>3, <2>1, <4>1, <4>2
    <3> DEFINE p == b.placed
    <3>2. /\ Len(Append(p, b.next)) = Len(p) + 1
          /\ \A i \in 1..Len(p) : Append(p, b.next)[i] = p[i]
          /\ Append(p, b.next)[Len(p) + 1] = b.next
      <4> HIDE DEF p
      <4> QED BY <3>1, OneMore DEF p
    <3>3. Len(p) = k - 1 /\ Len(p) + 1 = k
      BY <2>1
    <3>4. \A i \in 1..k : i = k \/ i \in 1..k - 1
      OBVIOUS
    <3> QED BY <2>1, <2>7, <3>2, <3>3, <3>4
  <2>6. Good(k)
    <3>1. CASE over = 0
      <4>1. /\ Brush(LayLobby(b, 0), journal.found, journal.gone, units, overs)
            /\ LayLobby(b, 0).next = b.next + 1
        BY <2>1, LayFree
      <4>2. Overs(tiles, k) = overs
        BY <2>4, <3>1 DEF overs, Overs
      <4> QED BY <2>2, <2>5, <2>8, <3>1, <4>1, <4>2
    <3>2. CASE over # 0
      <4>1. over \in ToSet(units)
        BY <3>2
      <4>2. over \notin overs
        BY <3>2 DEF overs, Overs
      <4>3. /\ Brush(LayLobby(b, over), journal.found, journal.gone, units,
                     overs \cup {over})
            /\ LayLobby(b, over).next = b.next + 1
        <5> HIDE DEF over
        <5>1. /\ Brush(b, journal.found, journal.gone, units, overs)
              /\ over \in ToSet(units) /\ over \notin overs /\ over # 0
          BY <2>1, <3>2, <4>1, <4>2
        <5> QED BY ONLY <5>1, LayOver
      <4>4. Overs(tiles, k) = overs \cup {over}
        BY <2>4, <3>2 DEF overs, Overs
      <4> QED BY <2>2, <2>5, <2>8, <4>3, <4>4
    <3> QED BY <3>1, <3>2
  <2> QED BY <2>6
<1>9. 0..N \subseteq S
  <2> HIDE DEF S
  <2> QED BY <1>7, <1>8, InductionTo
<1>10. N \in 0..N
  OBVIOUS
<1> QED BY <1>2, <1>9, <1>10

-----------------------------------------------------------------------------
(* The places units are put back at.                                       *)

\* Numbers in order.
LEMMA InOrder ==
    ASSUME NEW A \in SUBSET Nat, NEW N \in Nat, \A a \in A : a < N
    PROVE  /\ Sorted(Ascending(A)) /\ ToSet(Ascending(A)) = A
           /\ Len(Ascending(A)) = Cardinality(A) /\ DOMAIN Ascending(A) = 1..Len(Ascending(A))
           /\ IsFiniteSet(A) /\ Cardinality(A) \in Nat
<1> DEFINE l == [k \in 1..N |-> k - 1]
           R == Nat \ A
           g == Without(l, R)
           n == Len(g)
           K == Cardinality(A)
           s == Ascending(A)
<1>1. l \in [1..N -> Nat]
  OBVIOUS
<1>2. /\ l \in Seq(Nat) /\ Len(l) = N /\ DOMAIN l = 1..N
      /\ \A k \in 1..N : l[k] = k - 1
  <2>1. l \in Seq(Nat)
    BY <1>1, SeqDef
  <2>2. \A k \in 1..N : l[k] = k - 1
    OBVIOUS
  <2>3. DOMAIN l = 1..N
    OBVIOUS
  <2> HIDE DEF l
  <2>4. Len(l) \in Nat /\ DOMAIN l = 1..Len(l)
    BY <2>1, LenProperties
  <2>5. Len(l) = N
    BY <2>3, <2>4
  <2> QED BY <2>1, <2>2, <2>3, <2>5
<1> HIDE DEF l
<1>3. ToSet(l) \ R = A
  <2>1. ASSUME NEW a \in A PROVE a \in ToSet(l)
    <3>1. a + 1 \in 1..N /\ l[a + 1] = a
      BY <1>2
    <3> QED BY <1>2, <3>1 DEF ToSet
  <2>2. ToSet(l) \subseteq Nat
    BY <1>2 DEF ToSet
  <2> QED BY <2>1, <2>2
<1>4. g \in Seq(Nat) /\ ToSet(g) = A
  <2> HIDE DEF R
  <2> QED BY <1>2, <1>3, WithoutType
<1>5. n \in Nat /\ DOMAIN g = 1..n /\ g \in [1..n -> A]
  <2>1. n \in Nat /\ DOMAIN g = 1..n /\ g \in [1..n -> Nat]
    BY <1>4, LenProperties
  <2>2. \A i \in 1..n : g[i] \in A
    BY <1>4, <2>1 DEF ToSet
  <2> HIDE DEF g, n
  <2> QED BY <2>1, <2>2
<1>6. \A a, b \in 1..n : a < b => g[a] < g[b]
  <2> SUFFICES ASSUME NEW a \in 1..n, NEW b \in 1..n, a < b PROVE g[a] < g[b]
    OBVIOUS
  <2> HIDE DEF R
  <2>2. l \in Seq(Nat) /\ a \in 1..Len(Without(l, R)) /\ b \in 1..Len(Without(l, R)) /\ a < b
    BY <1>2
  <2>3. \E p, q \in 1..Len(l) : p < q /\ l[p] = Without(l, R)[a] /\ l[q] = Without(l, R)[b]
    BY ONLY <2>2, WithoutOrder
  <2>1. PICK p, q \in 1..Len(l) : p < q /\ l[p] = g[a] /\ l[q] = g[b]
    BY <2>3
  <2> HIDE DEF g
  <2> QED BY <1>2, <2>1
<1> HIDE DEF g
<1>7. K = n /\ IsFiniteSet(A)
  <2> HIDE DEF n
  <2>1. IsInjective(g)
    <3>1. \A a, b \in 1..n : a < b \/ b < a \/ a = b
      BY <1>5
    <3>2. \A a \in 1..n : g[a] \in Nat
      BY <1>5
    <3>3. ASSUME NEW a \in 1..n, NEW b \in 1..n, g[a] = g[b] PROVE a = b
      BY <1>6, <3>1, <3>2, <3>3
    <3> QED BY <1>5, <3>3 DEF IsInjective
  <2>2. \A a \in A : \E i \in 1..n : g[i] = a
    BY <1>4, <1>5 DEF ToSet
  <2>3. g \in Bijection(1..n, A)
    BY <1>5, <2>1, <2>2 DEF Bijection, Injection, Surjection
  <2>4. ExistsBijection(1..n, A)
    BY <2>3 DEF ExistsBijection
  <2>5. K = n
    BY <1>5, <2>4, FS_CountingElements
  <2>6. IsFiniteSet(A)
    BY <1>5, <2>4, FS_NatBijection
  <2> QED BY <2>5, <2>6
<1> HIDE DEF K
<1>8. s \in [1..K -> A] /\ \A a, b \in DOMAIN s : a < b => s[a] < s[b]
  <2>1. g \in [1..K -> A] /\ \A a, b \in DOMAIN g : a < b => g[a] < g[b]
    BY <1>5, <1>6, <1>7
  <2> QED BY <2>1, Zenon DEF Ascending, K
<1> HIDE DEF s
<1>9. K \in Nat
  BY <1>5, <1>7
<1>10. s \in Seq(Nat) /\ Len(s) = K /\ DOMAIN s = 1..K
  <2>1. s \in [1..K -> Nat]
    BY <1>8
  <2>2. s \in Seq(Nat)
    BY <1>9, <2>1, SeqDef
  <2>3. Len(s) \in Nat /\ DOMAIN s = 1..Len(s) /\ DOMAIN s = 1..K
    BY <1>8, <2>2, LenProperties
  <2>5. \A a, b \in Nat : 1..a = 1..b => a = b
    OBVIOUS
  <2>4. Len(s) = K
    BY <1>9, <2>3, <2>5
  <2> QED BY <2>2, <2>3, <2>4
<1>11. Sorted(s)
  BY <1>8, <1>10 DEF Sorted
<1>12. ToSet(s) = A
  <2>1. IsInjective(s)
    <3>1. \A a, b \in 1..K : a < b \/ b < a \/ a = b
      BY <1>9
    <3>2. \A a \in 1..K : s[a] \in Nat
      BY <1>8
    <3>3. ASSUME NEW a \in 1..K, NEW b \in 1..K, s[a] = s[b] PROVE a = b
      BY <1>8, <1>10, <3>1, <3>2, <3>3
    <3> QED BY <1>10, <3>3 DEF IsInjective
  <2>2. s \in Injection(1..K, A)
    BY <1>8, <2>1 DEF Injection
  <2>3. Cardinality(1..K) = Cardinality(A)
    <3>1. Cardinality(1..K) = IF 1 > K THEN 0 ELSE K - 1 + 1
      BY <1>9, FS_Interval
    <3> QED BY <1>9, <3>1 DEF K
  <2>4. s \in Surjection(1..K, A)
    BY <1>7, <2>2, <2>3, FS_Injection
  <2>5. \A a \in A : \E k \in 1..K : s[k] = a
    BY <2>4 DEF Surjection
  <2> QED BY <1>8, <1>10, <2>5 DEF ToSet
<1> QED BY <1>7, <1>9, <1>10, <1>11, <1>12 DEF s, K

\* Where each lands: the next index, or past the one before it, and no
\* further than the list's end.
Lands(f, ats, m) ==
    f = [k \in 1..Len(ats) |->
            LET past == IF k = 1 THEN 0 ELSE f[k - 1] + 1
                want == IF ats[k] > past THEN ats[k] ELSE past
            IN  IF want < m + k - 1 THEN want ELSE m + k - 1]

\* landing_places() changes no places of a list, when the units that stay
\* and those put back make up the list.
LEMMA LandsThere ==
    ASSUME NEW ats, Sorted(ats), NEW m \in Nat, NEW N \in Nat, m + Len(ats) = N,
           \A a \in ToSet(ats) : a < N
    PROVE  LandingPlaces(ats, m) = ats
<1> DEFINE K == Len(ats)
           Past(f, k) == IF k = 1 THEN 0 ELSE f[k - 1] + 1
           Want(f, k) == IF ats[k] > Past(f, k) THEN ats[k] ELSE Past(f, k)
           Land(f, k) == IF Want(f, k) < m + k - 1 THEN Want(f, k) ELSE m + k - 1
<1>1. K \in Nat /\ ats \in [1..K -> Nat] /\ DOMAIN ats = 1..K
  BY LenProperties DEF Sorted
<1>2. ASSUME NEW f, NEW k \in 1..K, k # 1 => f[k - 1] = ats[k - 1]
      PROVE  Land(f, k) = ats[k]
  <2>1. ats[k] \in Nat
    BY <1>1
  <2>2. Past(f, k) \in Nat /\ Past(f, k) <= ats[k]
    <3>1. CASE k = 1
      BY <2>1, <3>1
    <3>2. CASE k # 1
      <4>1. k - 1 \in 1..K /\ k - 1 < k
        BY <1>1, <3>2
      <4>2. ats[k - 1] \in Nat /\ ats[k - 1] < ats[k]
        BY <1>1, <4>1 DEF Sorted
      <4> QED BY <1>2, <2>1, <3>2, <4>2
    <3> QED BY <3>1, <3>2
  <2>3. Want(f, k) = ats[k]
    <3> DEFINE past == Past(f, k)
    <3>1. past \in Nat /\ past <= ats[k]
      BY <2>2
    <3> HIDE DEF past
    <3>2. (IF ats[k] > past THEN ats[k] ELSE past) = ats[k]
      BY <2>1, <3>1
    <3> QED BY <3>2 DEF past
  <2>4. ats[k] <= m + k - 1
    <3>1. K \in 1..K /\ k <= K
      BY <1>1
    <3>2. ats[k] + (K - k) <= ats[K]
      BY <3>1, SortedGap
    <3>3. ats[K] \in Nat /\ ats[K] < N
      BY <1>1, <3>1 DEF ToSet
    <3> QED BY <1>1, <2>1, <3>1, <3>2, <3>3
  <2> HIDE DEF Want
  <2> QED BY <2>1, <2>3, <2>4
<1>3. Lands(ats, ats, m)
  <2>1. ats = [k \in 1..K |-> ats[k]]
    BY <1>1
  <2>2. \A k \in 1..K : Land(ats, k) = ats[k]
    BY <1>2
  <2> HIDE DEF Land
  <2>3. ats = [k \in 1..K |-> Land(ats, k)]
    BY <2>1, <2>2
  <2> QED BY <2>3 DEF Lands, Land
<1>4. ASSUME NEW f, Lands(f, ats, m) PROVE f = ats
  <2>1. f = [k \in 1..K |-> Land(f, k)]
    BY <1>4 DEF Lands
  <2> DEFINE S == {k \in 0..K : \A i \in 1..k : f[i] = ats[i]}
  <2>2. 0 \in S
    BY <1>1
  <2> HIDE DEF Land
  <2>3. ASSUME NEW k \in 1..K, k - 1 \in S PROVE k \in S
    <3>1. k # 1 => k - 1 \in 1..k - 1
      OBVIOUS
    <3>2. Land(f, k) = ats[k]
      BY <1>2, <2>3, <3>1
    <3>3. f[k] = ats[k]
      BY <2>1, <3>2
    <3>4. \A i \in 1..k : i = k \/ i \in 1..k - 1
      OBVIOUS
    <3>5. \A i \in 1..k : f[i] = ats[i]
      BY <2>3, <3>3, <3>4
    <3> QED BY <3>5
  <2>4. 0..K \subseteq S
    <3> HIDE DEF S
    <3> QED BY <1>1, <2>2, <2>3, InductionTo
  <2>5. K \in 0..K
    BY <1>1
  <2>6. \A k \in 1..K : f[k] = ats[k]
    BY <2>4, <2>5
  <2>7. f = [k \in 1..K |-> f[k]]
    <3>1. DOMAIN f = 1..K /\ f = [k \in DOMAIN f |-> f[k]]
      BY <2>1
    <3> QED BY <3>1
  <2> QED BY <1>1, <2>6, <2>7
<1> DEFINE G == CHOOSE f : Lands(f, ats, m)
<1>5. Lands(G, ats, m)
  BY <1>3
<1>6. LandingPlaces(ats, m) = G
  BY Zenon DEF LandingPlaces, Lands
<1> HIDE DEF G
<1> QED BY <1>4, <1>5, <1>6

-----------------------------------------------------------------------------
(* Steps.                                                                  *)

Outs(images) == {img.id : img \in {i \in images : ~i.put}}
Puts(images) == {img.id : img \in {i \in images : i.put}}

\* The step leads from the list u to the list v: it puts back units of v at
\* their places, takes out units of u, and between them they have the rest.
Leads(step, u, v) ==
    /\ step = [images |-> step.images, to |-> v]
    /\ u \in Seq(Nat) /\ IsInjective(u) /\ v \in Seq(Nat) /\ IsInjective(v)
    /\ step.images \subseteq [id : Nat, at : Nat, put : BOOLEAN]
    /\ \A i, k \in step.images : i.id = k.id => i = k
    /\ \A i \in step.images :
          i.put => i.at < Len(v) /\ v[i.at + 1] = i.id /\ i.id \notin ToSet(u)
    /\ \A i \in step.images : ~i.put => i.id \in ToSet(u) /\ i.id \notin ToSet(v)
    /\ Without(u, Outs(step.images)) = Without(v, Puts(step.images))

\* A list does not change by a step with nothing in it.
LEMMA LeadsNowhere ==
    ASSUME NEW step, NEW u, NEW v, Leads(step, u, v), step.images = {}
    PROVE  u = v
<1>1. Outs(step.images) = {} /\ Puts(step.images) = {}
  BY DEF Outs, Puts
<1>2. u \in Seq(Nat) /\ v \in Seq(Nat) /\ Without(u, {}) = Without(v, {})
  BY <1>1 DEF Leads
<1>3. Without(u, {}) = u /\ Without(v, {}) = v
  BY <1>2, WithoutNone
<1> QED BY <1>2, <1>3

\* A step is never stale for the list it leads from.
LEMMA LeadsFits ==
    ASSUME NEW step, NEW u, NEW v, Leads(step, u, v)
    PROVE  StepFits(step, u)
<1> SUFFICES ASSUME NEW i \in step.images PROVE i.put # (i.id \in ToSet(u))
  BY DEF StepFits
<1>1. i.put \in BOOLEAN
  BY DEF Leads
<1>2. CASE i.put
  <2>1. i.id \notin ToSet(u) /\ i.put = TRUE
    BY <1>1, <1>2 DEF Leads
  <2> QED BY <2>1
<1>3. CASE ~i.put
  <2>1. i.id \in ToSet(u) /\ i.put = FALSE
    BY <1>1, <1>3 DEF Leads
  <2> QED BY <2>1, Zenon
<1> QED BY <1>2, <1>3

\* The images of the opposite step.
Turned(img, u) ==
    [id |-> img.id, put |-> ~img.put, at |-> IF img.put THEN img.at ELSE IndexOf(u, img.id)]

LEMMA OppositeLeads ==
    ASSUME NEW step, NEW u, NEW v, Leads(step, u, v)
    PROVE  Leads(Opposite(step, u), v, u)
<1> DEFINE I == step.images
           O == {Turned(img, u) : img \in I}
<1>1. /\ u \in Seq(Nat) /\ IsInjective(u) /\ v \in Seq(Nat) /\ IsInjective(v)
      /\ I \subseteq [id : Nat, at : Nat, put : BOOLEAN]
      /\ \A i, k \in I : i.id = k.id => i = k
      /\ \A i \in I :
            i.put => i.at < Len(v) /\ v[i.at + 1] = i.id /\ i.id \notin ToSet(u)
      /\ \A i \in I : ~i.put => i.id \in ToSet(u) /\ i.id \notin ToSet(v)
      /\ Without(u, Outs(I)) = Without(v, Puts(I))
  BY DEF Leads
<1>2. Opposite(step, u) = [images |-> O, to |-> u]
  BY DEF Opposite, Turned
<1>3. /\ Len(u) \in Nat /\ DOMAIN u = 1..Len(u)
      /\ Len(v) \in Nat /\ DOMAIN v = 1..Len(v)
  BY <1>1, LenProperties
<1>4. ASSUME NEW i \in I
      PROVE  /\ i.id \in Nat /\ i.at \in Nat /\ i.put \in BOOLEAN
             /\ i.put => /\ i.at < Len(v) /\ v[i.at + 1] = i.id /\ i.id \notin ToSet(u)
                         /\ i.id \in ToSet(v)
             /\ ~i.put => /\ i.id \in ToSet(u) /\ i.id \notin ToSet(v)
                          /\ IndexOf(u, i.id) \in Nat /\ IndexOf(u, i.id) < Len(u)
                          /\ u[IndexOf(u, i.id) + 1] = i.id
  <2>1. i.id \in Nat /\ i.at \in Nat /\ i.put \in BOOLEAN
    BY <1>1
  <2>2. CASE i.put
    <3>1. i.at < Len(v) /\ v[i.at + 1] = i.id /\ i.id \notin ToSet(u)
      BY <1>1, <2>2
    <3>2. i.at + 1 \in 1..Len(v)
      BY <1>3, <2>1, <3>1
    <3>3. i.id \in ToSet(v)
      BY <1>3, <3>1, <3>2 DEF ToSet
    <3> QED BY <2>1, <2>2, <3>1, <3>3
  <2>3. CASE ~i.put
    <3>1. i.id \in ToSet(u) /\ i.id \notin ToSet(v)
      BY <1>1, <2>3
    <3>2. PICK p \in 1..Len(u) : u[p] = i.id
      BY <1>3, <3>1 DEF ToSet
    <3>3. IndexOf(u, u[p]) = p - 1
      BY <1>1, IndexOfIs
    <3>4. p - 1 \in Nat /\ p - 1 < Len(u) /\ p - 1 + 1 = p
      BY <1>3
    <3> QED BY <2>1, <2>3, <3>1, <3>2, <3>3, <3>4
  <2> QED BY <2>2, <2>3
<1>5. ASSUME NEW i \in I
      PROVE  LET o == Turned(i, u)
             IN  /\ o \in [id : Nat, at : Nat, put : BOOLEAN]
                 /\ o.id = i.id /\ o.put = ~i.put
                 /\ i.put => ~o.put
                 /\ ~i.put => o.put /\ o.at = IndexOf(u, i.id)
  <2> DEFINE at == IF i.put THEN i.at ELSE IndexOf(u, i.id)
             o == Turned(i, u)
  <2>1. at \in Nat
    BY <1>4
  <2>2. ~i.put => at = IndexOf(u, i.id)
    OBVIOUS
  <2>3. o = [id |-> i.id, put |-> ~i.put, at |-> at]
    BY DEF Turned
  <2> HIDE DEF at
  <2>4. o.id = i.id /\ o.put = ~i.put /\ o.at = at
    BY <2>3
  <2>5. o \in [id : Nat, at : Nat, put : BOOLEAN]
    BY <1>4, <2>1, <2>3
  <2> HIDE DEF o
  <2>6. i.put => ~o.put
    BY <2>4
  <2>7. ~i.put => o.put
    BY <2>4
  <2> QED BY <2>2, <2>4, <2>5, <2>6, <2>7 DEF o
<1>6. O \subseteq [id : Nat, at : Nat, put : BOOLEAN]
  BY <1>5
<1>7. \A i, k \in O : i.id = k.id => i = k
  BY <1>1, <1>5
<1>8. ASSUME NEW o \in O
      PROVE  /\ o.put => o.at < Len(u) /\ u[o.at + 1] = o.id /\ o.id \notin ToSet(v)
             /\ ~o.put => o.id \in ToSet(v) /\ o.id \notin ToSet(u)
  <2>1. PICK i \in I : o = Turned(i, u)
    OBVIOUS
  <2>2. i.put \in BOOLEAN
    BY <1>4
  <2>3. CASE i.put
    <3>1. ~o.put /\ o.id = i.id
      BY <1>5, <2>1, <2>3
    <3> QED BY <1>4, <2>3, <3>1
  <2>4. CASE ~i.put
    <3>1. o.put /\ o.id = i.id /\ o.at = IndexOf(u, i.id)
      BY <1>5, <2>1, <2>4
    <3> QED BY <1>4, <2>4, <3>1
  <2> QED BY <2>3, <2>4
<1>9. Outs(O) = Puts(I) /\ Puts(O) = Outs(I)
  <2>1. ASSUME NEW i \in I
        PROVE  /\ Turned(i, u).id = i.id /\ (Turned(i, u).put <=> ~i.put)
               /\ Turned(i, u) \in O
    BY <1>4, <1>5
  <2>2. Outs(O) \subseteq Puts(I) /\ Puts(O) \subseteq Outs(I)
    BY <2>1 DEF Outs, Puts
  <2>3. Puts(I) \subseteq Outs(O) /\ Outs(I) \subseteq Puts(O)
    <3> HIDE DEF O
    <3> QED BY <2>1 DEF Outs, Puts
  <2> QED BY <2>2, <2>3
<1> HIDE DEF O
<1>10. Without(v, Outs(O)) = Without(u, Puts(O))
  BY <1>1, <1>9
<1>11. Opposite(step, u).images = O /\ Opposite(step, u).to = u
  BY <1>2
<1> QED BY <1>1, <1>2, <1>6, <1>7, <1>8, <1>10, <1>11 DEF Leads

\* The list with units put in at the landing places of `ats`.
Inserted(list, images, ats, lands) ==
    [p \in 1..Len(list) + Cardinality(images) |->
        IF \E k \in DOMAIN lands : lands[k] = p - 1
        THEN (CHOOSE img \in images :
                \E k \in DOMAIN ats : lands[k] = p - 1 /\ ats[k] = img.at).id
        ELSE list[p - Cardinality({k \in DOMAIN lands : lands[k] < p - 1})]]

\* Applied, it makes the list it leads to.
LEMMA AppliedIs ==
    ASSUME NEW step, NEW u, NEW v, Leads(step, u, v)
    PROVE  Applied(step, u) = v
<1> DEFINE I == step.images
           P == {img \in I : img.put}
           A == {img.at : img \in P}
           ats == Ascending(A)
           R == Without(u, Outs(I))
           Landed(p) == \E k \in DOMAIN ats : ats[k] = p - 1
           Lander(p) == CHOOSE img \in P : \E k \in DOMAIN ats : ats[k] = p - 1 /\ ats[k] = img.at
           Before(p) == {k \in DOMAIN ats : ats[k] < p - 1}
<1>1. /\ u \in Seq(Nat) /\ v \in Seq(Nat) /\ IsInjective(v)
      /\ I \subseteq [id : Nat, at : Nat, put : BOOLEAN]
      /\ \A i, k \in I : i.id = k.id => i = k
      /\ \A i \in P : i.at < Len(v) /\ v[i.at + 1] = i.id
      /\ R = Without(v, Puts(I))
  BY DEF Leads
<1>2. Len(v) \in Nat /\ DOMAIN v = 1..Len(v) /\ v \in [1..Len(v) -> Nat]
  BY <1>1, LenProperties
<1>3. A \in SUBSET Nat /\ \A a \in A : a < Len(v)
  BY <1>1
<1>4. /\ Sorted(ats) /\ ToSet(ats) = A /\ Len(ats) = Cardinality(A)
      /\ DOMAIN ats = 1..Len(ats) /\ IsFiniteSet(A)
  <2> HIDE DEF A
  <2> QED BY <1>2, <1>3, InOrder
<1>5. Len(ats) \in Nat /\ ats \in Seq(Nat)
  BY <1>4, LenProperties DEF Sorted
<1>6. Cardinality(P) = Len(ats)
  <2> DEFINE f == [img \in P |-> img.at]
  <2>1. f \in [P -> A]
    OBVIOUS
  <2>2. \A a \in A : \E img \in P : f[img] = a
    OBVIOUS
  <2>3. ASSUME NEW i \in P, NEW k \in P, f[i] = f[k] PROVE i = k
    <3>1. i.at = k.at
      BY <2>3
    <3>2. i.id = k.id
      BY <1>1, <3>1
    <3> QED BY <1>1, <3>2
  <2>4. DOMAIN f = P
    OBVIOUS
  <2> HIDE DEF f, P, A
  <2>5. IsInjective(f)
    BY <2>3, <2>4 DEF IsInjective
  <2>6. f \in Injection(P, A) /\ f \in Surjection(P, A)
    BY <2>1, <2>2, <2>5 DEF Injection, Surjection
  <2>7. Cardinality(P) = Cardinality(A)
    BY <1>4, <2>6, FS_Injection
  <2> QED BY <1>4, <2>7
<1>7. Places(v, ats)
  BY <1>1, <1>3, <1>4 DEF Places
<1>8. Puts(I) = Taken(v, ats)
  <2>1. \A i \in P : v[i.at + 1] = i.id
    BY <1>1
  <2>2. Puts(I) = {i.id : i \in P}
    BY DEF Puts
  <2>3. Taken(v, ats) = {v[a + 1] : a \in A}
    BY <1>4 DEF Taken
  <2> HIDE DEF P, ats
  <2> QED BY <2>1, <2>2, <2>3
<1> HIDE DEF ats, A
<1>9. /\ Len(R) + Len(ats) = Len(v)
      /\ \A o \in 0..Len(v) - 1, c \in Nat :
            /\ o \notin ToSet(ats)
            /\ Below(ats, o, c)
            => o - c + 1 \in 1..Len(R) /\ R[o - c + 1] = v[o + 1]
  <2> DEFINE W == Without(v, Taken(v, ats))
  <2>1. /\ Len(W) + Len(ats) = Len(v)
        /\ \A o \in 0..Len(v) - 1, c \in Nat :
              /\ o \notin ToSet(ats)
              /\ Below(ats, o, c)
              => o - c + 1 \in 1..Len(W) /\ W[o - c + 1] = v[o + 1]
    BY <1>7, PlaceLeft
  <2>2. R = W
    BY <1>1, <1>8
  <2> HIDE DEF R, W
  <2> QED BY <2>1, <2>2
<1>10. Len(R) \in Nat
  BY <1>1, WithoutType, LenProperties
<1> HIDE DEF R
<1>11. LandingPlaces(ats, Len(R)) = ats
  BY <1>2, <1>3, <1>4, <1>9, <1>10, LandsThere
<1>12. Applied(step, u) = [p \in 1..Len(v) |-> IF Landed(p) THEN Lander(p).id
                                                 ELSE R[p - Cardinality(Before(p))]]
  <2>1. Applied(step, u) = InsertUnits(R, P)
    BY DEF Applied, Outs, R
  <2>2. InsertUnits(R, P) =
           [p \in 1..Len(R) + Cardinality(P) |->
              IF Landed(p) THEN Lander(p).id ELSE R[p - Cardinality(Before(p))]]
    <3> HIDE DEF P
    <3>1. InsertUnits(R, P) = Inserted(R, P, ats, LandingPlaces(ats, Len(R)))
      BY Zenon DEF InsertUnits, Inserted, ats, A
    <3>2. InsertUnits(R, P) = Inserted(R, P, ats, ats)
      BY <1>11, <3>1
    <3> QED BY <3>2 DEF Inserted
  <2> QED BY <1>6, <1>9, <2>1, <2>2
<1>13. ASSUME NEW p \in 1..Len(v)
       PROVE  (IF Landed(p) THEN Lander(p).id ELSE R[p - Cardinality(Before(p))]) = v[p]
  <2>0. p - 1 \in 0..Len(v) - 1 /\ p - 1 \in Nat /\ (p - 1) + 1 = p
    BY <1>2
  <2>1. CASE Landed(p)
    <3>1. PICK k \in DOMAIN ats : ats[k] = p - 1
      BY <2>1
    <3>2. p - 1 \in A
      BY <1>4, <3>1 DEF ToSet
    <3>3. PICK i \in P : i.at = p - 1
      BY <3>2 DEF A
    <3>4. \E img \in P : \E n \in DOMAIN ats : ats[n] = p - 1 /\ ats[n] = img.at
      BY <3>1, <3>3
    <3> DEFINE m == Lander(p)
    <3>5. m \in P /\ m.at = p - 1
      <4>1. m \in P /\ \E n \in DOMAIN ats : ats[n] = p - 1 /\ ats[n] = m.at
        <5> HIDE DEF P
        <5> QED BY <3>4, Zenon
      <4> HIDE DEF m, P
      <4> QED BY <4>1
    <3> HIDE DEF m
    <3>6. m.id = v[p]
      BY <1>1, <2>0, <3>5
    <3> QED BY <2>1, <3>6 DEF m
  <2>2. CASE ~Landed(p)
    <3>1. PICK c : Below(ats, p - 1, c)
      BY <1>4, <2>0, BelowExists
    <3>2. c \in 0..Len(ats) /\ \A k \in 1..Len(ats) : ats[k] < p - 1 <=> k <= c
      BY <3>1 DEF Below
    <3>3. Before(p) = 1..c
      BY <1>4, <1>5, <3>2
    <3>4. Cardinality(1..c) = c
      <4>1. Cardinality(1..c) = IF 1 > c THEN 0 ELSE c - 1 + 1
        BY <1>5, <3>2, FS_Interval
      <4> QED BY <1>5, <3>2, <4>1
    <3>5. p - 1 \notin ToSet(ats)
      BY <1>4, <2>2 DEF ToSet
    <3>6. R[(p - 1) - c + 1] = v[(p - 1) + 1]
      BY <1>5, <1>9, <2>0, <3>1, <3>2, <3>5
    <3>7. (p - 1) - c + 1 = p - c
      BY <1>5, <3>2
    <3>8. R[p - Cardinality(Before(p))] = v[p]
      <4> HIDE DEF Before
      <4> QED BY <2>0, <3>3, <3>4, <3>6, <3>7
    <3> QED BY <2>2, <3>8
  <2> QED BY <2>1, <2>2
<1>14. v = [p \in 1..Len(v) |-> v[p]]
  BY <1>2
<1> DEFINE Item(p) == IF Landed(p) THEN Lander(p).id ELSE R[p - Cardinality(Before(p))]
<1>15. Applied(step, u) = [p \in 1..Len(v) |-> Item(p)] /\ \A p \in 1..Len(v) : Item(p) = v[p]
  BY <1>12, <1>13
<1> HIDE DEF Item
<1> QED BY <1>14, <1>15

\* A list of items of S is one of a smaller set that has them all.
LEMMA SeqWithin ==
    ASSUME NEW l \in Seq(Nat), NEW S, ToSet(l) \subseteq S
    PROVE  l \in Seq(S)
<1>1. Len(l) \in Nat /\ DOMAIN l = 1..Len(l) /\ l \in [1..Len(l) -> Nat]
  BY LenProperties
<1>2. \A k \in 1..Len(l) : l[k] \in S
  BY <1>1 DEF ToSet
<1>3. l \in [1..Len(l) -> S]
  BY <1>1, <1>2
<1> QED BY <1>1, <1>3, SeqDef

\* A gesture closes into a step that leads from the list as it is to the
\* list it found.
LEMMA StepOfLeads ==
    ASSUME NEW j, NEW found, NEW l, NEW n, JournalKnows(j, found, l, n)
    PROVE  Leads(StepOf(j, l), l, found)
<1> DEFINE touched == j.touched
           gone == j.gone
           T == {t \in touched : t.was # (t.id \in ToSet(l))}
           Image(t) == [id |-> t.id, at |-> t.at, put |-> t.was]
           I == {Image(t) : t \in T}
           W == Without(found, Taken(found, gone))
<1>1. j = Book(touched, gone, <<>>, found) /\ Knows(found, touched, gone, l, n)
  BY DEF JournalKnows
<1>2. StepOf(j, l) = [images |-> I, to |-> found]
  <2>1. j.found = found
    BY <1>1 DEF Book
  <2> QED BY <2>1 DEF StepOf
<1> HIDE DEF touched, gone
<1>3. /\ l \in Seq(Nat) /\ IsInjective(l)
      /\ \A x \in ToSet(found) : x \in ToSet(l) <=> x \notin Taken(found, gone)
  BY <1>1, KnowsList
<1>4. PICK fresh : Laid(found, touched, gone, l, fresh)
  BY <1>1 DEF Knows
<1>5. /\ found \in Seq(Nat) /\ IsInjective(found) /\ Heard(found, touched, n)
      /\ Places(found, gone)
      /\ \A x \in Taken(found, gone) : Among(touched, x)
      /\ fresh \in Seq(Nat) /\ \A x \in ToSet(fresh) : x \notin ToSet(found) /\ Among(touched, x)
      /\ l = W \o fresh
  BY <1>1, <1>4 DEF Knows, Laid, Places
<1>6. Taken(found, gone) \subseteq ToSet(found)
  BY <1>5, TakenAt
<1>7. W \in Seq(Nat) /\ ToSet(W) = ToSet(found) \ Taken(found, gone)
  BY <1>5, WithoutType
<1> HIDE DEF W
<1>8. ToSet(l) = ToSet(W) \cup ToSet(fresh)
  BY <1>5, <1>7, Joined
<1>9. Len(found) \in Nat /\ DOMAIN found = 1..Len(found)
  BY <1>5, LenProperties
<1>10. ASSUME NEW t \in touched
       PROVE  /\ t.id \in Nat /\ t.at \in Nat /\ t.was \in BOOLEAN
              /\ t.was => /\ t.at < Len(found) /\ found[t.at + 1] = t.id
                          /\ t.id \in ToSet(found)
              /\ ~t.was => t.id \notin ToSet(found)
  <2>1. /\ t.id \in 1..n - 1 /\ t.at \in Nat /\ t.was \in BOOLEAN
        /\ t.was => t.at < Len(found) /\ found[t.at + 1] = t.id
        /\ ~t.was => t.id \notin ToSet(found)
    BY <1>5 DEF Heard
  <2>2. CASE t.was
    <3>1. t.at + 1 \in 1..Len(found) /\ found[t.at + 1] = t.id
      BY <1>9, <2>1, <2>2
    <3>2. t.id \in ToSet(found)
      BY <1>9, <3>1 DEF ToSet
    <3> QED BY <2>1, <2>2, <3>2
  <2>3. CASE ~t.was
    BY <2>1, <2>3
  <2> QED BY <2>2, <2>3
<1>11. ASSUME NEW t \in touched
       PROVE  t \in T <=> (t.was /\ t.id \notin ToSet(l)) \/ (~t.was /\ t.id \in ToSet(l))
  <2>1. t.was = TRUE \/ t.was = FALSE
    BY <1>10
  <2>2. CASE t.was = TRUE /\ t.id \notin ToSet(l)
    <3>1. t.was # (t.id \in ToSet(l))
      BY <2>2
    <3> QED BY <2>2, <3>1
  <2>3. CASE t.was = FALSE /\ t.id \in ToSet(l)
    <3>1. t.was # (t.id \in ToSet(l))
      BY <2>3, Zenon
    <3> QED BY <2>3, <3>1
  <2>4. CASE t.was = TRUE /\ t.id \in ToSet(l)
    <3>1. t.was = (t.id \in ToSet(l))
      BY <2>4, Zenon
    <3> QED BY <2>4, <3>1
  <2>5. CASE t.was = FALSE /\ t.id \notin ToSet(l)
    <3>1. t.was = (t.id \in ToSet(l))
      <4> DEFINE P == t.id \in ToSet(l)
      <4>1. P \in BOOLEAN /\ ~P
        BY <2>5
      <4> HIDE DEF P
      <4>2. P = FALSE
        BY <4>1
      <4>3. t.was = P
        BY <2>5, <4>2
      <4> QED BY <4>3 DEF P
    <3> QED BY <2>5, <3>1
  <2> QED BY <2>1, <2>2, <2>3, <2>4, <2>5
<1>12. \A t \in touched : Image(t).id = t.id /\ Image(t).put = t.was /\ Image(t).at = t.at
  OBVIOUS
<1>13. T \subseteq touched
  OBVIOUS
<1> HIDE DEF T
<1>14. I \subseteq [id : Nat, at : Nat, put : BOOLEAN]
  BY <1>10, <1>13
<1>15. \A i, k \in I : i.id = k.id => i = k
  <2>1. \A t, u \in touched : t.id = u.id => t = u
    BY <1>5 DEF Heard
  <2> QED BY <1>12, <1>13, <2>1
<1>16. \A i \in I :
          i.put => i.at < Len(found) /\ found[i.at + 1] = i.id /\ i.id \notin ToSet(l)
  BY <1>10, <1>11, <1>12, <1>13
<1>17. \A i \in I : ~i.put => i.id \in ToSet(l) /\ i.id \notin ToSet(found)
  BY <1>10, <1>11, <1>12, <1>13
<1>18. Outs(I) = {t.id : t \in {x \in T : ~x.was}} /\ Puts(I) = {t.id : t \in {x \in T : x.was}}
  <2>1. \A t \in T : Image(t) \in I /\ Image(t).id = t.id /\ (Image(t).put <=> t.was)
    BY <1>12, <1>13
  <2>2. \A i \in I : \E t \in T : i = Image(t)
    OBVIOUS
  <2> HIDE DEF I, Image
  <2>3. Outs(I) = {t.id : t \in {x \in T : ~x.was}}
    BY <2>1, <2>2 DEF Outs
  <2>4. Puts(I) = {t.id : t \in {x \in T : x.was}}
    BY <2>1, <2>2 DEF Puts
  <2> QED BY <2>3, <2>4
<1>19. Outs(I) = ToSet(fresh)
  <2>1. ASSUME NEW t \in T, ~t.was PROVE t.id \in ToSet(fresh)
    <3>1. t.id \in ToSet(l) /\ t.id \notin ToSet(found)
      BY <1>10, <1>11, <1>13, <2>1
    <3> QED BY <1>7, <1>8, <3>1
  <2>2. ASSUME NEW x \in ToSet(fresh) PROVE \E t \in T : ~t.was /\ t.id = x
    <3>1. PICK t \in touched : t.id = x
      BY <1>5 DEF Among
    <3>2. x \notin ToSet(found) /\ x \in ToSet(l)
      BY <1>5, <1>8
    <3>3. ~t.was
      BY <1>10, <3>1, <3>2
    <3>4. t \in T
      BY <1>11, <3>1, <3>2, <3>3
    <3> QED BY <3>1, <3>3, <3>4
  <2> HIDE DEF I
  <2> QED BY <1>18, <2>1, <2>2
<1>20. Puts(I) = Taken(found, gone)
  <2>1. ASSUME NEW t \in T, t.was PROVE t.id \in Taken(found, gone)
    <3>1. t.id \notin ToSet(l) /\ t.id \in ToSet(found)
      BY <1>10, <1>11, <1>13, <2>1
    <3> QED BY <1>3, <3>1
  <2>2. ASSUME NEW x \in Taken(found, gone) PROVE \E t \in T : t.was /\ t.id = x
    <3>1. PICK t \in touched : t.id = x
      BY <1>5 DEF Among
    <3>2. x \in ToSet(found) /\ x \notin ToSet(l)
      BY <1>3, <1>6
    <3>3. t.was
      BY <1>10, <3>1, <3>2
    <3>4. t \in T
      BY <1>11, <3>1, <3>2, <3>3
    <3> QED BY <3>1, <3>3, <3>4
  <2> HIDE DEF I
  <2> QED BY <1>18, <2>1, <2>2
<1>21. Without(l, ToSet(fresh)) = W
  <2> DEFINE F == ToSet(fresh)
  <2>1. ToSet(W) \cap F = {} /\ ToSet(fresh) \subseteq F
    BY <1>5, <1>7
  <2> HIDE DEF F
  <2>2. W \in Seq(Nat) /\ fresh \in Seq(Nat)
    BY <1>5, <1>7
  <2>3. Without(W \o fresh, F) = Without(W, F) \o Without(fresh, F)
    BY ONLY <2>2, WithoutJoined
  <2>4. Without(W, F) = W
    BY <2>1, <2>2, WithoutNone
  <2>5. Without(fresh, F) = <<>>
    BY <2>1, <2>2, WithoutAll
  <2>6. W \o <<>> = W
    BY <2>2, Joined
  <2> QED BY <1>5, <2>3, <2>4, <2>5, <2>6 DEF F
<1>22. Without(l, Outs(I)) = Without(found, Puts(I))
  BY <1>19, <1>20, <1>21 DEF W
<1> HIDE DEF I
<1>23. StepOf(j, l).images = I /\ StepOf(j, l).to = found
  BY <1>2
<1> QED BY <1>2, <1>3, <1>5, <1>14, <1>15, <1>16, <1>17, <1>22, <1>23 DEF Leads

-----------------------------------------------------------------------------
(* The steps of a stack lead from list to list, down to the oldest.        *)

StepSet == [images : SUBSET [id : Nat, at : Nat, put : BOOLEAN], to : Seq(Nat)]

Path(s, base, n) ==
    /\ s \in Seq(StepSet)
    /\ \A m \in 1..Len(s) :
          /\ Leads(s[m], IF m = Len(s) THEN base ELSE s[m + 1].to, s[m].to)
          /\ ToSet(s[m].to) \subseteq 1..n - 1

Trail(s, base, n) == Path(s, base, n) /\ Len(s) <= UndoCap

\* The lists the steps of a stack lead to.
Tos(s) == [k \in DOMAIN s |-> s[k].to]

LEMMA LeadsType ==
    ASSUME NEW step, NEW u, NEW v, Leads(step, u, v)
    PROVE  step \in StepSet /\ step.to = v
BY DEF Leads, StepSet

LEMMA TrailNone ==
    ASSUME NEW base, NEW n
    PROVE  Trail(<<>>, base, n) /\ Tos(<<>>) = <<>>
<1>1. <<>> \in Seq(StepSet) /\ Len(<<>>) = 0
  BY EmptySeq
<1>2. Len(<<>>) <= UndoCap
  BY <1>1, ListAssumption
<1>3. Tos(<<>>) = <<>>
  BY DEF Tos
<1> QED BY <1>1, <1>2, <1>3 DEF Trail, Path

\* More ids are handed out.
LEMMA TrailMore ==
    ASSUME NEW s, NEW base, NEW n \in Nat, NEW m \in Nat, n <= m, Trail(s, base, n)
    PROVE  Trail(s, base, m)
<1>1. 1..n - 1 \subseteq 1..m - 1
  OBVIOUS
<1> QED BY <1>1 DEF Trail, Path

\* A sequence with one more on top.
LEMMA OnTop ==
    ASSUME NEW S, NEW s \in Seq(S), NEW x \in S
    PROVE  /\ Append(s, x) \in Seq(S) /\ Len(Append(s, x)) = Len(s) + 1
           /\ Append(s, x)[Len(s) + 1] = x
           /\ \A m \in 1..Len(s) : Append(s, x)[m] = s[m]
  OBVIOUS

\* A sequence without its oldest, ...
LEMMA NoOldest ==
    ASSUME NEW S, NEW s \in Seq(S), s # <<>>
    PROVE  /\ Tail(s) \in Seq(S) /\ Len(Tail(s)) = Len(s) - 1
           /\ Len(s) \in Nat \ {0}
           /\ \A m \in 1..Len(s) - 1 : Tail(s)[m] = s[m + 1]
  OBVIOUS

\* ... and without its newest.
LEMMA NoNewest ==
    ASSUME NEW S, NEW s \in Seq(S), s # <<>>
    PROVE  /\ Front(s) \in Seq(S) /\ Len(Front(s)) = Len(s) - 1
           /\ Len(s) \in Nat \ {0}
           /\ \A m \in 1..Len(s) - 1 : Front(s)[m] = s[m]
           /\ Last(s) = s[Len(s)] /\ Last(s) \in S
<1> DEFINE n == Len(s)
           f == SubSeq(s, 1, n - 1)
<1>1. n \in Nat \ {0} /\ \A i \in 1..n : s[i] \in S
  BY EmptySeq, ElementOfSeq
<1>2. /\ f \in Seq(S) /\ Len(f) = (IF 1 <= n - 1 THEN (n - 1) - 1 + 1 ELSE 0)
      /\ \A i \in 1..(n - 1) - 1 + 1 : f[i] = s[1 + i - 1]
  <2> HIDE DEF n
  <2>1. \A i \in 1..n - 1 : s[i] \in S
    BY <1>1
  <2> QED BY <1>1, <2>1, SubSeqProperties
<1> HIDE DEF f
<1>3. Len(f) = n - 1 /\ \A i \in 1..n - 1 : f[i] = s[i]
  <2> HIDE DEF n
  <2>1. Len(f) = n - 1
    BY <1>1, <1>2
  <2>2. \A i \in 1..n - 1 : i \in 1..(n - 1) - 1 + 1 /\ 1 + i - 1 = i
    BY <1>1
  <2> QED BY <1>2, <2>1, <2>2
<1>4. n \in 1..n
  BY <1>1
<1> QED BY <1>1, <1>2, <1>3, <1>4 DEF f, Front, Last

\* A step that leads to where the path begins goes on top of it.
LEMMA PathOnTop ==
    ASSUME NEW s, NEW w, NEW v, NEW n, NEW step, Path(s, w, n), Leads(step, v, w),
           ToSet(w) \subseteq 1..n - 1
    PROVE  Path(Append(s, step), v, n)
<1> DEFINE a == Append(s, step)
           k == Len(s)
<1>1. s \in Seq(StepSet) /\ k \in Nat /\ step \in StepSet /\ step.to = w
  BY LeadsType, LenProperties DEF Path
<1>2. /\ a \in Seq(StepSet) /\ Len(a) = k + 1 /\ a[k + 1] = step
      /\ \A m \in 1..k : a[m] = s[m]
  BY <1>1, OnTop
<1>3. \A m \in 1..k : /\ Leads(s[m], IF m = k THEN w ELSE s[m + 1].to, s[m].to)
                      /\ ToSet(s[m].to) \subseteq 1..n - 1
  BY DEF Path
<1> HIDE DEF a, k
<1>4. ASSUME NEW m \in 1..k + 1
      PROVE  /\ Leads(a[m], IF m = k + 1 THEN v ELSE a[m + 1].to, a[m].to)
             /\ ToSet(a[m].to) \subseteq 1..n - 1
  <2>1. CASE m = k + 1
    BY <1>1, <1>2, <2>1
  <2>2. CASE m # k + 1
    <3>1. m \in 1..k /\ m # k + 1
      BY <1>1, <2>2
    <3>2. a[m + 1].to = IF m = k THEN w ELSE s[m + 1].to
      <4>1. m # k => m + 1 \in 1..k
        BY <1>1, <3>1
      <4> QED BY <1>1, <1>2, <4>1
    <3> QED BY <1>2, <1>3, <3>1, <3>2
  <2> QED BY <2>1, <2>2
<1>5. Path(a, v, n)
  BY <1>2, <1>4 DEF Path
<1> QED BY <1>5 DEF a

\* The oldest step may go.
LEMMA PathTail ==
    ASSUME NEW s, NEW w, NEW n, Path(s, w, n), s # <<>>
    PROVE  Path(Tail(s), w, n)
<1> DEFINE a == Tail(s)
           k == Len(s)
<1>1. s \in Seq(StepSet) /\ k \in Nat \ {0}
  BY NoOldest DEF Path
<1>2. /\ a \in Seq(StepSet) /\ Len(a) = k - 1
      /\ \A m \in 1..k - 1 : a[m] = s[m + 1]
  BY <1>1, NoOldest
<1>3. \A m \in 1..k : /\ Leads(s[m], IF m = k THEN w ELSE s[m + 1].to, s[m].to)
                      /\ ToSet(s[m].to) \subseteq 1..n - 1
  BY DEF Path
<1> HIDE DEF a, k
<1>4. ASSUME NEW m \in 1..k - 1
      PROVE  /\ Leads(a[m], IF m = k - 1 THEN w ELSE a[m + 1].to, a[m].to)
             /\ ToSet(a[m].to) \subseteq 1..n - 1
  <2>1. m + 1 \in 1..k /\ (m + 1 = k <=> m = k - 1)
    BY <1>1
  <2>2. /\ Leads(s[m + 1], IF m + 1 = k THEN w ELSE s[(m + 1) + 1].to, s[m + 1].to)
        /\ ToSet(s[m + 1].to) \subseteq 1..n - 1
    BY <1>3, <2>1
  <2>3. CASE m = k - 1
    BY <1>2, <2>1, <2>2, <2>3
  <2>4. CASE m # k - 1
    <3>1. m + 1 \in 1..k - 1 /\ m + 1 # k
      BY <1>1, <2>4
    <3> QED BY <1>2, <2>2, <2>4, <3>1
  <2> QED BY <2>3, <2>4
<1>5. Path(a, w, n)
  BY <1>2, <1>4 DEF Path
<1> QED BY <1>5 DEF a

\* A sequence that is not too long, with one more, and not too long again.
LEMMA PushedIs ==
    ASSUME NEW s \in Seq(StepSet), Len(s) <= UndoCap, NEW step \in StepSet
    PROVE  /\ Len(s) < UndoCap => Pushed(s, step) = Append(s, step)
           /\ ~(Len(s) < UndoCap) => /\ Pushed(s, step) = Tail(Append(s, step))
                                     /\ s # <<>> /\ Len(s) = UndoCap
           /\ Pushed(s, step) \in Seq(StepSet) /\ Len(Pushed(s, step)) <= UndoCap
<1> DEFINE a == Append(s, step)
<1>1. a \in Seq(StepSet) /\ Len(a) = Len(s) + 1 /\ Len(s) \in Nat
  BY OnTop, LenProperties
<1>2. UndoCap \in Nat \ {0}
  BY ListAssumption
<1>3. Pushed(s, step) = IF Len(a) > UndoCap THEN Tail(a) ELSE a
  BY DEF Pushed
<1>4. a # <<>>
  BY <1>1, EmptySeq
<1> HIDE DEF a
<1>5. Tail(a) \in Seq(StepSet) /\ Len(Tail(a)) = Len(a) - 1
  BY <1>1, <1>4, NoOldest
<1>6. ~(Len(s) < UndoCap) => s # <<>> /\ Len(s) = UndoCap
  BY <1>1, <1>2, EmptySeq
<1> QED BY <1>1, <1>2, <1>3, <1>5, <1>6 DEF a

LEMMA TrailPushed ==
    ASSUME NEW s, NEW w, NEW v, NEW n, NEW step, Trail(s, w, n), Leads(step, v, w),
           ToSet(w) \subseteq 1..n - 1
    PROVE  Trail(Pushed(s, step), v, n)
<1>1. s \in Seq(StepSet) /\ Len(s) <= UndoCap /\ step \in StepSet
  BY LeadsType DEF Trail, Path
<1>2. Path(Append(s, step), v, n)
  BY PathOnTop DEF Trail
<1>3. Append(s, step) # <<>>
  BY <1>1, OnTop, EmptySeq, LenProperties
<1>4. Path(Tail(Append(s, step)), v, n)
  BY <1>2, <1>3, PathTail
<1> QED BY <1>1, <1>2, <1>4, PushedIs DEF Trail

\* The newest step leads from the base to where the others lead on from.
LEMMA TrailNewest ==
    ASSUME NEW s, NEW w, NEW n, Trail(s, w, n), s # <<>>
    PROVE  /\ Leads(Last(s), w, Last(s).to) /\ ToSet(Last(s).to) \subseteq 1..n - 1
           /\ Trail(Front(s), Last(s).to, n)
<1> DEFINE a == Front(s)
           k == Len(s)
           l == Last(s)
<1>1. s \in Seq(StepSet) /\ k \in Nat \ {0} /\ k <= UndoCap /\ UndoCap \in Nat
  BY NoNewest, ListAssumption DEF Trail, Path
<1>2. /\ a \in Seq(StepSet) /\ Len(a) = k - 1
      /\ \A m \in 1..k - 1 : a[m] = s[m]
      /\ l = s[k]
  BY <1>1, NoNewest
<1>3. \A m \in 1..k : /\ Leads(s[m], IF m = k THEN w ELSE s[m + 1].to, s[m].to)
                      /\ ToSet(s[m].to) \subseteq 1..n - 1
  BY DEF Trail, Path
<1> HIDE DEF a, k, l
<1>4. Leads(l, w, l.to) /\ ToSet(l.to) \subseteq 1..n - 1
  <2>1. k \in 1..k
    BY <1>1
  <2> QED BY <1>2, <1>3, <2>1
<1>5. ASSUME NEW m \in 1..k - 1
      PROVE  /\ Leads(a[m], IF m = k - 1 THEN l.to ELSE a[m + 1].to, a[m].to)
             /\ ToSet(a[m].to) \subseteq 1..n - 1
  <2>1. m \in 1..k /\ m # k /\ (m = k - 1 => m + 1 = k) /\ (m # k - 1 => m + 1 \in 1..k - 1)
    BY <1>1
  <2>2. Leads(s[m], s[m + 1].to, s[m].to) /\ ToSet(s[m].to) \subseteq 1..n - 1
    BY <1>3, <2>1
  <2> QED BY <1>2, <2>1, <2>2
<1>6. Path(a, l.to, n)
  BY <1>2, <1>5 DEF Path
<1>7. Len(a) <= UndoCap
  BY <1>1, <1>2
<1> QED BY <1>4, <1>6, <1>7 DEF Trail, a, l

-----------------------------------------------------------------------------
(* The stacks are a history of whole lists.                                *)

\* What the lists of a step's stack come to, as the plain history has them.
LEMMA TosType ==
    ASSUME NEW s \in Seq(StepSet)
    PROVE  /\ Tos(s) \in Seq(Seq(Nat)) /\ Len(Tos(s)) = Len(s)
           /\ \A k \in 1..Len(s) : Tos(s)[k] = s[k].to
<1>1. /\ Len(s) \in Nat /\ DOMAIN s = 1..Len(s)
      /\ \A k \in 1..Len(s) : s[k].to \in Seq(Nat)
  <2>1. Len(s) \in Nat /\ DOMAIN s = 1..Len(s)
    BY LenProperties
  <2>2. \A k \in 1..Len(s) : s[k] \in StepSet
    BY ElementOfSeq
  <2> QED BY <2>1, <2>2 DEF StepSet
<1> DEFINE f == Tos(s)
<1>2. f \in [1..Len(s) -> Seq(Nat)] /\ \A k \in 1..Len(s) : f[k] = s[k].to
  BY <1>1 DEF Tos
<1> HIDE DEF f
<1>3. f \in Seq(Seq(Nat))
  BY <1>1, <1>2, SeqDef
<1>4. DOMAIN f = 1..Len(s) /\ Len(f) \in Nat /\ DOMAIN f = 1..Len(f)
  BY <1>2, <1>3, LenProperties
<1>5. \A a, b \in Nat : 1..a = 1..b => a = b
  OBVIOUS
<1>6. Len(f) = Len(s)
  BY <1>1, <1>4, <1>5
<1> QED BY <1>2, <1>3, <1>6 DEF f

\* ... when a step is pushed, ...
LEMMA TosPushed ==
    ASSUME NEW s \in Seq(StepSet), Len(s) <= UndoCap, NEW step \in StepSet
    PROVE  Tos(Pushed(s, step)) = History!Push(Tos(s), step.to)
<1> DEFINE t == Tos(s)
           w == step.to
           a == Append(s, step)
           b == Append(t, w)
           p == Pushed(s, step)
           n == Len(s)
<1>1. w \in Seq(Nat) /\ n \in Nat /\ UndoCap \in Nat \ {0}
  BY LenProperties, ListAssumption DEF StepSet
<1>2. /\ t \in Seq(Seq(Nat)) /\ Len(t) = n
      /\ \A k \in 1..n : t[k] = s[k].to
  BY TosType
<1>3. /\ a \in Seq(StepSet) /\ Len(a) = n + 1 /\ a[n + 1] = step
      /\ \A k \in 1..n : a[k] = s[k]
  BY OnTop
<1>4. p \in Seq(StepSet)
  BY PushedIs
<1>5. /\ Tos(p) \in Seq(Seq(Nat)) /\ Len(Tos(p)) = Len(p)
      /\ \A k \in 1..Len(p) : Tos(p)[k] = p[k].to
  BY <1>4, TosType
<1> HIDE DEF t, w
<1>6. /\ b \in Seq(Seq(Nat)) /\ Len(b) = n + 1 /\ b[n + 1] = w
      /\ \A k \in 1..n : b[k] = t[k]
  BY <1>1, <1>2, OnTop
<1>7. \A k \in 1..n + 1 : a[k].to = b[k]
  <2> SUFFICES ASSUME NEW k \in 1..n + 1 PROVE a[k].to = b[k]
    OBVIOUS
  <2>1. k = n + 1 \/ k \in 1..n
    BY <1>1
  <2> QED BY <1>2, <1>3, <1>6, <2>1 DEF w
<1>8. CASE n < UndoCap
  <2>1. p = a
    BY <1>8, PushedIs
  <2>2. History!Push(t, w) = b
    BY <1>2, <1>8 DEF History!Push
  <2> HIDE DEF a, b, p
  <2>3. Tos(p) = b
    <3>1. /\ Tos(p) \in Seq(Seq(Nat)) /\ b \in Seq(Seq(Nat)) /\ Len(Tos(p)) = Len(b)
          /\ \A k \in 1..Len(b) : Tos(p)[k] = b[k]
      BY <1>3, <1>5, <1>6, <1>7, <2>1
    <3> QED BY <3>1, SeqEqual
  <2> QED BY <2>2, <2>3 DEF p, t, w
<1>9. CASE ~(n < UndoCap)
  <2>1. p = Tail(a) /\ s # <<>> /\ n = UndoCap
    BY <1>9, PushedIs
  <2> DEFINE c == Append(Tail(t), w)
  <2>2. History!Push(t, w) = c
    BY <1>2, <1>9 DEF History!Push
  <2>3. t # <<>> /\ n \in Nat \ {0}
    BY <1>1, <1>2, <2>1, EmptySeq
  <2>4. a # <<>>
    BY <1>1, <1>3, EmptySeq
  <2>5. Len(p) = n /\ \A k \in 1..n : p[k] = a[k + 1]
    <3> HIDE DEF a, p
    <3>1. /\ Len(Tail(a)) = Len(a) - 1
          /\ \A k \in 1..Len(a) - 1 : Tail(a)[k] = a[k + 1]
      BY <1>3, <2>4, NoOldest
    <3>2. Len(a) - 1 = n
      BY <1>1, <1>3
    <3> QED BY <2>1, <3>1, <3>2
  <2>6. /\ Tail(t) \in Seq(Seq(Nat)) /\ Len(Tail(t)) = n - 1
        /\ \A k \in 1..n - 1 : Tail(t)[k] = t[k + 1]
    BY <1>2, <2>3, NoOldest
  <2>7. /\ c \in Seq(Seq(Nat)) /\ Len(c) = n /\ c[n] = w
        /\ \A k \in 1..n - 1 : c[k] = t[k + 1]
    <3> DEFINE d == Tail(t)
    <3>1. d \in Seq(Seq(Nat)) /\ Len(d) = n - 1 /\ \A k \in 1..n - 1 : d[k] = t[k + 1]
      BY <2>6
    <3> HIDE DEF d
    <3>2. /\ Append(d, w) \in Seq(Seq(Nat)) /\ Len(Append(d, w)) = Len(d) + 1
          /\ Append(d, w)[Len(d) + 1] = w
          /\ \A k \in 1..Len(d) : Append(d, w)[k] = d[k]
      BY <1>1, <3>1, OnTop
    <3>3. Len(d) + 1 = n
      BY <1>1, <3>1
    <3> QED BY <3>1, <3>2, <3>3 DEF d
  <2>8. \A k \in 1..n : p[k].to = c[k]
    <3> SUFFICES ASSUME NEW k \in 1..n PROVE p[k].to = c[k]
      OBVIOUS
    <3>1. p[k].to = b[k + 1]
      <4>1. k + 1 \in 1..n + 1
        BY <1>1
      <4> QED BY <1>7, <2>5, <4>1
    <3>2. CASE k = n
      BY <1>6, <2>7, <3>1, <3>2
    <3>3. CASE k # n
      <4>1. k \in 1..n - 1 /\ k + 1 \in 1..n
        BY <1>1, <3>3
      <4> QED BY <1>6, <2>7, <3>1, <4>1
    <3> QED BY <3>2, <3>3
  <2> HIDE DEF a, b, c, p
  <2>9. Tos(p) = c
    <3>1. Len(Tos(p)) = Len(c) /\ \A k \in 1..Len(c) : Tos(p)[k] = c[k]
      BY <1>5, <2>5, <2>7, <2>8
    <3> QED BY <1>5, <2>7, <3>1, SeqEqual
  <2> QED BY <2>2, <2>9 DEF p, t, w
<1> QED BY <1>8, <1>9

\* ... and when one is popped.
LEMMA TosPopped ==
    ASSUME NEW s \in Seq(StepSet), s # <<>>
    PROVE  /\ Tos(s) # <<>> /\ History!Newest(Tos(s)) = Last(s).to
           /\ History!Older(Tos(s)) = Tos(Front(s))
<1> DEFINE t == Tos(s)
           n == Len(s)
           f == Front(s)
<1>1. n \in Nat \ {0} /\ f \in Seq(StepSet) /\ Len(f) = n - 1
      /\ (\A m \in 1..n - 1 : f[m] = s[m]) /\ Last(s) = s[n]
  BY NoNewest
<1>2. /\ t \in Seq(Seq(Nat)) /\ Len(t) = n
      /\ \A k \in 1..n : t[k] = s[k].to
  BY TosType
<1> HIDE DEF t, f, n
<1>3. t # <<>> /\ History!Newest(t) = Last(s).to
  <2>1. t # <<>>
    BY <1>1, <1>2, EmptySeq
  <2>2. n \in 1..n
    BY <1>1
  <2> QED BY <1>1, <1>2, <2>1, <2>2 DEF History!Newest
<1>4. History!Older(t) = Front(t)
  BY DEF History!Older, Front
<1>5. /\ Front(t) \in Seq(Seq(Nat)) /\ Len(Front(t)) = n - 1
      /\ \A m \in 1..n - 1 : Front(t)[m] = t[m]
  BY <1>2, <1>3, NoNewest
<1>6. /\ Tos(f) \in Seq(Seq(Nat)) /\ Len(Tos(f)) = n - 1
      /\ \A k \in 1..n - 1 : Tos(f)[k] = f[k].to
  BY <1>1, TosType
<1>7. \A m \in 1..n - 1 : m \in 1..n
  BY <1>1
<1>8. Front(t) = Tos(f)
  <2> DEFINE a == Front(t)
             b == Tos(f)
  <2>1. /\ a \in Seq(Seq(Nat)) /\ b \in Seq(Seq(Nat)) /\ Len(a) = Len(b)
        /\ \A m \in 1..Len(a) : a[m] = b[m]
    BY <1>1, <1>2, <1>5, <1>6, <1>7
  <2> HIDE DEF a, b
  <2>2. a = b
    BY <2>1, SeqEqual
  <2> QED BY <2>2 DEF a, b
<1> QED BY <1>3, <1>4, <1>8 DEF t, f

-----------------------------------------------------------------------------
(* The invariant.                                                          *)

ListGood(list, laid, next) ==
    /\ next \in 1..MaxId + 1
    /\ list \in Seq(Nat) /\ IsInjective(list) /\ ToSet(list) \subseteq 1..next - 1
    /\ laid \subseteq 1..next - 1

JournalGood(j, list, next) == j = NoJournal \/ JournalKnows(j, j.found, list, next)

Base(j, list) == IF j.open THEN j.found ELSE list

(* The list and the ids are good, the open journal knows the list its      *)
(* gesture found, and the steps lead on from that list.                    *)
LInv ==
    /\ ListGood(units, lobbies, nextId)
    /\ JournalGood(journal, units, nextId)
    /\ Trail(undo, Base(journal, units), nextId)
    /\ Trail(redo, Base(journal, units), nextId)

\* An open journal.
LEMMA OpenIs ==
    /\ ~NoJournal.open
    /\ \A j, found, l, n : JournalKnows(j, found, l, n) => j.open /\ j.found = found
BY DEF NoJournal, JournalKnows, Book

\* The list an open journal found.
LEMMA FoundGood ==
    ASSUME NEW j, NEW found, NEW l, NEW n, JournalKnows(j, found, l, n)
    PROVE  /\ found \in Seq(Nat) /\ IsInjective(found) /\ ToSet(found) \subseteq 1..n - 1
           /\ n \in Nat \ {0} /\ found # NoMark
<1>1. /\ found \in Seq(Nat) /\ IsInjective(found) /\ ToSet(found) \subseteq 1..n - 1
      /\ n \in Nat \ {0}
  BY DEF JournalKnows, Knows, Places
<1>2. found # NoMark
  <2>1. 0 \notin ToSet(found)
    BY <1>1
  <2>2. 0 \in ToSet(<<0>>)
    BY DEF ToSet
  <2> QED BY <2>1, <2>2 DEF NoMark
<1> QED BY <1>1, <1>2

\* A gesture ends: its step, if it has one, leads back to what it found.
LEMMA Closed ==
    ASSUME LInv
    PROVE  /\ Trail(UndoCommitted, units, nextId) /\ Trail(RedoCommitted, units, nextId)
           /\ Tos(UndoCommitted) = History!Past /\ Tos(RedoCommitted) = History!Future
<1> DEFINE step == StepOf(journal, units)
           mark == IF journal.open THEN journal.found ELSE NoMark
<1>1. Trail(<<>>, units, nextId) /\ Tos(<<>>) = <<>>
  BY TrailNone
<1>2. History!Changed <=> mark # NoMark /\ mark # units
  BY DEF History!Changed
<1>3. /\ History!Past = IF History!Changed THEN History!Push(Tos(undo), mark) ELSE Tos(undo)
      /\ History!Future = IF History!Changed THEN <<>> ELSE Tos(redo)
  BY DEF History!Past, History!Future, Tos
<1>4. CASE journal = NoJournal
  <2>1. ~journal.open
    BY <1>4, OpenIs
  <2>2. ~Kept /\ ~History!Changed
    BY <1>2, <2>1 DEF Kept
  <2>3. UndoCommitted = undo /\ RedoCommitted = redo
    BY <2>2 DEF UndoCommitted, RedoCommitted
  <2>4. Base(journal, units) = units
    BY <2>1 DEF Base
  <2> QED BY <1>3, <2>2, <2>3, <2>4 DEF LInv
<1>5. CASE JournalKnows(journal, journal.found, units, nextId)
  <2>1. journal.open /\ Base(journal, units) = journal.found /\ mark = journal.found
    BY <1>5, OpenIs DEF Base
  <2>2. journal.found # NoMark /\ ToSet(journal.found) \subseteq 1..nextId - 1
    BY <1>5, FoundGood
  <2>3. Leads(step, units, journal.found)
    BY <1>5, StepOfLeads
  <2>4. /\ undo \in Seq(StepSet) /\ Len(undo) <= UndoCap
        /\ Trail(undo, journal.found, nextId) /\ Trail(redo, journal.found, nextId)
    BY <2>1 DEF LInv, Trail, Path
  <2> HIDE DEF step
  <2>5. step \in StepSet /\ step.to = journal.found
    BY <2>3, LeadsType
  <2>6. CASE step.images = {}
    <3>1. units = journal.found
      BY <2>3, <2>6, LeadsNowhere
    <3>2. ~Kept /\ ~History!Changed
      BY <1>2, <2>1, <2>6, <3>1 DEF Kept, step
    <3>3. UndoCommitted = undo /\ RedoCommitted = redo
      BY <3>2 DEF UndoCommitted, RedoCommitted
    <3> QED BY <1>3, <2>4, <3>1, <3>2, <3>3
  <2>7. CASE step.images # {}
    <3>1. units # journal.found
      <4>1. PICK i \in step.images : TRUE
        BY <2>7
      <4>2. i.put \in BOOLEAN /\ i.at \in Nat
        BY <2>3 DEF Leads
      <4>3. CASE i.put
        <5>1. i.at < Len(journal.found) /\ journal.found[i.at + 1] = i.id
              /\ i.id \notin ToSet(units)
          BY <2>3, <4>3 DEF Leads
        <5>2. /\ Len(journal.found) \in Nat
              /\ DOMAIN journal.found = 1..Len(journal.found)
          BY <2>3, LenProperties DEF Leads
        <5>3. i.at + 1 \in 1..Len(journal.found)
          BY <4>2, <5>1, <5>2
        <5>4. i.id \in ToSet(journal.found)
          BY <5>1, <5>2, <5>3 DEF ToSet
        <5> QED BY <5>1, <5>4
      <4>4. CASE ~i.put
        BY <2>3, <4>4 DEF Leads
      <4> QED BY <4>2, <4>3, <4>4
    <3>2. Kept /\ History!Changed
      BY <1>2, <2>1, <2>2, <2>7, <3>1 DEF Kept, step
    <3>3. UndoCommitted = Pushed(undo, step) /\ RedoCommitted = <<>>
      BY <3>2 DEF UndoCommitted, RedoCommitted, step
    <3>4. Trail(Pushed(undo, step), units, nextId)
      BY <2>2, <2>3, <2>4, TrailPushed
    <3>5. Tos(Pushed(undo, step)) = History!Push(Tos(undo), journal.found)
      BY <2>4, <2>5, TosPushed
    <3> QED BY <1>1, <1>3, <2>1, <3>2, <3>3, <3>4, <3>5
  <2> QED BY <2>6, <2>7
<1> QED BY <1>4, <1>5 DEF LInv, JournalGood

-----------------------------------------------------------------------------
(* Every action keeps the invariant, and is a step of the plain history.   *)

\* No gesture is open, or one has just begun.
LEMMA Begun ==
    ASSUME NEW list, NEW laid, NEW next, ListGood(list, laid, next)
    PROVE  /\ JournalKnows(Book({}, <<>>, <<>>, list), list, list, next)
           /\ list \in Seq(Ids)
<1>1. /\ list \in Seq(Nat) /\ IsInjective(list) /\ ToSet(list) \subseteq 1..next - 1
      /\ next \in Nat \ {0} /\ 1..next - 1 \subseteq Ids
  <2>1. MaxId \in Nat
    BY ListAssumption
  <2> QED BY <2>1 DEF ListGood, Ids
<1>2. <<>> \in Seq(Nat) /\ Len(<<>>) = 0 /\ ToSet(<<>>) = {} /\ IsInjective(<<>>)
  BY EmptySeq DEF ToSet, IsInjective
<1>3. Places(list, <<>>) /\ Taken(list, <<>>) = {}
  BY <1>1, <1>2 DEF Places, Sorted, Taken
<1>4. Heard(list, {}, next)
  BY DEF Heard
<1>5. Laid(list, {}, <<>>, list, <<>>)
  <2>1. Without(list, {}) = list
    BY <1>1, WithoutNone
  <2>2. list \o <<>> = list
    BY <1>1, <1>2, Joined
  <2> QED BY <1>2, <1>3, <2>1, <2>2 DEF Laid
<1>6. Knows(list, {}, <<>>, list, next)
  BY <1>1, <1>3, <1>4, <1>5 DEF Knows
<1>7. JournalKnows(Book({}, <<>>, <<>>, list), list, list, next)
  BY <1>6, BookKnows
<1>8. list \in Seq(Ids)
  BY <1>1, SeqWithin
<1> QED BY <1>7, <1>8

\* An edit in an open gesture, of which the journal hears.
LEMMA EditPlain ==
    ASSUME LInv, journal.open,
           JournalKnows(journal', journal.found, units', nextId'),
           nextId' \in 1..MaxId + 1, nextId <= nextId',
           lobbies' \subseteq 1..nextId' - 1, undo' = undo, redo' = redo
    PROVE  LInv' /\ History!Next
<1>1. journal'.open /\ journal'.found = journal.found
  BY OpenIs
<1>2. JournalKnows(journal, journal.found, units, nextId)
  BY OpenIs DEF LInv, JournalGood
<1>3. nextId \in Nat /\ nextId' \in Nat /\ MaxId \in Nat
  BY ListAssumption DEF LInv, ListGood
<1>4. units' \in Seq(Nat) /\ IsInjective(units') /\ ToSet(units') \subseteq 1..nextId' - 1
  <2> DEFINE j == journal'
             l == units'
             n == nextId'
  <2>1. Knows(journal.found, j.touched, j.gone, l, n)
    BY DEF JournalKnows
  <2> HIDE DEF j, l, n
  <2>2. l \in Seq(Nat) /\ IsInjective(l) /\ ToSet(l) \subseteq 1..n - 1
    BY <2>1, KnowsList
  <2> QED BY <2>2 DEF j, l, n
<1>5. ListGood(units, lobbies, nextId)' /\ JournalGood(journal, units, nextId)'
  BY <1>1, <1>4 DEF ListGood, JournalGood
<1>6. Base(journal, units) = journal.found /\ Base(journal, units)' = journal.found
  BY <1>1 DEF Base
<1>7. Trail(undo, journal.found, nextId') /\ Trail(redo, journal.found, nextId')
  BY <1>3, <1>6, TrailMore DEF LInv
<1>8. Trail(undo, Base(journal, units), nextId)' /\ Trail(redo, Base(journal, units), nextId)'
  BY <1>6, <1>7
<1>9. LInv'
  BY <1>5, <1>8 DEF LInv
<1>10. units' \in Seq(Ids)
  BY <1>5, Begun
<1>11. journal.found # NoMark
  BY <1>2, FoundGood
<1>12. History!Edit
  BY <1>1, <1>10, <1>11 DEF History!Edit
<1> QED BY <1>9, <1>12 DEF History!Next

LEMMA PlacePlain == LInv /\ Place => LInv' /\ History!Next
<1> SUFFICES ASSUME LInv, Place PROVE LInv' /\ History!Next
  OBVIOUS
<1>1. JournalKnows(journal, journal.found, units, nextId)
  BY OpenIs DEF Place, LInv, JournalGood
<1>2. JournalKnows(UnitIn(journal, nextId), journal.found, Append(units, nextId), nextId + 1)
  BY <1>1, UnitInKnows
<1>3. nextId' = nextId + 1 /\ nextId' \in 1..MaxId + 1 /\ nextId <= nextId'
      /\ 1..nextId - 1 \subseteq 1..nextId' - 1
  BY ListAssumption DEF Place, LInv, ListGood
<1>4. lobbies' \subseteq 1..nextId' - 1
  BY <1>3 DEF Place, LInv, ListGood
<1> QED BY <1>2, <1>3, <1>4, EditPlain DEF Place

LEMMA WritePlain == LInv /\ EditInPlace => LInv' /\ History!Next
<1> SUFFICES ASSUME LInv, EditInPlace PROVE LInv' /\ History!Next
  OBVIOUS
<1>1. JournalKnows(journal, journal.found, units, nextId)
  BY OpenIs DEF EditInPlace, LInv, JournalGood
<1>2. PICK id \in ToSet(units) : journal' = UnitEdit(journal, units, id)
  BY DEF EditInPlace
<1>3. JournalKnows(UnitEdit(journal, units, id), journal.found, units, nextId)
  BY <1>1, UnitEditKnows
<1>4. /\ units' = units /\ nextId' = nextId /\ lobbies' = lobbies
      /\ undo' = undo /\ redo' = redo /\ journal.open
  BY DEF EditInPlace
<1>5. nextId \in 1..MaxId + 1 /\ nextId <= nextId /\ lobbies \subseteq 1..nextId - 1
  BY ListAssumption DEF LInv, ListGood
<1> QED BY <1>2, <1>3, <1>4, <1>5, EditPlain

LEMMA RemovePlain == LInv /\ RemoveUnits => LInv' /\ History!Next
<1> SUFFICES ASSUME LInv, RemoveUnits PROVE LInv' /\ History!Next
  OBVIOUS
<1>1. JournalKnows(journal, journal.found, units, nextId)
  BY OpenIs DEF RemoveUnits, LInv, JournalGood
<1>2. PICK batch \in SUBSET ToSet(units) :
         journal' = BatchOut(journal, units, batch) /\ units' = Without(units, batch)
  BY DEF RemoveUnits
<1>3. JournalKnows(BatchOut(journal, units, batch), journal.found,
                   Without(units, batch), nextId)
  BY <1>1, BatchOutKnows
<1>4. /\ nextId' = nextId /\ lobbies' = lobbies
      /\ undo' = undo /\ redo' = redo /\ journal.open
  BY DEF RemoveUnits
<1>5. nextId \in 1..MaxId + 1 /\ nextId <= nextId /\ lobbies \subseteq 1..nextId - 1
  BY ListAssumption DEF LInv, ListGood
<1> QED BY <1>2, <1>3, <1>4, <1>5, EditPlain

\* What the brush leaves of the list, and what it lays.
BrushOrder == units' = Without(units, ToSet(units) \ ToSet(units'))
                          \o [k \in 1..nextId' - nextId |-> nextId + (k - 1)]

LEMMA BrushPlain == LInv /\ LobbyBrush => LInv' /\ History!Next /\ BrushOrder
<1> SUFFICES ASSUME LInv, LobbyBrush PROVE LInv' /\ History!Next /\ BrushOrder
  OBVIOUS
<1>1. JournalKnows(journal, journal.found, units, nextId)
  BY OpenIs DEF LobbyBrush, LInv, JournalGood
<1> DEFINE Tiles == {0} \cup (ToSet(units) \ lobbies)
<1>2. PICK tiles \in SeqOf(Tiles, MaxBatch) :
         /\ tiles # <<>> /\ nextId + Len(tiles) <= MaxId + 1
         /\ \A m, n \in DOMAIN tiles : m # n => tiles[m] = 0 \/ tiles[m] # tiles[n]
         /\ units' = BrushList(Brushed(tiles))
         /\ journal' = BrushJournal(Brushed(tiles))
         /\ lobbies' = lobbies \cup ToSet(Brushed(tiles).placed)
         /\ nextId' = Brushed(tiles).next
  BY Zenon DEF LobbyBrush
<1>3. Len(tiles) \in Nat /\ DOMAIN tiles = 1..Len(tiles)
      /\ \A k \in 1..Len(tiles) : tiles[k] \in Tiles
  <2> HIDE DEF Tiles
  <2>1. PICK m \in 0..MaxBatch : tiles \in [1..m -> Tiles]
    BY DEF SeqOf
  <2>2. tiles \in Seq(Tiles)
    BY <2>1, SeqDef, ListAssumption
  <2> QED BY <2>2, LenProperties, ElementOfSeq
<1> DEFINE b == Brushed(tiles)
           over == Overs(tiles, Len(tiles))
<1>4. /\ \A k \in 1..Len(tiles) : tiles[k] = 0 \/ tiles[k] \in ToSet(units)
      /\ \A i, k \in 1..Len(tiles) : i # k => tiles[i] = 0 \/ tiles[i] # tiles[k]
  BY <1>2, <1>3
<1>5. /\ Brush(b, journal.found, journal.gone, units, over)
      /\ b.next = nextId + Len(tiles) /\ Len(b.placed) = Len(tiles)
      /\ \A i \in 1..Len(tiles) : b.placed[i] = nextId + (i - 1)
  BY <1>1, <1>3, <1>4, BrushedKnows
<1>6. JournalKnows(BrushJournal(b), journal.found, BrushList(b), b.next)
      /\ ToSet(b.placed) \subseteq 1..b.next - 1
      /\ BrushList(b) = Without(units, over) \o b.placed
  <2> HIDE DEF b, over
  <2> QED BY <1>5, BrushEnds
<1>7. nextId' = nextId + Len(tiles)
  BY <1>2, <1>5
<1>8. nextId' \in 1..MaxId + 1 /\ nextId <= nextId' /\ 1..nextId - 1 \subseteq 1..nextId' - 1
  BY <1>2, <1>3, <1>7, ListAssumption DEF LInv, ListGood
<1>9. lobbies' \subseteq 1..nextId' - 1
  <2>1. lobbies \subseteq 1..nextId - 1
    BY DEF LInv, ListGood
  <2> HIDE DEF b
  <2>2. lobbies' = lobbies \cup ToSet(b.placed) /\ nextId' = b.next
    BY <1>2 DEF b
  <2> QED BY <1>6, <1>8, <2>1, <2>2
<1>10. JournalKnows(journal', journal.found, units', nextId')
  BY <1>2, <1>6
<1>11. undo' = undo /\ redo' = redo /\ journal.open
  BY DEF LobbyBrush
<1>12. BrushOrder
  <2> DEFINE p == b.placed
             n == Len(tiles)
             new == [k \in 1..nextId' - nextId |-> nextId + (k - 1)]
  <2>1. /\ units \in Seq(Nat) /\ p \in Seq(Nat) /\ ToSet(p) \cap ToSet(units) = {}
        /\ over \subseteq ToSet(units)
    <3> HIDE DEF over
    <3>1. units \in Seq(Nat) /\ p \in Seq(Nat) /\ ToSet(p) \cap ToSet(units) = {}
      BY <1>5, BrushNext DEF Brush
    <3>2. over \subseteq ToSet(units)
      BY <1>4 DEF over, Overs
    <3> QED BY <3>1, <3>2
  <2>2. units' = Without(units, over) \o p
    BY <1>2, <1>6
  <2>3. p = new
    <3>1. nextId \in Nat /\ nextId' - nextId = n
      BY <1>3, <1>7 DEF LInv, ListGood
    <3>2. p \in [1..n -> Nat] /\ Len(p) = n /\ \A i \in 1..n : p[i] = nextId + (i - 1)
      BY <1>5, <2>1, LenProperties
    <3> HIDE DEF p, n
    <3>3. p = [k \in 1..n |-> p[k]]
      BY <3>2
    <3>4. p = [k \in 1..n |-> nextId + (k - 1)]
      BY <3>2, <3>3
    <3> QED BY <3>1, <3>4
  <2> HIDE DEF b, over, p, new
  <2>4. ToSet(units') = (ToSet(units) \ over) \cup ToSet(p)
    <3> DEFINE w == Without(units, over)
    <3>1. w \in Seq(Nat) /\ ToSet(w) = ToSet(units) \ over
      BY <2>1, WithoutType
    <3> HIDE DEF w
    <3>2. ToSet(w \o p) = ToSet(w) \cup ToSet(p)
      BY <2>1, <3>1, Joined
    <3> QED BY <2>2, <3>1, <3>2 DEF w
  <2> DEFINE left == ToSet(units) \ ToSet(units')
  <2>5. \A x \in ToSet(units) : x \in over <=> x \in left
    BY <2>1, <2>4
  <2> HIDE DEF left
  <2>6. Without(units, over) = Without(units, left)
    BY <2>1, <2>5, WithoutSame
  <2>7. units' = Without(units, left) \o new
    BY <2>2, <2>3, <2>6
  <2> QED BY <2>7 DEF left, new, BrushOrder
<1> HIDE DEF b
<1> QED BY <1>8, <1>9, <1>10, <1>11, <1>12, EditPlain

\* The gesture ends, and another may begin.
LEMMA ClosePlain == LInv /\ (Capture \/ Commit) => LInv' /\ History!Next
<1> SUFFICES ASSUME LInv, Capture \/ Commit PROVE LInv' /\ History!Next
  OBVIOUS
<1>1. /\ undo' = UndoCommitted /\ redo' = RedoCommitted
      /\ units' = units /\ lobbies' = lobbies /\ nextId' = nextId
  BY DEF Capture, Commit
<1>2. /\ Trail(undo', units, nextId) /\ Trail(redo', units, nextId)
      /\ Tos(undo') = History!Past /\ Tos(redo') = History!Future
  BY <1>1, Closed
<1>3. ListGood(units, lobbies, nextId)'
  BY <1>1 DEF LInv
<1>4. CASE Capture
  <2>1. journal' = Book({}, <<>>, <<>>, units)
    BY <1>4 DEF Capture, Book
  <2>2. JournalKnows(journal', units, units, nextId)
    BY <2>1, Begun DEF LInv
  <2>3. journal'.open /\ journal'.found = units
    BY <2>2, OpenIs
  <2>4. JournalGood(journal, units, nextId)' /\ Base(journal, units)' = units
    BY <1>1, <2>2, <2>3 DEF JournalGood, Base
  <2>5. LInv'
    BY <1>1, <1>2, <1>3, <2>4 DEF LInv
  <2>6. History!Capture
    BY <1>1, <1>2, <2>3 DEF History!Capture, Tos
  <2> QED BY <2>5, <2>6 DEF History!Next
<1>5. CASE Commit
  <2>1. journal' = NoJournal /\ ~journal'.open
    BY <1>5, OpenIs DEF Commit
  <2>2. JournalGood(journal, units, nextId)' /\ Base(journal, units)' = units
    BY <1>1, <2>1 DEF JournalGood, Base
  <2>3. LInv'
    BY <1>1, <1>2, <1>3, <2>2 DEF LInv
  <2>4. History!Commit
    BY <1>1, <1>2, <2>1 DEF History!Commit, Tos
  <2> QED BY <2>3, <2>4 DEF History!Next
<1> QED BY <1>4, <1>5

\* The newest step of a stack is taken: the list is the one it leads to,
\* the others lead on from there, and the opposite step leads back.
LEMMA TakenPlain ==
    ASSUME LInv, NEW from, NEW onto, Trail(from, units, nextId), Trail(onto, units, nextId),
           from # <<>>
    PROVE  LET step == Last(from)
               back == Opposite(step, units)
           IN  /\ StepFits(step, units) /\ Applied(step, units) = step.to
               /\ step.to \in Seq(Nat) /\ IsInjective(step.to)
               /\ ToSet(step.to) \subseteq 1..nextId - 1
               /\ Trail(Front(from), step.to, nextId)
               /\ Trail(Pushed(onto, back), step.to, nextId)
               /\ Tos(from) # <<>> /\ History!Newest(Tos(from)) = step.to
               /\ Tos(Front(from)) = History!Older(Tos(from))
               /\ Tos(Pushed(onto, back)) = History!Push(Tos(onto), units)
<1> DEFINE step == Last(from)
           back == Opposite(step, units)
<1>1. /\ Leads(step, units, step.to) /\ ToSet(step.to) \subseteq 1..nextId - 1
      /\ Trail(Front(from), step.to, nextId)
  BY TrailNewest
<1>2. from \in Seq(StepSet) /\ onto \in Seq(StepSet) /\ Len(onto) <= UndoCap
  BY DEF Trail, Path
<1>3. Tos(from) # <<>> /\ History!Newest(Tos(from)) = step.to
      /\ Tos(Front(from)) = History!Older(Tos(from))
  BY <1>2, TosPopped
<1> HIDE DEF step
<1>4. step.to \in Seq(Nat) /\ IsInjective(step.to)
  BY <1>1 DEF Leads
<1>5. StepFits(step, units) /\ Applied(step, units) = step.to
  BY <1>1, LeadsFits, AppliedIs
<1>6. Leads(back, step.to, units)
  BY <1>1, OppositeLeads
<1> HIDE DEF back
<1>7. back \in StepSet /\ back.to = units
  BY <1>6, LeadsType
<1>8. ToSet(units) \subseteq 1..nextId - 1
  BY DEF LInv, ListGood
<1>9. Trail(Pushed(onto, back), step.to, nextId)
  BY <1>6, <1>8, TrailPushed
<1>10. Tos(Pushed(onto, back)) = History!Push(Tos(onto), units)
  <2>1. Tos(Pushed(onto, back)) = History!Push(Tos(onto), back.to)
    BY <1>2, <1>7, TosPushed
  <2> QED BY <1>7, <2>1
<1> QED BY <1>1, <1>3, <1>4, <1>5, <1>9, <1>10 DEF step, back

LEMMA StepPlain == LInv /\ (Undo \/ Redo) => LInv' /\ History!Next
<1> SUFFICES ASSUME LInv, Undo \/ Redo PROVE LInv' /\ History!Next
  OBVIOUS
<1>1. /\ Trail(UndoCommitted, units, nextId) /\ Trail(RedoCommitted, units, nextId)
      /\ Tos(UndoCommitted) = History!Past /\ Tos(RedoCommitted) = History!Future
  BY Closed
<1>2. journal' = NoJournal /\ ~journal'.open /\ lobbies' = lobbies /\ nextId' = nextId
  BY OpenIs DEF Undo, Redo
<1>3. ASSUME NEW to, to \in Seq(Nat), IsInjective(to), ToSet(to) \subseteq 1..nextId - 1,
             units' = to, Trail(undo', to, nextId), Trail(redo', to, nextId)
      PROVE  LInv'
  <2>1. ListGood(units, lobbies, nextId)'
    BY <1>2, <1>3 DEF LInv, ListGood
  <2>2. JournalGood(journal, units, nextId)' /\ Base(journal, units)' = to
    BY <1>2, <1>3 DEF JournalGood, Base
  <2> QED BY <1>2, <1>3, <2>1, <2>2 DEF LInv
<1>4. CASE Undo
  <2> DEFINE step == Last(UndoCommitted)
             back == Opposite(step, units)
  <2>1. UndoCommitted # <<>>
    BY <1>4 DEF Undo
  <2>2. /\ StepFits(step, units) /\ Applied(step, units) = step.to
        /\ step.to \in Seq(Nat) /\ IsInjective(step.to)
        /\ ToSet(step.to) \subseteq 1..nextId - 1
        /\ Trail(Front(UndoCommitted), step.to, nextId)
        /\ Trail(Pushed(RedoCommitted, back), step.to, nextId)
        /\ Tos(UndoCommitted) # <<>> /\ History!Newest(Tos(UndoCommitted)) = step.to
        /\ Tos(Front(UndoCommitted)) = History!Older(Tos(UndoCommitted))
        /\ Tos(Pushed(RedoCommitted, back)) = History!Push(Tos(RedoCommitted), units)
    BY <1>1, <2>1, TakenPlain, Zenon
  <2>3. /\ units' = step.to /\ redo' = Pushed(RedoCommitted, back)
        /\ undo' = Front(UndoCommitted)
    BY <1>4, <2>2 DEF Undo
  <2> HIDE DEF step, back
  <2>4. LInv'
    BY <1>3, <2>2, <2>3
  <2>5. /\ Tos(undo') = History!Older(History!Past)
        /\ Tos(redo') = History!Push(History!Future, units)
        /\ units' = History!Newest(History!Past) /\ History!Past # <<>>
    BY <1>1, <2>2, <2>3
  <2>6. History!Undo
    BY <1>2, <2>5 DEF History!Undo, Tos
  <2> QED BY <2>4, <2>6 DEF History!Next
<1>5. CASE Redo
  <2> DEFINE step == Last(RedoCommitted)
             back == Opposite(step, units)
  <2>1. RedoCommitted # <<>>
    BY <1>5 DEF Redo
  <2>2. /\ StepFits(step, units) /\ Applied(step, units) = step.to
        /\ step.to \in Seq(Nat) /\ IsInjective(step.to)
        /\ ToSet(step.to) \subseteq 1..nextId - 1
        /\ Trail(Front(RedoCommitted), step.to, nextId)
        /\ Trail(Pushed(UndoCommitted, back), step.to, nextId)
        /\ Tos(RedoCommitted) # <<>> /\ History!Newest(Tos(RedoCommitted)) = step.to
        /\ Tos(Front(RedoCommitted)) = History!Older(Tos(RedoCommitted))
        /\ Tos(Pushed(UndoCommitted, back)) = History!Push(Tos(UndoCommitted), units)
    BY <1>1, <2>1, TakenPlain, Zenon
  <2>3. /\ units' = step.to /\ undo' = Pushed(UndoCommitted, back)
        /\ redo' = Front(RedoCommitted)
    BY <1>5, <2>2 DEF Redo
  <2> HIDE DEF step, back
  <2>4. LInv'
    BY <1>3, <2>2, <2>3
  <2>5. /\ Tos(redo') = History!Older(History!Future)
        /\ Tos(undo') = History!Push(History!Past, units)
        /\ units' = History!Newest(History!Future) /\ History!Future # <<>>
    BY <1>1, <2>2, <2>3
  <2>6. History!Redo
    BY <1>2, <2>5 DEF History!Redo, Tos
  <2> QED BY <2>4, <2>6 DEF History!Next
<1> QED BY <1>4, <1>5

LEMMA InitPlain == Init => LInv /\ History!Init
<1> SUFFICES ASSUME Init PROVE LInv /\ History!Init
  OBVIOUS
<1>1. StartLen \in Nat /\ MaxId \in Nat /\ StartLen <= MaxId
  BY ListAssumption
<1>2. /\ units = [i \in 1..StartLen |-> i] /\ lobbies = {} /\ nextId = StartLen + 1
      /\ journal = NoJournal /\ undo = <<>> /\ redo = <<>>
  BY DEF Init
<1>3. units \in [1..StartLen -> Nat] /\ DOMAIN units = 1..StartLen
      /\ \A i \in 1..StartLen : units[i] = i
  BY <1>1, <1>2
<1>4. units \in Seq(Nat) /\ IsInjective(units) /\ ToSet(units) \subseteq 1..StartLen
  BY <1>1, <1>3, SeqDef DEF IsInjective, ToSet
<1>5. nextId \in 1..MaxId + 1 /\ nextId - 1 = StartLen
  BY <1>1, <1>2
<1>6. ListGood(units, lobbies, nextId)
  BY <1>2, <1>4, <1>5 DEF ListGood
<1>7. JournalGood(journal, units, nextId) /\ ~journal.open
  BY <1>2, OpenIs DEF JournalGood
<1>8. LInv
  BY <1>2, <1>6, <1>7, TrailNone DEF LInv
<1>9. History!Init
  BY <1>2, <1>6, <1>7, Begun, TrailNone DEF History!Init, Tos
<1> QED BY <1>8, <1>9

LEMMA NextPlain == LInv /\ [Next]_vars => LInv' /\ [History!Next]_History!vars
<1> SUFFICES ASSUME LInv, [Next]_vars PROVE LInv' /\ [History!Next]_History!vars
  OBVIOUS
<1>1. CASE UNCHANGED vars
  <2>1. LInv'
    BY <1>1 DEF LInv, vars, ListGood, JournalGood, Base
  <2>2. UNCHANGED History!vars
    BY <1>1 DEF vars, History!vars
  <2> QED BY <2>1, <2>2
<1>2. CASE Next
  BY <1>2, ClosePlain, PlacePlain, WritePlain, RemovePlain, BrushPlain, StepPlain DEF Next
<1> QED BY <1>1, <1>2

-----------------------------------------------------------------------------
(* The specification.                                                      *)

(* The open journal always knows the list its gesture found, and the steps *)
(* of both stacks always lead on from there, list by list.                 *)
THEOREM ListInvariant == Spec => []LInv
<1>1. Init => LInv
  BY InitPlain
<1>2. LInv /\ [Next]_vars => LInv'
  BY NextPlain
<1> QED BY <1>1, <1>2, PTL DEF Spec

(* No unit stands twice in the list, ids are not handed out again, the     *)
(* stacks keep no more than UNDO_CAP steps, and the journal notes no place *)
(* as gone twice (the assertion of note_gone in undo_journal.rs).          *)
THEOREM ListTyped == Spec => []TypeOK
<1>1. LInv => TypeOK
  <2> SUFFICES ASSUME LInv PROVE TypeOK
    OBVIOUS
  <2>1. /\ units \in Seq(1..nextId - 1) /\ IsInjective(units)
        /\ nextId \in 1..MaxId + 1 /\ lobbies \subseteq 1..nextId - 1
    BY SeqWithin DEF LInv, ListGood
  <2>2. Len(undo) <= UndoCap /\ Len(redo) <= UndoCap
    BY DEF LInv, Trail
  <2>3. ASSUME journal.open
        PROVE  \A m, n \in DOMAIN journal.gone : m < n => journal.gone[m] < journal.gone[n]
    <3>1. JournalKnows(journal, journal.found, units, nextId)
      BY <2>3, OpenIs DEF LInv, JournalGood
    <3>2. Sorted(journal.gone)
      BY <3>1 DEF JournalKnows, Knows, Places
    <3>3. DOMAIN journal.gone = 1..Len(journal.gone)
      BY <3>2, LenProperties DEF Sorted
    <3> QED BY <3>2, <3>3 DEF Sorted
  <2> QED BY <2>1, <2>2, <2>3 DEF TypeOK
<1> QED BY <1>1, ListInvariant, PTL

(* Whatever left the list before it, however the search by halving went    *)
(* and whatever the brush moved, a unit the journal heard of has the place *)
(* it had in the list the gesture found (original() in undo_journal.rs).   *)
THEOREM PlacesStayOriginal == Spec => []PlacesAreOriginal
<1>1. LInv => PlacesAreOriginal
  <2> SUFFICES ASSUME LInv, journal.open, NEW t \in journal.touched, t.was
               PROVE  t.at < Len(journal.found) /\ journal.found[t.at + 1] = t.id
    BY DEF PlacesAreOriginal
  <2>1. JournalKnows(journal, journal.found, units, nextId)
    BY OpenIs DEF LInv, JournalGood
  <2> QED BY <2>1 DEF JournalKnows, Knows, Heard
<1> QED BY <1>1, ListInvariant, PTL

(* The steps, each holding only the places and units one gesture changed,  *)
(* are a history of whole lists: an undo gives back just the list the      *)
(* gesture found, in its order, and a redo the one it left.                *)
THEOREM ListsRestored == Spec => RestoresWholeLists
<1>1. Init => History!Init
  BY InitPlain
<1>2. LInv /\ [Next]_vars => [History!Next]_History!vars
  BY NextPlain
<1> QED BY <1>1, <1>2, ListInvariant, PTL DEF Spec, RestoresWholeLists, History!Spec

(* The step an undo or a redo would take fits the list.                    *)
NoStepIsStale ==
    \A stack \in {UndoCommitted, RedoCommitted} :
        stack # <<>> => StepFits(Last(stack), units)

(* Where every edit is made in a gesture, no step is dropped as stale      *)
(* (StepRefused::Stale in sim_undo_check.rs).                              *)
THEOREM NoneStale == Spec => []NoStepIsStale
<1>1. LInv => NoStepIsStale
  <2> SUFFICES ASSUME LInv, NEW stack, Trail(stack, units, nextId), stack # <<>>
               PROVE  StepFits(Last(stack), units)
    BY Closed DEF NoStepIsStale
  <2>1. Leads(Last(stack), units, Last(stack).to)
    BY TrailNewest
  <2> QED BY <2>1, LeadsFits
<1> QED BY <1>1, ListInvariant, PTL

(* The lobby brush moves what it laid once, at its end, and so leaves the  *)
(* list that laying tile by tile would (with_lobby_upgrades).              *)
THEOREM BrushKeepsTheOrder == Spec => BrushKeepsOrder
<1>1. LInv /\ [Next]_vars => [lobbies' # lobbies => BrushOrder]_vars
  <2> SUFFICES ASSUME LInv, Next, lobbies' # lobbies PROVE BrushOrder
    BY DEF vars
  <2>1. LobbyBrush
    BY DEF Next, Capture, Commit, Place, EditInPlace, RemoveUnits, Undo, Redo
  <2> QED BY <2>1, BrushPlain
<1> QED BY <1>1, ListInvariant, PTL DEF Spec, BrushKeepsOrder, BrushOrder
==============================================================================
