------------------------------- MODULE Induction -------------------------------
(***************************************************************************)
(* Induction over numbers, and the functions it defines, with sets and      *)
(* functions where the library's theorems take operators.  The models fold  *)
(* a step over the fires of a day, the rooms of a tower, the cars of a      *)
(* shaft or the people of a crowd as a function of how many were taken so   *)
(* far; these lemmas say such a function exists, and prove what it computes.*)
(***************************************************************************)
EXTENDS Integers, WellFoundedInduction, TLAPS

\* Any numbers have a least one.
LEMMA Least ==
    ASSUME NEW T \in SUBSET Nat, T # {}
    PROVE  \E m \in T : \A k \in T : m <= k
<1> DEFINE R == OpToRel(<, Nat)
<1>1. IsWellFoundedOn(R, Nat)
  BY NatLessThanWellFounded
<1>2. \A x, y \in Nat : <<y, x>> \in R <=> y < x
  BY DEF OpToRel
<1> HIDE DEF R
<1>3. PICK x \in T : \A y \in T : ~(<<y, x>> \in R)
  BY <1>1, WFMin
<1>4. \A y \in T : ~(y < x) /\ x \in Nat /\ y \in Nat
  BY <1>2, <1>3
<1> QED BY <1>4

\* A set that has 0, and with a number the next, has them all.
LEMMA Induction ==
    ASSUME NEW S, 0 \in S, \A n \in Nat : n \in S => n + 1 \in S
    PROVE  Nat \subseteq S
<1> SUFFICES ASSUME Nat \ S # {} PROVE FALSE
  OBVIOUS
<1>1. PICK m \in Nat \ S : \A k \in Nat \ S : m <= k
  BY Least
<1>2. m # 0 /\ m - 1 \in Nat /\ m - 1 \in S
  BY <1>1
<1> QED BY <1>1, <1>2

\* The same up to a bound.
LEMMA InductionTo ==
    ASSUME NEW N \in Nat, NEW S, 0 \in S, \A n \in 1..N : n - 1 \in S => n \in S
    PROVE  0..N \subseteq S
<1> DEFINE T == {n \in Nat : n <= N => n \in S}
<1>1. 0 \in T
  OBVIOUS
<1>2. ASSUME NEW n \in Nat, n \in T PROVE n + 1 \in T
  <2> SUFFICES ASSUME n + 1 <= N PROVE n + 1 \in S
    BY <1>2
  <2>1. n \in S /\ n + 1 \in 1..N
    BY <1>2
  <2> QED BY <2>1
<1>3. Nat \subseteq T
  <2> HIDE DEF T
  <2> QED BY <1>1, <1>2, Induction
<1> QED BY <1>3

\* N steps to take in B, and f that starts from a and takes them.
StepsIn(N, B) == [(1..N) \X B -> B]
Takes(f, a, step, N, B) ==
    /\ f \in [0..N -> B] /\ f[0] = a
    /\ \A n \in 1..N : f[n] = step[<<n, f[n - 1]>>]

\* From any start, any steps can be taken.
LEMMA Recursion ==
    ASSUME NEW N \in Nat, NEW B, NEW a \in B, NEW step \in StepsIn(N, B)
    PROVE  \E f : Takes(f, a, step, N, B)
<1> USE DEF StepsIn
<1> DEFINE Goes(f, m) == f[0] = a /\ \A n \in 1..m : f[n] = step[<<n, f[n - 1]>>]
           S == {m \in 0..N : \E f \in [0..m -> B] : Goes(f, m)}
<1>1. 0 \in S
  <2> DEFINE f == [n \in 0..0 |-> a]
  <2>1. f \in [0..0 -> B] /\ Goes(f, 0)
    OBVIOUS
  <2> HIDE DEF f
  <2>2. \E g \in [0..0 -> B] : Goes(g, 0)
    BY <2>1
  <2> HIDE DEF Goes
  <2> QED BY <2>2
<1>2. ASSUME NEW m \in 1..N, m - 1 \in S PROVE m \in S
  <2>1. PICK f \in [0..m - 1 -> B] : Goes(f, m - 1)
    BY <1>2
  <2> DEFINE g == [n \in 0..m |-> IF n = m THEN step[<<m, f[m - 1]>>] ELSE f[n]]
  <2>2. step[<<m, f[m - 1]>>] \in B
    <3>1. f[m - 1] \in B
      BY <2>1
    <3> QED BY <3>1
  <2>3. g \in [0..m -> B]
    BY <2>2
  <2>4. g[0] = a /\ g[m] = step[<<m, f[m - 1]>>] /\ \A n \in 0..m - 1 : g[n] = f[n]
    BY <2>1
  <2>5. Goes(g, m)
    <3> SUFFICES ASSUME NEW n \in 1..m PROVE g[n] = step[<<n, g[n - 1]>>]
      BY <2>4
    <3> HIDE DEF g
    <3>1. g[n - 1] = f[n - 1]
      BY <2>4
    <3>2. CASE n = m
      BY <2>4, <3>1, <3>2
    <3>3. CASE n \in 1..m - 1
      BY <2>1, <2>4, <3>1, <3>3
    <3> QED BY <3>2, <3>3
  <2> HIDE DEF g
  <2> QED BY <2>3, <2>5
<1>3. 0..N \subseteq S
  <2> HIDE DEF S
  <2> QED BY <1>1, <1>2, InductionTo
<1>4. N \in S
  BY <1>3
<1> QED BY <1>4 DEF Takes

-----------------------------------------------------------------------------
(* The sum of n numbers, as the models add them up.                        *)
Terms(n) == [1..n -> Int]
SumTo(n, f) == LET upto[k \in 0..n] == IF k = 0 THEN 0 ELSE upto[k - 1] + f[k]
               IN  upto[n]

\* The sums of the first so many of them.
Sums(s, n, f) == /\ s \in [0..n -> Int] /\ s[0] = 0
                 /\ \A k \in 1..n : s[k] = s[k - 1] + f[k]

LEMMA SumExists ==
    ASSUME NEW n \in Nat, NEW f \in Terms(n)
    PROVE  \E s : Sums(s, n, f) /\ SumTo(n, f) = s[n]
<1> DEFINE Made(g) == g = [k \in 0..n |-> IF k = 0 THEN 0 ELSE g[k - 1] + f[k]]
           step == [p \in (1..n) \X Int |-> p[2] + f[p[1]]]
<1>1. \A k \in 1..n : f[k] \in Int
  BY DEF Terms
<1>2. step \in StepsIn(n, Int)
  BY <1>1 DEF StepsIn
<1>3. \A k \in 1..n, b \in Int : step[<<k, b>>] = b + f[k]
  OBVIOUS
<1> HIDE DEF step
<1>4. PICK g : Takes(g, 0, step, n, Int)
  <2>1. 0 \in Int
    OBVIOUS
  <2> QED BY <1>2, <2>1, Recursion
<1>5. Made(g)
  <2>1. g = [k \in 0..n |-> g[k]] /\ \A k \in 0..n : k = 0 \/ k \in 1..n
    BY <1>4 DEF Takes
  <2>2. \A k \in 1..n : k # 0 /\ g[k - 1] \in Int /\ g[k] = step[<<k, g[k - 1]>>]
    BY <1>4 DEF Takes
  <2>3. \A k \in 0..n : g[k] = IF k = 0 THEN 0 ELSE g[k - 1] + f[k]
    BY <1>3, <1>4, <2>1, <2>2 DEF Takes
  <2> QED BY <2>1, <2>3
<1> DEFINE s == CHOOSE h : Made(h)
<1>6. Made(s)
  BY <1>5
<1>7. SumTo(n, f) = s[n]
  BY DEF SumTo
<1> HIDE DEF s
<1>8. s[0] = 0 /\ \A k \in 1..n : s[k] = s[k - 1] + f[k]
  <2>1. 0 \in 0..n /\ \A k \in 1..n : k \in 0..n /\ k # 0
    OBVIOUS
  <2> QED BY <1>6, <2>1
<1>9. s \in [0..n -> Int]
  <2> DEFINE S == {k \in 0..n : s[k] \in Int}
  <2>1. 0 \in S /\ \A k \in 1..n : k - 1 \in S => k \in S
    BY <1>1, <1>8
  <2>2. 0..n \subseteq S
    <3> HIDE DEF S
    <3> QED BY <2>1, InductionTo
  <2> QED BY <1>6, <2>2
<1> QED BY <1>7, <1>8, <1>9 DEF Sums

\* It is a number, and no larger than a sum of larger terms.
LEMMA SumLess ==
    ASSUME NEW n \in Nat, NEW f \in Terms(n), NEW g \in Terms(n),
           \A k \in 1..n : f[k] <= g[k]
    PROVE  SumTo(n, f) \in Int /\ SumTo(n, g) \in Int /\ SumTo(n, f) <= SumTo(n, g)
<1>1. PICK s : Sums(s, n, f) /\ SumTo(n, f) = s[n]
  BY SumExists
<1>2. PICK t : Sums(t, n, g) /\ SumTo(n, g) = t[n]
  BY SumExists
<1> DEFINE S == {k \in 0..n : s[k] <= t[k]}
<1>3. 0 \in S
  BY <1>1, <1>2 DEF Sums
<1>4. \A k \in 1..n : k - 1 \in S => k \in S
  BY <1>1, <1>2 DEF Sums, Terms
<1>5. 0..n \subseteq S
  <2> HIDE DEF S
  <2> QED BY <1>3, <1>4, InductionTo
<1>6. n \in S
  BY <1>5
<1> QED BY <1>1, <1>2, <1>6 DEF Sums

\* Equal terms have equal sums.
LEMMA SumSame ==
    ASSUME NEW n \in Nat, NEW f \in Terms(n), NEW g \in Terms(n),
           \A k \in 1..n : f[k] = g[k]
    PROVE  SumTo(n, f) = SumTo(n, g)
BY DEF Terms

\* Sums add up.
LEMMA SumPlus ==
    ASSUME NEW n \in Nat, NEW f \in Terms(n), NEW g \in Terms(n), NEW h \in Terms(n),
           \A k \in 1..n : h[k] = f[k] + g[k]
    PROVE  SumTo(n, h) = SumTo(n, f) + SumTo(n, g)
<1>1. PICK s : Sums(s, n, f) /\ SumTo(n, f) = s[n]
  BY SumExists
<1>2. PICK t : Sums(t, n, g) /\ SumTo(n, g) = t[n]
  BY SumExists
<1>3. PICK u : Sums(u, n, h) /\ SumTo(n, h) = u[n]
  BY SumExists
<1> DEFINE S == {k \in 0..n : u[k] = s[k] + t[k]}
<1>4. 0 \in S
  BY <1>1, <1>2, <1>3 DEF Sums
<1>5. \A k \in 1..n : k - 1 \in S => k \in S
  BY <1>1, <1>2, <1>3 DEF Sums, Terms
<1>6. 0..n \subseteq S
  <2> HIDE DEF S
  <2> QED BY <1>4, <1>5, InductionTo
<1>7. n \in S
  BY <1>6
<1> QED BY <1>1, <1>2, <1>3, <1>7

\* A sum is its terms up to some number and those after it: here the last.
LEMMA SumLast ==
    ASSUME NEW n \in Nat, NEW f \in Terms(n), NEW g \in Terms(n + 1),
           \A k \in 1..n : f[k] = g[k]
    PROVE  SumTo(n + 1, g) = SumTo(n, f) + g[n + 1]
<1>1. PICK s : Sums(s, n, f) /\ SumTo(n, f) = s[n]
  BY SumExists
<1>2. PICK t : Sums(t, n + 1, g) /\ SumTo(n + 1, g) = t[n + 1]
  BY SumExists
<1> DEFINE S == {k \in 0..n : t[k] = s[k]}
<1>3. 0 \in S
  BY <1>1, <1>2 DEF Sums
<1>4. \A k \in 1..n : k - 1 \in S => k \in S
  BY <1>1, <1>2 DEF Sums, Terms
<1>5. 0..n \subseteq S
  <2> HIDE DEF S
  <2> QED BY <1>3, <1>4, InductionTo
<1>6. n \in S /\ t[n + 1] = t[(n + 1) - 1] + g[n + 1] /\ (n + 1) - 1 = n
  BY <1>2, <1>5 DEF Sums
<1> QED BY <1>1, <1>2, <1>6

\* ... or the first.
LEMMA SumFirst ==
    ASSUME NEW n \in Nat, NEW f \in Terms(n), NEW g \in Terms(n + 1),
           \A k \in 1..n : f[k] = g[k + 1]
    PROVE  SumTo(n + 1, g) = g[1] + SumTo(n, f)
<1>1. PICK s : Sums(s, n, f) /\ SumTo(n, f) = s[n]
  BY SumExists
<1>2. PICK t : Sums(t, n + 1, g) /\ SumTo(n + 1, g) = t[n + 1]
  BY SumExists
<1> DEFINE S == {k \in 0..n : t[k + 1] = g[1] + s[k]}
<1>0. g[1] \in Int /\ 1 \in 1..n + 1 /\ t[1] = t[1 - 1] + g[1]
  BY <1>2 DEF Sums, Terms
<1>3. 0 \in S
  BY <1>0, <1>1, <1>2 DEF Sums
<1>4. ASSUME NEW k \in 1..n, k - 1 \in S PROVE k \in S
  <2>1. /\ t[(k - 1) + 1] = g[1] + s[k - 1] /\ k + 1 \in 1..n + 1
        /\ (k - 1) + 1 = k /\ (k + 1) - 1 = k
    BY <1>4
  <2>2. t[k + 1] = t[k] + g[k + 1] /\ s[k] = s[k - 1] + f[k] /\ s[k - 1] \in Int
    BY <1>1, <1>2, <2>1 DEF Sums
  <2> QED BY <1>0, <2>1, <2>2 DEF Terms
<1>5. 0..n \subseteq S
  <2> HIDE DEF S
  <2> QED BY <1>3, <1>4, InductionTo
<1>6. n \in S
  BY <1>5
<1> QED BY <1>1, <1>2, <1>6

\* Where all but the first m terms are nothing, they make the sum.
LEMMA SumEarly ==
    ASSUME NEW n \in Nat, NEW m \in 0..n, NEW f \in Terms(m), NEW g \in Terms(n),
           \A k \in 1..n : g[k] = IF k <= m THEN f[k] ELSE 0
    PROVE  SumTo(n, g) = SumTo(m, f)
<1>1. PICK s : Sums(s, m, f) /\ SumTo(m, f) = s[m]
  BY SumExists
<1>2. PICK t : Sums(t, n, g) /\ SumTo(n, g) = t[n]
  BY SumExists
<1> DEFINE S == {k \in 0..n : t[k] = IF k <= m THEN s[k] ELSE s[m]}
<1>3. 0 \in S
  BY <1>1, <1>2 DEF Sums
<1>4. ASSUME NEW k \in 1..n, k - 1 \in S PROVE k \in S
  <2>1. t[k] = t[k - 1] + g[k] /\ m \in 0..m
    BY <1>2 DEF Sums
  <2>2. CASE k <= m
    <3>1. k \in 1..m /\ k - 1 <= m
      BY <2>2
    <3> QED BY <1>1, <1>4, <2>1, <2>2, <3>1 DEF Sums
  <2>3. CASE k = m + 1
    <3>1. k - 1 = m /\ s[m] \in Int /\ ~(k <= m)
      BY <1>1, <2>3, <2>1 DEF Sums
    <3> QED BY <1>4, <2>1, <3>1
  <2>4. CASE k > m + 1
    <3>1. s[m] \in Int /\ ~(k <= m) /\ ~(k - 1 <= m)
      BY <1>1, <2>4, <2>1 DEF Sums
    <3> QED BY <1>4, <2>1, <3>1
  <2> QED BY <2>2, <2>3, <2>4
<1>5. 0..n \subseteq S
  <2> HIDE DEF S
  <2> QED BY <1>3, <1>4, InductionTo
<1>6. n \in S /\ (n <= m => n = m)
  BY <1>5
<1> QED BY <1>1, <1>2, <1>6

\* One term, if it is the only one.
LEMMA SumOnly ==
    ASSUME NEW n \in Nat, NEW f \in Terms(n), NEW i \in 1..n,
           \A k \in 1..n : k # i => f[k] = 0
    PROVE  SumTo(n, f) = f[i]
<1>1. PICK s : Sums(s, n, f) /\ SumTo(n, f) = s[n]
  BY SumExists
<1> DEFINE S == {k \in 0..n : s[k] = IF k < i THEN 0 ELSE f[i]}
<1>2. 0 \in S
  BY <1>1 DEF Sums
<1>3. ASSUME NEW k \in 1..n, k - 1 \in S PROVE k \in S
  <2>1. s[k] = s[k - 1] + f[k] /\ f[k] \in Int /\ f[i] \in Int
    BY <1>1 DEF Sums, Terms
  <2>2. s[k - 1] = IF k - 1 < i THEN 0 ELSE f[i]
    BY <1>3
  <2>3. CASE k < i
    BY <2>1, <2>2, <2>3
  <2>4. CASE k = i
    BY <2>1, <2>2, <2>4
  <2>5. CASE k > i
    BY <2>1, <2>2, <2>5
  <2> QED BY <2>3, <2>4, <2>5
<1>4. 0..n \subseteq S
  <2> HIDE DEF S
  <2> QED BY <1>2, <1>3, InductionTo
<1>5. n \in S /\ ~(n < i)
  BY <1>4
<1> QED BY <1>1, <1>5

\* So many equal terms.
LEMMA SumEqual ==
    ASSUME NEW n \in Nat, NEW f \in Terms(n), NEW m \in 0..n, NEW c \in 0..n - m,
           NEW p \in Nat,
           \A k \in 1..n : f[k] = IF k \in m + 1..m + c THEN p ELSE 0
    PROVE  SumTo(n, f) = c * p
<1>1. PICK s : Sums(s, n, f) /\ SumTo(n, f) = s[n]
  BY SumExists
<1> DEFINE So(k) == IF k <= m THEN 0 ELSE IF k <= m + c THEN k - m ELSE c
           S == {k \in 0..n : s[k] = So(k) * p}
<1>2. 0 \in S
  BY <1>1 DEF Sums
<1>3. ASSUME NEW k \in 1..n, k - 1 \in S PROVE k \in S
  <2>1. s[k] = s[k - 1] + f[k] /\ s[k - 1] = So(k - 1) * p
    BY <1>1, <1>3 DEF Sums
  <2>2. CASE k \in m + 1..m + c
    <3>1. So(k) = So(k - 1) + 1 /\ So(k - 1) \in Int
      BY <2>2
    <3> HIDE DEF So
    <3>2. So(k) * p = So(k - 1) * p + p
      BY <3>1
    <3> QED BY <2>1, <2>2, <3>2
  <2>3. CASE k \notin m + 1..m + c
    <3>1. So(k) = So(k - 1) /\ So(k - 1) \in Int
      BY <2>3
    <3> HIDE DEF So
    <3>2. So(k - 1) * p \in Int
      BY <3>1
    <3> QED BY <2>1, <2>3, <3>1, <3>2
  <2> QED BY <2>2, <2>3
<1>4. 0..n \subseteq S
  <2> HIDE DEF S
  <2> QED BY <1>2, <1>3, InductionTo
<1>5. n \in S /\ So(n) = c
  BY <1>4
<1> QED BY <1>1, <1>5

\* Sums of terms that differ in one.
LEMMA SumShift ==
    ASSUME NEW n \in Nat, NEW f \in Terms(n), NEW g \in Terms(n), NEW i \in 1..n,
           \A k \in 1..n : k # i => f[k] = g[k]
    PROVE  SumTo(n, f) = SumTo(n, g) + (f[i] - g[i])
<1> DEFINE d == [k \in 1..n |-> IF k = i THEN f[i] - g[i] ELSE 0]
<1>1. \A k \in 1..n : f[k] \in Int /\ g[k] \in Int
  BY DEF Terms
<1>2. d \in Terms(n)
  BY <1>1 DEF Terms
<1>3. (\A k \in 1..n : k # i => d[k] = 0) /\ d[i] = f[i] - g[i]
  OBVIOUS
<1>4. \A k \in 1..n : f[k] = g[k] + d[k]
  BY <1>1
<1> HIDE DEF d
<1>5. SumTo(n, d) = d[i]
  BY <1>2, <1>3, SumOnly
<1>6. SumTo(n, f) = SumTo(n, g) + SumTo(n, d)
  BY <1>2, <1>4, SumPlus
<1> QED BY <1>3, <1>5, <1>6

\* Pairs of terms, compared together.
LEMMA SumPairs ==
    ASSUME NEW n \in Nat, NEW f \in Terms(n), NEW c \in Terms(n),
           NEW g \in Terms(n), NEW d \in Terms(n),
           \A k \in 1..n : f[k] + c[k] <= g[k] + d[k]
    PROVE  SumTo(n, f) + SumTo(n, c) <= SumTo(n, g) + SumTo(n, d)
<1> DEFINE p == [k \in 1..n |-> f[k] + c[k]]
           q == [k \in 1..n |-> g[k] + d[k]]
<1>1. \A k \in 1..n : f[k] \in Int /\ g[k] \in Int /\ c[k] \in Int /\ d[k] \in Int
  BY DEF Terms
<1>2. p \in Terms(n) /\ q \in Terms(n)
  <2>1. \A k \in 1..n : f[k] + c[k] \in Int /\ g[k] + d[k] \in Int
    BY <1>1
  <2>2. p \in [1..n -> Int] /\ q \in [1..n -> Int]
    BY <2>1
  <2> QED BY <2>2 DEF Terms
<1>3. /\ \A k \in 1..n : p[k] = f[k] + c[k]
      /\ \A k \in 1..n : q[k] = g[k] + d[k]
      /\ \A k \in 1..n : p[k] <= q[k]
  OBVIOUS
<1> HIDE DEF p, q
<1>4. SumTo(n, p) = SumTo(n, f) + SumTo(n, c)
  BY <1>2, <1>3, SumPlus, Zenon
<1>5. SumTo(n, q) = SumTo(n, g) + SumTo(n, d)
  BY <1>2, <1>3, SumPlus, Zenon
<1>6. SumTo(n, p) <= SumTo(n, q)
  BY <1>2, <1>3, SumLess
<1> QED BY <1>4, <1>5, <1>6

\* No terms, and terms that are nothing.
LEMMA SumNone ==
    ASSUME NEW n \in Nat, NEW f \in Terms(n), \A k \in 1..n : f[k] = 0
    PROVE  SumTo(n, f) = 0
<1>1. \A k \in 1..n : f[k] = f[k] + f[k]
  OBVIOUS
<1>2. SumTo(n, f) = SumTo(n, f) + SumTo(n, f)
  BY <1>1, SumPlus, Zenon
<1>3. SumTo(n, f) \in Int
  <2>1. \A k \in 1..n : f[k] <= f[k]
    OBVIOUS
  <2> QED BY <2>1, SumLess, Zenon
<1> DEFINE s == SumTo(n, f)
<1> HIDE DEF s
<1>4. s = s + s /\ s \in Int
  BY <1>2, <1>3 DEF s
<1>5. s = 0
  BY <1>4
<1> QED BY <1>5 DEF s

\* The sum is what any function that adds the terms up comes to, and there is one.
AddsUp(g, n, f) == g = [k \in 0..n |-> IF k = 0 THEN 0 ELSE g[k - 1] + f[k]]

LEMMA SumMade ==
    ASSUME NEW n \in Nat, NEW f \in Terms(n)
    PROVE  /\ \E g : AddsUp(g, n, f)
           /\ \A g : AddsUp(g, n, f) => SumTo(n, f) = g[n]
<1>1. PICK s : Sums(s, n, f) /\ SumTo(n, f) = s[n]
  BY SumExists
<1>2. AddsUp(s, n, f)
  <2>1. s = [k \in 0..n |-> s[k]] /\ \A k \in 0..n : k = 0 \/ k \in 1..n
    BY <1>1 DEF Sums
  <2>2. \A k \in 0..n : s[k] = IF k = 0 THEN 0 ELSE s[k - 1] + f[k]
    BY <1>1, <2>1 DEF Sums
  <2> QED BY <2>1, <2>2 DEF AddsUp
<1>3. ASSUME NEW g, AddsUp(g, n, f) PROVE SumTo(n, f) = g[n]
  <2>1. g[0] = 0 /\ \A k \in 1..n : g[k] = g[k - 1] + f[k]
    <3>1. 0 \in 0..n /\ \A k \in 1..n : k \in 0..n /\ k # 0
      OBVIOUS
    <3> QED BY <1>3, <3>1 DEF AddsUp
  <2> DEFINE S == {k \in 0..n : g[k] = s[k]}
  <2>2. 0 \in S /\ \A k \in 1..n : k - 1 \in S => k \in S
    BY <1>1, <2>1 DEF Sums
  <2>3. 0..n \subseteq S
    <3> HIDE DEF S
    <3> QED BY <2>2, InductionTo
  <2>4. n \in S
    BY <2>3
  <2> QED BY <1>1, <2>4
<1> QED BY <1>2, <1>3
==============================================================================
