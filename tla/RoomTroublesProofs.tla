-------------------------- MODULE RoomTroublesProofs --------------------------
(***************************************************************************)
(* Proofs about RoomTroubles, for any rooms, places, kinds, towers to begin *)
(* with, days of neglect, reach of a bomb and number of edits.  Every       *)
(* property the run checks of it is a theorem here.  A step is seen as what *)
(* it does to one room: a blaze burns and guts rooms (Blazed), an hour of   *)
(* the hotel moves the rest (Tended); the invariant says what the count of  *)
(* dirty days stands for, in the rooms and in the sales undo would put back.*)
(***************************************************************************)
EXTENDS RoomTroubles, Induction, FiniteSetTheorems, TLAPS

Layout == [Id -> Room \cup {None}]
States == {"empty", "asleep", "dirty", "infested", "fire", "gutted"}

\* No room is listed twice.
OneEach(fires) == \A m, n \in 1..Len(fires) : fires[m] = fires[n] => m = n

\* The fires in hand are the rooms that burn, each once.
Tracked(at) ==
    /\ at \in [rooms : Layout, active : Seq(Id)] /\ OneEach(at.active)
    /\ ToSet(at.active) = In(at.rooms, {"fire"})

\* A room is dirty or slept in only in a hotel, and its days are the mornings in
\* a row that found it dirty; those of a room that burns are used no more.
RoomFits(i, r, mornings) ==
    /\ r.is \in {"asleep", "dirty", "infested"} => Kind[i] = "hotel"
    /\ r.is # "fire" => r.days = IF r.is = "dirty" THEN mornings ELSE 0

\* So it is for the rooms built and for those undo would put back, and no id is
\* both.
DaysCounted ==
    \A i \in Id :
        /\ rooms[i] # None => RoomFits(i, rooms[i], seen[i]) /\ sold[i] = None
        /\ sold[i] # None => RoomFits(i, sold[i], seen[i]) /\ sold[i].is # "fire"

\* A booking is for the rooms it was paid for.
BookedIsPaid == due # None => billed = paid

IInv ==
    /\ TypeOK /\ Tracked(Blaze) /\ (pending = "fireRescue" => active # <<>>)
    /\ DaysCounted /\ BookedIsPaid

-----------------------------------------------------------------------------
(* Rooms.                                                                  *)

\* No room is no room at all, and a room may be untouched.
LEMMA NoneIsNone == (\A r \in Room : r # None) /\ 0 \in Dirt
BY RoomAssumption DEF Dirt

\* A room of a tower.
LEMMA RoomOf ==
    ASSUME NEW rs \in Layout
    PROVE  /\ \A i \in Built(rs) : i \in Id /\ rs[i] \in Room /\ rs[i].is \in States
                                   /\ rs[i].days \in Dirt
           /\ \A i \in Id \ Built(rs) : rs[i] = None
           /\ \A r \in Room : r # None
BY RoomAssumption DEF Layout, Built, Room, States

\* A room of a state, with some days.
LEMMA RoomWith ==
    ASSUME NEW s \in States, NEW d \in Dirt
    PROVE  /\ [is |-> s, days |-> d] \in Room
           /\ \A r \in Room : /\ [r EXCEPT !.is = s] \in Room
                              /\ [r EXCEPT !.is = s].is = s
                              /\ [r EXCEPT !.is = s].days = r.days
BY DEF Room, States

LEMMA CleanRoom ==
    ASSUME NEW s \in States
    PROVE  Clean(s) \in Room /\ Clean(s).is = s /\ Clean(s).days = 0 /\ Clean(s) # None
BY RoomWith, NoneIsNone DEF Clean

\* Rooms turned to a state: those rooms only, and their days are kept.
LEMMA TurnedFacts ==
    ASSUME NEW rs \in Layout, NEW some \in SUBSET Built(rs), NEW s \in States
    PROVE  /\ Turned(rs, some, s) \in Layout
           /\ \A i \in Id : Turned(rs, some, s)[i] = None <=> rs[i] = None
           /\ \A i \in some : Turned(rs, some, s)[i].is = s
                              /\ Turned(rs, some, s)[i].days = rs[i].days
           /\ \A i \in Id \ some : Turned(rs, some, s)[i] = rs[i]
<1>1. \A i \in some : /\ i \in Id /\ rs[i] \in Room /\ rs[i] # None
                      /\ [rs[i] EXCEPT !.is = s] \in Room
                      /\ [rs[i] EXCEPT !.is = s].is = s
                      /\ [rs[i] EXCEPT !.is = s].days = rs[i].days
  BY RoomOf, RoomWith, NoneIsNone
<1> DEFINE t == Turned(rs, some, s)
<1>2. \A i \in Id : t[i] = IF i \in some THEN [rs[i] EXCEPT !.is = s] ELSE rs[i]
  BY DEF Turned
<1>3. \A i \in some : t[i] \in Room /\ t[i].is = s /\ t[i].days = rs[i].days
  BY <1>1, <1>2
<1>4. \A i \in Id \ some : t[i] = rs[i]
  BY <1>2
<1>5. t = [i \in Id |-> t[i]]
  BY DEF Turned
<1> HIDE DEF t
<1>6. \A i \in Id : t[i] \in Room \cup {None} /\ (t[i] = None <=> rs[i] = None)
  <2> SUFFICES ASSUME NEW i \in Id
               PROVE  t[i] \in Room \cup {None} /\ (t[i] = None <=> rs[i] = None)
    OBVIOUS
  <2>1. CASE i \in some
    <3>1. t[i] \in Room /\ rs[i] # None /\ t[i] # None
      BY <1>1, <1>3, <2>1, NoneIsNone
    <3> QED BY <3>1
  <2>2. CASE i \notin some
    BY <1>4, <2>2 DEF Layout
  <2> QED BY <2>1, <2>2
<1>7. t \in Layout
  BY <1>5, <1>6 DEF Layout
<1> QED BY <1>3, <1>4, <1>6, <1>7 DEF t

\* Rooms made anew in a state: those rooms only.
LEMMA RenewedFacts ==
    ASSUME NEW rs \in Layout, NEW some \in SUBSET Built(rs), NEW s \in States
    PROVE  /\ Renewed(rs, some, s) \in Layout
           /\ \A i \in Id : Renewed(rs, some, s)[i] = None <=> rs[i] = None
           /\ \A i \in some : Renewed(rs, some, s)[i] = Clean(s)
           /\ \A i \in Id \ some : Renewed(rs, some, s)[i] = rs[i]
BY CleanRoom, RoomOf DEF Renewed, Layout

-----------------------------------------------------------------------------
(* The list of fires.                                                      *)

\* A list that names no room twice is as long as what it lists.
LEMMA OneEachCounts ==
    ASSUME NEW fires \in Seq(Id), OneEach(fires)
    PROVE  Len(fires) = Cardinality(ToSet(fires))
<1> DEFINE n == Len(fires)
           T == ToSet(fires)
<1>1. n \in Nat /\ DOMAIN fires = 1..n
  OBVIOUS
<1>2. T = {fires[m] : m \in 1..n}
  BY <1>1 DEF ToSet
<1>3. fires \in [1..n -> T] /\ fires \in Surjection(1..n, T) /\ fires \in Injection(1..n, T)
  <2> HIDE DEF T
  <2>1. fires \in [1..n -> T]
    BY <1>1, <1>2
  <2> QED BY <2>1, <1>2 DEF Surjection, Injection, IsInjective, OneEach
<1>4. IsFiniteSet(1..n) /\ Cardinality(1..n) = n
  <2> HIDE DEF n
  <2>1. IsFiniteSet(1..n) /\ Cardinality(1..n) = IF 1 > n THEN 0 ELSE n - 1 + 1
    BY <1>1, FS_Interval
  <2> QED BY <1>1, <2>1
<1>5. Cardinality(T) = Cardinality(1..n)
  <2> HIDE DEF T, n
  <2> QED BY <1>3, <1>4, FS_Surjection
<1> QED BY <1>4, <1>5

\* A fire added to a list it is not in.
LEMMA AppendFacts ==
    ASSUME NEW fires \in Seq(Id), OneEach(fires), NEW i \in Id, i \notin ToSet(fires)
    PROVE  /\ Append(fires, i) \in Seq(Id) /\ OneEach(Append(fires, i))
           /\ ToSet(Append(fires, i)) = ToSet(fires) \cup {i}
<1> DEFINE n == Len(fires)
           a == Append(fires, i)
<1>1. n \in Nat /\ a \in Seq(Id) /\ Len(a) = n + 1 /\ a[n + 1] = i
      /\ \A m \in 1..n : a[m] = fires[m] /\ fires[m] \in Id
  OBVIOUS
<1>2. DOMAIN a = 1..n + 1 /\ DOMAIN fires = 1..n
  OBVIOUS
<1>3. \A m \in 1..n : fires[m] # i
  BY <1>2 DEF ToSet
<1> HIDE DEF a, n
<1>4. OneEach(a)
  <2> SUFFICES ASSUME NEW l \in 1..Len(a), NEW m \in 1..Len(a), a[l] = a[m] PROVE l = m
    BY DEF OneEach
  <2>1. \A k \in 1..n : a[k] # i
    BY <1>1, <1>3
  <2>2. l \in 1..n \/ l = n + 1
    BY <1>1
  <2>3. m \in 1..n \/ m = n + 1
    BY <1>1
  <2>4. ASSUME l \in 1..n, m \in 1..n PROVE l = m
    BY <1>1, <2>4 DEF OneEach, n
  <2> QED BY <1>1, <2>1, <2>2, <2>3, <2>4
<1>5. ToSet(a) = ToSet(fires) \cup {i}
  <2>1. \A m \in 1..n + 1 : m \in 1..n \/ m = n + 1
    BY <1>1
  <2>2. n + 1 \in 1..n + 1 /\ \A m \in 1..n : m \in 1..n + 1
    BY <1>1
  <2>3. ToSet(a) = {a[m] : m \in 1..n + 1} /\ ToSet(fires) = {fires[m] : m \in 1..n}
    BY <1>2 DEF ToSet
  <2> QED BY <1>1, <2>1, <2>2, <2>3
<1> QED BY <1>1, <1>4, <1>5 DEF a

\* left lists, after each fire, those so far that are not among some.
Leaves(left, fires, some) ==
    /\ left \in [0..Len(fires) -> Seq(Id)]
    /\ left[0] = <<>> /\ Struck(fires, some) = left[Len(fires)]
    /\ \A n \in 1..Len(fires) : left[n] = IF fires[n] \in some THEN left[n - 1]
                                         ELSE Append(left[n - 1], fires[n])

\* The list of fires without some is made one fire at a time.
LEMMA StruckStep ==
    ASSUME NEW fires \in Seq(Id), NEW some
    PROVE  \E left : Leaves(left, fires, some)
<1> DEFINE N == Len(fires)
           step == [p \in (1..N) \X Seq(Id) |->
                      IF fires[p[1]] \in some THEN p[2] ELSE Append(p[2], fires[p[1]])]
           Made(f) == f = [n \in 0..N |-> IF n = 0 THEN <<>>
                             ELSE IF fires[n] \in some THEN f[n - 1]
                             ELSE Append(f[n - 1], fires[n])]
<1>1. N \in Nat /\ <<>> \in Seq(Id) /\ \A n \in 1..N : fires[n] \in Id
  OBVIOUS
<1>2. step \in [(1..N) \X Seq(Id) -> Seq(Id)]
  BY <1>1
<1>3. \A n \in 1..N, b \in Seq(Id) :
         step[<<n, b>>] = IF fires[n] \in some THEN b ELSE Append(b, fires[n])
  OBVIOUS
<1>4. PICK f : Takes(f, <<>>, step, N, Seq(Id))
  <2>1. step \in StepsIn(N, Seq(Id))
    BY <1>2 DEF StepsIn
  <2> HIDE DEF step, N
  <2> QED BY <1>1, <2>1, Recursion
<1> HIDE DEF step, N
<1>5. /\ f[0] = <<>> /\ \A n \in 1..N : f[n] = step[<<n, f[n - 1]>>]
      /\ \A n \in 1..N : n - 1 \in 0..N /\ n # 0 /\ f[n - 1] \in Seq(Id)
  BY <1>1, <1>4 DEF Takes
<1>6. \A n \in 1..N : f[n] = IF fires[n] \in some THEN f[n - 1]
                             ELSE Append(f[n - 1], fires[n])
  BY <1>3, <1>5
<1>7. Made(f)
  <2>1. \A n \in 0..N : n = 0 \/ n \in 1..N
    BY <1>1
  <2>2. f = [n \in 0..N |-> f[n]]
    BY <1>4 DEF Takes
  <2>3. \A n \in 0..N : f[n] = IF n = 0 THEN <<>>
                               ELSE IF fires[n] \in some THEN f[n - 1]
                               ELSE Append(f[n - 1], fires[n])
    BY <1>5, <1>6, <2>1
  <2> QED BY <2>2, <2>3
<1> DEFINE left == CHOOSE g : Made(g)
<1>8. Made(left)
  BY <1>7
<1>9. Struck(fires, some) = left[N]
  BY DEF Struck, N
<1> HIDE DEF left
<1>10. left[0] = <<>> /\ \A n \in 1..N : left[n] = IF fires[n] \in some THEN left[n - 1]
                                              ELSE Append(left[n - 1], fires[n])
  <2>1. 0 \in 0..N /\ \A n \in 1..N : n \in 0..N /\ n # 0
    BY <1>1
  <2> QED BY <1>8, <2>1
<1>11. left \in [0..N -> Seq(Id)]
  <2> DEFINE S == {n \in 0..N : left[n] \in Seq(Id)}
  <2>1. 0 \in S
    <3>1. left[0] \in Seq(Id) /\ 0 \in 0..N
      BY <1>1, <1>10
    <3> QED BY <3>1
  <2>2. ASSUME NEW n \in 1..N, n - 1 \in S PROVE n \in S
    <3>1. left[n - 1] \in Seq(Id) /\ fires[n] \in Id /\ n \in 0..N
      BY <1>1, <2>2
    <3>2. left[n] \in {left[n - 1], Append(left[n - 1], fires[n])}
      BY <1>10
    <3>3. Append(left[n - 1], fires[n]) \in Seq(Id)
      BY <3>1
    <3>4. left[n] \in Seq(Id)
      BY <3>1, <3>2, <3>3
    <3> QED BY <3>1, <3>4
  <2>3. 0..N \subseteq S
    <3> HIDE DEF S
    <3> QED BY <1>1, <2>1, <2>2, InductionTo
  <2>4. left = [n \in 0..N |-> left[n]]
    BY <1>8
  <2> QED BY <2>3, <2>4
<1> QED BY <1>9, <1>10, <1>11 DEF N, Leaves

\* Without some, the rest of the fires are listed, each once.
LEMMA StruckFacts ==
    ASSUME NEW fires \in Seq(Id), OneEach(fires), NEW some
    PROVE  /\ Struck(fires, some) \in Seq(Id) /\ OneEach(Struck(fires, some))
           /\ ToSet(Struck(fires, some)) = ToSet(fires) \ some
<1> DEFINE N == Len(fires)
           First(n) == {fires[m] : m \in 1..n}
<1>0. PICK left : Leaves(left, fires, some)
  BY StruckStep
<1>1. /\ left \in [0..N -> Seq(Id)] /\ left[0] = <<>> /\ Struck(fires, some) = left[N]
      /\ \A n \in 1..N : left[n] = IF fires[n] \in some THEN left[n - 1]
                                   ELSE Append(left[n - 1], fires[n])
  BY <1>0 DEF Leaves
<1>2. N \in Nat /\ DOMAIN fires = 1..N /\ \A n \in 1..N : fires[n] \in Id
  OBVIOUS
<1> DEFINE S == {n \in 0..N : OneEach(left[n]) /\ ToSet(left[n]) = First(n) \ some}
<1> HIDE DEF N
<1>3. 0 \in S
  <2>1. Len(<<>>) = 0 /\ DOMAIN <<>> = {} /\ 1..0 = {}
    OBVIOUS
  <2>2. OneEach(left[0]) /\ ToSet(left[0]) = {} /\ First(0) = {}
    BY <1>1, <2>1 DEF OneEach, ToSet
  <2> QED BY <1>2, <2>2
<1>4. ASSUME NEW n \in 1..N, n - 1 \in S PROVE n \in S
  <2>1. /\ n - 1 \in 0..N /\ n \in 0..N /\ left[n - 1] \in Seq(Id) /\ fires[n] \in Id
        /\ OneEach(left[n - 1]) /\ ToSet(left[n - 1]) = First(n - 1) \ some
    <3>1. n - 1 \in 0..N /\ n \in 0..N
      BY <1>2
    <3>2. OneEach(left[n - 1]) /\ ToSet(left[n - 1]) = First(n - 1) \ some
      BY <1>4
    <3> QED BY <1>1, <1>2, <3>1, <3>2
  <2>2. First(n) = First(n - 1) \cup {fires[n]} /\ fires[n] \notin First(n - 1)
    <3>1. \A m \in 1..n : m \in 1..n - 1 \/ m = n
      BY <1>2
    <3>2. n \in 1..n /\ \A m \in 1..n - 1 : m \in 1..n /\ m # n /\ m \in 1..N
      BY <1>2
    <3>3. \A m \in 1..n - 1 : fires[m] # fires[n]
      BY <3>2 DEF OneEach, N
    <3> QED BY <3>1, <3>2, <3>3
  <2>3. CASE fires[n] \in some
    <3>1. left[n] = left[n - 1]
      BY <1>1, <2>3
    <3> QED BY <2>1, <2>2, <2>3, <3>1
  <2>4. CASE fires[n] \notin some
    <3>1. left[n] = Append(left[n - 1], fires[n])
      BY <1>1, <2>4
    <3>2. fires[n] \notin ToSet(left[n - 1])
      BY <2>1, <2>2
    <3>3. /\ OneEach(Append(left[n - 1], fires[n]))
          /\ ToSet(Append(left[n - 1], fires[n])) = ToSet(left[n - 1]) \cup {fires[n]}
      BY <2>1, <3>2, AppendFacts
    <3> QED BY <2>1, <2>2, <2>4, <3>1, <3>3
  <2> QED BY <2>3, <2>4
<1>5. N \in S
  <2> HIDE DEF S
  <2>1. 0..N \subseteq S
    BY <1>2, <1>3, <1>4, InductionTo
  <2> QED BY <1>2, <2>1
<1>6. ToSet(fires) = First(N)
  BY <1>2 DEF ToSet
<1>7. Struck(fires, some) \in Seq(Id)
  BY <1>1, <1>2
<1> QED BY <1>1, <1>5, <1>6, <1>7

-----------------------------------------------------------------------------
(* A blaze.                                                                *)

\* What a blaze makes of a room: it burns, or is gutted; a shell stays one.
Blazed(r, q) ==
    \/ q = r
    \/ /\ r # None /\ q \in Room
       /\ (q.is = "fire" /\ r.is # "gutted") \/ q = Clean("gutted")

\* ... and of a tower: the fires are still all listed, and a kind of room that had
\* one that works has one yet.
Spreads(at, bt) ==
    /\ Tracked(bt) /\ \A i \in Id : Blazed(at.rooms[i], bt.rooms[i])
    /\ \A k \in {"hotel", "security", "office"} :
          WorksOf(at.rooms, k) # {} => WorksOf(bt.rooms, k) # {}

LEMMA BlazedTwice ==
    ASSUME NEW r, NEW q, NEW p, Blazed(r, q), Blazed(q, p)
    PROVE  Blazed(r, p)
<1>1. Clean("gutted").is = "gutted"
  BY DEF Clean
<1> QED BY <1>1, NoneIsNone DEF Blazed

LEMMA SpreadsTwice ==
    ASSUME NEW at, NEW bt, NEW ct, Spreads(at, bt), Spreads(bt, ct)
    PROVE  Spreads(at, ct)
BY BlazedTwice DEF Spreads

LEMMA SpreadsSame == ASSUME NEW at, Tracked(at) PROVE Spreads(at, at)
BY DEF Spreads, Blazed

\* A room that works catches fire.
LEMMA IgnitedFacts ==
    ASSUME NEW at, Tracked(at), NEW i \in Works(at.rooms)
    PROVE  /\ Tracked(Ignited(at, i)) /\ Ignited(at, i).active # <<>>
           /\ Len(Ignited(at, i).active) = Len(at.active) + 1
           /\ \A j \in Id : Blazed(at.rooms[j], Ignited(at, i).rooms[j])
           /\ Works(Ignited(at, i).rooms) = Works(at.rooms) \ {i}
<1> DEFINE rs == at.rooms
           qs == Turned(rs, {i}, "fire")
<1>1. rs \in Layout /\ at.active \in Seq(Id) /\ OneEach(at.active)
      /\ ToSet(at.active) = In(rs, {"fire"})
  BY DEF Tracked
<1>2. i \in Built(rs) /\ i \in Id /\ rs[i] \in Room /\ rs[i].is \notin {"fire", "gutted"}
  BY <1>1, RoomOf DEF Works, In
<1>3. "fire" \in States /\ {i} \in SUBSET Built(rs)
  BY <1>2 DEF States
<1> HIDE DEF rs
<1>4. /\ qs \in Layout /\ qs[i].is = "fire" /\ \A j \in Id \ {i} : qs[j] = rs[j]
      /\ \A j \in Id : qs[j] = None <=> rs[j] = None
  BY <1>1, <1>3, TurnedFacts
<1>5. Ignited(at, i) = [rooms |-> qs, active |-> Append(at.active, i)]
  BY DEF Ignited, rs
<1> HIDE DEF qs
<1>6. Built(qs) = Built(rs) /\ In(qs, {"fire"}) = In(rs, {"fire"}) \cup {i}
      /\ Works(qs) = Works(rs) \ {i}
  BY <1>2, <1>4 DEF Built, In, Works
<1>7. i \notin ToSet(at.active)
  BY <1>1, <1>2 DEF In
<1>8. /\ Append(at.active, i) \in Seq(Id) /\ OneEach(Append(at.active, i))
      /\ ToSet(Append(at.active, i)) = ToSet(at.active) \cup {i}
      /\ Len(Append(at.active, i)) = Len(at.active) + 1
  BY <1>1, <1>2, <1>7, AppendFacts
<1>9. Append(at.active, i) # <<>>
  BY <1>1, <1>2
<1>10. \A j \in Id : Blazed(rs[j], qs[j])
  <2>1. qs[i] \in Room /\ rs[i] # None
    BY <1>2, <1>4, NoneIsNone DEF Layout
  <2> QED BY <1>2, <1>4, <2>1 DEF Blazed
<1> DEFINE bt == Ignited(at, i)
<1>11. bt.rooms = qs /\ bt.active = Append(at.active, i)
  BY <1>5
<1>12. bt \in [rooms : Layout, active : Seq(Id)]
  BY <1>4, <1>5, <1>8
<1> HIDE DEF bt
<1>13. Tracked(bt)
  BY <1>1, <1>6, <1>8, <1>11, <1>12 DEF Tracked
<1> QED BY <1>6, <1>8, <1>9, <1>10, <1>11, <1>13 DEF rs, bt

\* Rooms gutted burn no more.
LEMMA GuttedFacts ==
    ASSUME NEW at, Tracked(at), NEW some \in SUBSET Built(at.rooms)
    PROVE  /\ Tracked(Gutted(at, some))
           /\ \A j \in Id : Blazed(at.rooms[j], Gutted(at, some).rooms[j])
           /\ \A j \in some : Gutted(at, some).rooms[j] = Clean("gutted")
           /\ Works(Gutted(at, some).rooms) = Works(at.rooms) \ some
<1> DEFINE rs == at.rooms
           qs == Renewed(rs, some, "gutted")
<1>1. rs \in Layout /\ at.active \in Seq(Id) /\ OneEach(at.active)
      /\ ToSet(at.active) = In(rs, {"fire"})
  BY DEF Tracked
<1>2. "gutted" \in States /\ some \in SUBSET Built(rs) /\ some \subseteq Id
  BY <1>1, RoomOf DEF States
<1> HIDE DEF rs
<1>3. /\ qs \in Layout /\ \A j \in Id \ some : qs[j] = rs[j]
      /\ \A j \in some : qs[j] = Clean("gutted")
      /\ \A j \in Id : qs[j] = None <=> rs[j] = None
  BY <1>1, <1>2, RenewedFacts
<1>4. Clean("gutted") \in Room /\ Clean("gutted").is = "gutted" /\ Clean("gutted") # None
  BY <1>2, CleanRoom
<1>5. Gutted(at, some) = [rooms |-> qs, active |-> Struck(at.active, some)]
  BY DEF Gutted, rs
<1> HIDE DEF qs
<1>6. In(qs, {"fire"}) = In(rs, {"fire"}) \ some /\ Works(qs) = Works(rs) \ some
  BY <1>2, <1>3, <1>4 DEF Built, In, Works
<1>7. /\ Struck(at.active, some) \in Seq(Id) /\ OneEach(Struck(at.active, some))
      /\ ToSet(Struck(at.active, some)) = ToSet(at.active) \ some
  BY <1>1, StruckFacts
<1>8. \A j \in Id : Blazed(rs[j], qs[j])
  BY <1>2, <1>3, <1>4 DEF Blazed, Built
<1> DEFINE bt == Gutted(at, some)
<1>9. bt.rooms = qs /\ bt.active = Struck(at.active, some)
  BY <1>5
<1>10. bt \in [rooms : Layout, active : Seq(Id)]
  BY <1>3, <1>5, <1>7
<1> HIDE DEF bt
<1>11. Tracked(bt)
  BY <1>1, <1>6, <1>7, <1>9, <1>10 DEF Tracked
<1> QED BY <1>3, <1>6, <1>8, <1>9, <1>11 DEF rs, bt

\* A fire spreads into one room at most, never the last of its kind that works.
LEMMA SpreadToFacts ==
    ASSUME NEW at, Tracked(at), NEW target \in SUBSET Id
    PROVE  Spreads(at, SpreadTo(at, target))
<1> DEFINE takes == {i \in target : /\ i \in Works(at.rooms)
                                    /\ Cardinality(WorksOf(at.rooms, Kind[i])) > 1}
<1>1. CASE takes = {}
  BY <1>1, SpreadsSame DEF SpreadTo
<1>2. CASE takes # {}
  <2> DEFINE i == CHOOSE j \in takes : TRUE
  <2>1. i \in takes
    BY <1>2
  <2>2. SpreadTo(at, target) = Ignited(at, i)
    BY <1>2 DEF SpreadTo
  <2>3. i \in Works(at.rooms) /\ Cardinality(WorksOf(at.rooms, Kind[i])) > 1
    BY <2>1
  <2> HIDE DEF takes, i
  <2>4. /\ Tracked(Ignited(at, i))
        /\ \A j \in Id : Blazed(at.rooms[j], Ignited(at, i).rooms[j])
        /\ Works(Ignited(at, i).rooms) = Works(at.rooms) \ {i}
    BY <2>3, IgnitedFacts
  <2>5. WorksOf(at.rooms, Kind[i]) # {i}
    <3>1. Cardinality({i}) = 1
      BY FS_Singleton
    <3> QED BY <2>3, <3>1
  <2>6. ASSUME NEW k, WorksOf(at.rooms, k) # {} PROVE WorksOf(Ignited(at, i).rooms, k) # {}
    <3>1. WorksOf(Ignited(at, i).rooms, k) = WorksOf(at.rooms, k) \ {i}
      BY <2>4 DEF WorksOf
    <3>2. WorksOf(at.rooms, k) # {i}
      <4>1. i \in WorksOf(at.rooms, k) => Kind[i] = k
        BY DEF WorksOf
      <4> QED BY <2>5, <4>1
    <3> QED BY <2>6, <3>1, <3>2
  <2> QED BY <2>2, <2>4, <2>6 DEF Spreads
<1> QED BY <1>1, <1>2

\* One room's turn.
LEMMA BurnedFacts ==
    ASSUME NEW at, Tracked(at), NEW i \in Id, NEW out
    PROVE  Spreads(at, Burned(at, i, out))
<1>1. CASE i \notin In(at.rooms, {"fire"})
  <2> DEFINE bt == [at EXCEPT !.active = Struck(@, {i})]
  <2>1. Burned(at, i, out) = bt
    BY <1>1 DEF Burned
  <2>2. /\ at \in [rooms : Layout, active : Seq(Id)] /\ OneEach(at.active)
        /\ at.active \in Seq(Id) /\ ToSet(at.active) = In(at.rooms, {"fire"})
    BY DEF Tracked
  <2>3. /\ Struck(at.active, {i}) \in Seq(Id) /\ OneEach(Struck(at.active, {i}))
        /\ ToSet(Struck(at.active, {i})) = ToSet(at.active) \ {i}
    BY <2>2, StruckFacts
  <2>4. bt \in [rooms : Layout, active : Seq(Id)] /\ bt.rooms = at.rooms
        /\ bt.active = Struck(at.active, {i})
    BY <2>2, <2>3
  <2> HIDE DEF bt
  <2>5. Tracked(bt)
    BY <1>1, <2>2, <2>3, <2>4 DEF Tracked
  <2> QED BY <2>1, <2>4, <2>5 DEF Spreads, Blazed
<1>2. CASE i \in In(at.rooms, {"fire"}) /\ i \in out
  <2>1. Burned(at, i, out) = Gutted(at, {i})
    BY <1>2 DEF Burned
  <2>2. {i} \in SUBSET Built(at.rooms)
    BY <1>2 DEF In
  <2>3. /\ Tracked(Gutted(at, {i}))
        /\ \A j \in Id : Blazed(at.rooms[j], Gutted(at, {i}).rooms[j])
        /\ Works(Gutted(at, {i}).rooms) = Works(at.rooms) \ {i}
    BY <2>2, GuttedFacts
  <2>4. i \notin Works(at.rooms)
    BY <1>2 DEF Works, In
  <2>5. Works(Gutted(at, {i}).rooms) = Works(at.rooms)
    BY <2>3, <2>4
  <2> QED BY <2>1, <2>3, <2>5 DEF Spreads, WorksOf
<1>3. CASE i \in In(at.rooms, {"fire"}) /\ i \notin out
  <2> DEFINE floor  == Place[i][1]
             x      == Place[i][2]
             left   == RoomAt(at.rooms, floor, x - 1)
             beside == IF left # {} THEN left ELSE RoomAt(at.rooms, floor, x + 1)
             spread == SpreadTo(at, beside)
             above  == RoomAt(spread.rooms, floor + 1, x)
  <2>1. Burned(at, i, out) = SpreadTo(spread, above)
    BY <1>3 DEF Burned
  <2>2. beside \in SUBSET Id /\ above \in SUBSET Id
    BY DEF RoomAt, Built
  <2> HIDE DEF above, beside
  <2>3. Spreads(at, spread)
    BY <2>2, SpreadToFacts
  <2> HIDE DEF spread
  <2>4. Spreads(spread, SpreadTo(spread, above))
    BY <2>2, <2>3, SpreadToFacts DEF Spreads
  <2> QED BY <2>1, <2>3, <2>4, SpreadsTwice
<1> QED BY <1>1, <1>2, <1>3

\* after holds the blaze at has become, once each of the first fires had its turn.
Passes(after, at, out) ==
    /\ after[0] = at /\ AfterFires(at, out) = after[Len(at.active)]
    /\ \A n \in 1..Len(at.active) : after[n] = Burned(after[n - 1], at.active[n], out)

LEMMA PassStep ==
    ASSUME NEW at, Tracked(at), NEW out
    PROVE  \E after : Passes(after, at, out)
<1> DEFINE N == Len(at.active)
           B == {b \in [rooms : Layout, active : Seq(Id)] : Tracked(b)}
           step == [p \in (1..N) \X B |-> Burned(p[2], at.active[p[1]], out)]
           Made(f) == f = [n \in 0..N |-> IF n = 0 THEN at
                                          ELSE Burned(f[n - 1], at.active[n], out)]
<1>1. at \in B /\ at.active \in Seq(Id) /\ N \in Nat /\ \A n \in 1..N : at.active[n] \in Id
  BY DEF Tracked
<1>2. step \in StepsIn(N, B)
  <2>1. ASSUME NEW b \in B, NEW i \in Id PROVE Burned(b, i, out) \in B
    <3>1. Tracked(Burned(b, i, out))
      BY BurnedFacts DEF Spreads
    <3> QED BY <3>1 DEF Tracked
  <2> HIDE DEF B, N
  <2> QED BY <1>1, <2>1 DEF StepsIn
<1>3. \A n \in 1..N, b \in B : step[<<n, b>>] = Burned(b, at.active[n], out)
  OBVIOUS
<1> HIDE DEF step, N, B
<1>4. PICK f : Takes(f, at, step, N, B)
  BY <1>1, <1>2, Recursion
<1>5. /\ f[0] = at /\ \A n \in 1..N : f[n] = step[<<n, f[n - 1]>>]
      /\ \A n \in 1..N : n - 1 \in 0..N /\ n # 0 /\ f[n - 1] \in B
  BY <1>1, <1>4 DEF Takes
<1>6. Made(f)
  <2>1. \A n \in 0..N : n = 0 \/ n \in 1..N
    BY <1>1
  <2>2. f = [n \in 0..N |-> f[n]]
    BY <1>4 DEF Takes
  <2>3. \A n \in 0..N : f[n] = IF n = 0 THEN at ELSE Burned(f[n - 1], at.active[n], out)
    BY <1>3, <1>5, <2>1
  <2> QED BY <2>2, <2>3
<1> DEFINE after == CHOOSE g : Made(g)
<1>7. Made(after)
  BY <1>6
<1>8. AfterFires(at, out) = after[N]
  BY DEF AfterFires, N
<1> HIDE DEF after
<1>9. after[0] = at /\ \A n \in 1..N : after[n] = Burned(after[n - 1], at.active[n], out)
  <2>1. 0 \in 0..N /\ \A n \in 1..N : n \in 0..N /\ n # 0
    BY <1>1
  <2> QED BY <1>7, <2>1
<1> QED BY <1>8, <1>9 DEF N, Passes

\* The day's pass over the fires: what burns is listed at the end of it, and no
\* kind of room lost its last.
LEMMA AfterFiresFacts ==
    ASSUME NEW at, Tracked(at), NEW out
    PROVE  Spreads(at, AfterFires(at, out))
<1> DEFINE N == Len(at.active)
<1>1. PICK after : Passes(after, at, out)
  BY PassStep
<1>2. N \in Nat /\ \A n \in 1..N : at.active[n] \in Id
  BY DEF Tracked
<1>3. /\ after[0] = at /\ AfterFires(at, out) = after[N]
      /\ \A n \in 1..N : after[n] = Burned(after[n - 1], at.active[n], out)
  BY <1>1 DEF Passes
<1> HIDE DEF N
<1> DEFINE S == {n \in 0..N : Spreads(at, after[n])}
<1>4. 0 \in S
  BY <1>2, <1>3, SpreadsSame
<1>5. ASSUME NEW n \in 1..N, n - 1 \in S PROVE n \in S
  <2>1. Spreads(at, after[n - 1]) /\ at.active[n] \in Id /\ n \in 0..N
    BY <1>2, <1>5
  <2>2. Spreads(after[n - 1], Burned(after[n - 1], at.active[n], out))
    BY <2>1, BurnedFacts DEF Spreads
  <2>3. Spreads(at, after[n])
    BY <1>3, <2>1, <2>2, SpreadsTwice
  <2> QED BY <2>1, <2>3
<1>6. N \in S
  <2> HIDE DEF S
  <2>1. 0..N \subseteq S
    BY <1>2, <1>4, <1>5, InductionTo
  <2> QED BY <1>2, <2>1
<1> QED BY <1>3, <1>6

\* A bomb that goes off guts rooms that burn or work, the one it is in among them.
LEMMA BombedFacts ==
    ASSUME NEW at, Tracked(at), NEW bt \in Bombed(at)
    PROVE  /\ Tracked(bt) /\ \A i \in Id : Blazed(at.rooms[i], bt.rooms[i])
           /\ bt = at \/ \E i \in Works(at.rooms) : bt.rooms[i] = Clean("gutted")
<1> DEFINE reach(i) == {j \in Built(at.rooms) : Place[j][1] - Place[i][1] \in -Radius..Radius}
<1>1. CASE bt = at
  BY <1>1, SpreadsSame DEF Spreads
<1>2. CASE bt # at
  <2>1. PICK i \in Works(at.rooms) : bt = Gutted(at, reach(i))
    BY <1>2 DEF Bombed
  <2>2. reach(i) \in SUBSET Built(at.rooms)
    OBVIOUS
  <2>3. i \in reach(i)
    <3>1. i \in Built(at.rooms) /\ i \in Id
      BY DEF Works, Built
    <3>2. Place[i][1] \in Int /\ Radius \in Nat
      BY <3>1, RoomAssumption
    <3> QED BY <3>1, <3>2
  <2> HIDE DEF reach
  <2>4. /\ Tracked(bt) /\ \A j \in Id : Blazed(at.rooms[j], bt.rooms[j])
        /\ \A j \in reach(i) : bt.rooms[j] = Clean("gutted")
    BY <2>1, <2>2, GuttedFacts
  <2> QED BY <2>3, <2>4
<1> QED BY <1>1, <1>2

\* A choice declined, an acceptance included that cannot be paid for, or paid.
LEMMA ResolvedFacts ==
    ASSUME Tracked(Blaze), NEW bt \in Declined(Blaze) \cup {Paid(Blaze)}
    PROVE  /\ Tracked(bt) /\ \A i \in Id : Blazed(rooms[i], bt.rooms[i])
           /\ \/ Works(bt.rooms) = Works(rooms)
              \/ \E i \in Works(rooms) : bt.rooms[i] = Clean("gutted")
<1> DEFINE burning == ToSet(active) \cap In(rooms, {"fire"})
           qs      == Renewed(rooms, burning, "gutted")
           out     == [rooms |-> qs, active |-> <<>>]
<1>0. Blaze.rooms = rooms /\ Blaze.active = active /\ rooms \in Layout
      /\ ToSet(active) = In(rooms, {"fire"})
  BY DEF Blaze, Tracked
<1>1. CASE bt = Blaze
  BY <1>0, <1>1, SpreadsSame DEF Spreads
<1>2. CASE bt \in Bombed(Blaze)
  BY <1>0, <1>2, BombedFacts
<1>3. CASE bt = out
  <2>1. burning \in SUBSET Built(rooms) /\ burning = In(rooms, {"fire"})
        /\ "gutted" \in States
    BY <1>0 DEF In, States
  <2>2. out.rooms = qs /\ out.active = <<>>
    OBVIOUS
  <2> HIDE DEF burning, out
  <2>3. /\ out.rooms \in Layout /\ \A j \in Id \ burning : out.rooms[j] = rooms[j]
        /\ \A j \in burning : out.rooms[j] = Clean("gutted")
        /\ \A j \in Id : out.rooms[j] = None <=> rooms[j] = None
    <3>1. /\ qs \in Layout /\ \A j \in Id \ burning : qs[j] = rooms[j]
          /\ \A j \in burning : qs[j] = Clean("gutted")
          /\ \A j \in Id : qs[j] = None <=> rooms[j] = None
      <4>1. /\ burning \in SUBSET Built(rooms) /\ rooms \in Layout /\ "gutted" \in States
            /\ qs = Renewed(rooms, burning, "gutted")
        BY <1>0, <2>1
      <4> QED BY <4>1, RenewedFacts
    <3> HIDE DEF qs
    <3> QED BY <2>2, <3>1
  <2>4. Clean("gutted") \in Room /\ Clean("gutted").is = "gutted"
    BY <2>1, CleanRoom
  <2>5. In(out.rooms, {"fire"}) = {} /\ Works(out.rooms) = Works(rooms)
    BY <2>1, <2>3, <2>4 DEF In, Built, Works
  <2> HIDE DEF qs
  <2>6. out \in [rooms : Layout, active : Seq(Id)]
    <3>1. qs \in Layout
      BY <2>2, <2>3
    <3> QED BY <3>1 DEF out
  <2>7. OneEach(<<>>) /\ ToSet(<<>>) = {}
    BY DEF OneEach, ToSet
  <2>8. \A j \in Id : Blazed(rooms[j], out.rooms[j])
    BY <2>1, <2>3, <2>4 DEF Blazed, In, Built
  <2>9. Tracked(out)
    BY <2>2, <2>5, <2>6, <2>7 DEF Tracked
  <2> QED BY <1>3, <2>5, <2>8, <2>9
<1>4. bt = Blaze \/ bt \in Bombed(Blaze) \/ bt = out
  <2>1. Paid(Blaze) = Blaze \/ Paid(Blaze) = out
    BY <1>0 DEF Paid
  <2> QED BY <2>1 DEF Declined
<1> QED BY <1>1, <1>2, <1>3, <1>4

\* The event of the day, and the choice that comes with it.
LEMMA EventFacts ==
    ASSUME NEW at, Tracked(at), NEW event \in Events(at)
    PROVE  /\ Tracked(event[1]) /\ \A i \in Id : Blazed(at.rooms[i], event[1].rooms[i])
           /\ event[2] \in {None, "fireRescue", "bombThreat"}
           /\ event[2] = "fireRescue" => event[1].active # <<>>
           /\ Works(event[1].rooms) = Works(at.rooms) \/ Len(event[1].active) = 1
<1>1. CASE event[1] = at /\ event[2] \in {None, "bombThreat"}
  BY <1>1, SpreadsSame, RoomAssumption DEF Spreads
<1>2. CASE at.active = <<>> /\ \E i \in Works(at.rooms) : event = <<Ignited(at, i), "fireRescue">>
  <2>1. PICK i \in Works(at.rooms) : event = <<Ignited(at, i), "fireRescue">>
    BY <1>2
  <2>2. Len(at.active) = 0 /\ event[1] = Ignited(at, i) /\ event[2] = "fireRescue"
    BY <1>2, <2>1
  <2>3. /\ Tracked(Ignited(at, i)) /\ Ignited(at, i).active # <<>>
        /\ Len(Ignited(at, i).active) = Len(at.active) + 1
        /\ \A j \in Id : Blazed(at.rooms[j], Ignited(at, i).rooms[j])
    BY IgnitedFacts
  <2> QED BY <2>2, <2>3
<1>3. \/ event[1] = at /\ event[2] \in {None, "bombThreat"}
      \/ at.active = <<>> /\ \E i \in Works(at.rooms) : event = <<Ignited(at, i), "fireRescue">>
  <2>1. CASE event \in {<<at, None>>, <<at, "bombThreat">>}
    BY <2>1
  <2>2. CASE at.active = <<>> /\ event \in {<<Ignited(at, i), "fireRescue">> : i \in Works(at.rooms)}
    BY <2>2
  <2> QED BY <2>1, <2>2 DEF Events
<1> QED BY <1>1, <1>2, <1>3

-----------------------------------------------------------------------------
(* What a step may do to a room.                                           *)

\* What the count of dirty days stands for is kept.
Moves(i, r, q, morning) ==
    /\ r = None <=> q = None
    /\ r # None =>
         /\ q.is \in {"asleep", "dirty", "infested"} => Kind[i] = "hotel"
         /\ q.is # "fire" =>
              q.days = IF q.is = "dirty" /\ r.is = "dirty"
                       THEN (IF morning THEN r.days + 1 ELSE r.days) ELSE 0

\* What the hotel and its crews may do: they let what burns or is gutted alone,
\* rid of roaches what was paid for, and breed them where dirt has been left.
Tended(i, r, q) ==
    r # None =>
      /\ q.is = "fire" <=> r.is = "fire"
      /\ q.is = "gutted" <=> r.is = "gutted"
      /\ r.is = "infested" /\ q.is # "infested" => i \in paid
      /\ r.is = "dirty" /\ q.is = "infested" => r.days + 1 >= InfestDays

\* A step that the properties of a room's state allow.
Lawful(i) ==
    /\ i \in In(rooms, {"fire"}) => i \in In(rooms', {"fire", "gutted"})
    /\ i \in In(rooms, {"gutted"}) => rooms'[i] = None \/ i \in In(rooms', {"gutted"})
    /\ i \in In(rooms, {"infested"}) =>
          (i \in In(rooms', {"empty", "asleep", "dirty"}) => i \in paid)
    /\ i \in In(rooms, {"dirty"}) =>
          (i \in In(rooms', {"infested"}) => seen[i] + 1 >= InfestDays)

\* ... and that leaves every kind a room that works, or says where it went.
KindsKept ==
    \A k \in {Kind[i] : i \in Id} :
        /\ WorksOf(rooms, k) # {} /\ WorksOf(rooms, k)' = {}
        /\ \A i \in Works(rooms) : rooms'[i] # None /\ rooms'[i].is # "gutted"
        => Len(active') = 1

\* The types of the state.
LEMMA Types ==
    ASSUME IInv
    PROVE  /\ rooms \in Layout /\ sold \in Layout /\ seen \in [Id -> Dirt]
           /\ active \in Seq(Id) /\ OneEach(active) /\ ToSet(active) = In(rooms, {"fire"})
           /\ Blaze.rooms = rooms /\ Blaze.active = active /\ Tracked(Blaze)
BY DEF IInv, TypeOK, Tracked, Blaze, Layout

\* Rooms that move so keep their days and their mornings counted.
LEMMA MovesKeep ==
    ASSUME IInv, NEW rs \in Layout, NEW morning \in BOOLEAN, Becomes(rs, morning),
           sold' = sold \/ sold' = [i \in Id |-> None],
           \A i \in Id : Moves(i, rooms[i], rs[i], morning)
    PROVE  DaysCounted' /\ seen' \in [Id -> Dirt] /\ sold' \in Layout /\ rooms' = rs
<1>1. rooms' = rs /\ seen' = SeenIn(rs, morning)
  BY DEF Becomes
<1>2. rooms \in Layout /\ sold \in Layout /\ seen \in [Id -> Dirt]
  BY Types
<1>3. sold' \in Layout /\ \A i \in Id : sold'[i] = None \/ sold'[i] = sold[i]
  BY <1>2 DEF Layout
<1>4. ASSUME NEW i \in Id
      PROVE  /\ seen'[i] \in Dirt
             /\ rooms'[i] # None => sold'[i] = None /\ RoomFits(i, rooms'[i], seen'[i])
             /\ sold'[i] # None => sold'[i].is # "fire" /\ RoomFits(i, sold'[i], seen'[i])
  <2>1. seen'[i] = IF rs[i] = None \/ rooms[i] = None THEN seen[i]
                   ELSE IF rs[i].is # "dirty" \/ rooms[i].is # "dirty" THEN 0
                   ELSE IF morning THEN seen[i] + 1 ELSE seen[i]
    BY <1>1 DEF SeenIn
  <2>2. /\ rooms[i] # None => RoomFits(i, rooms[i], seen[i]) /\ sold[i] = None
        /\ sold[i] # None => RoomFits(i, sold[i], seen[i]) /\ sold[i].is # "fire"
    BY DEF IInv, DaysCounted
  <2>3. Moves(i, rooms[i], rs[i], morning)
    OBVIOUS
  <2>4. CASE rooms[i] = None
    <3>1. rooms'[i] = None /\ seen'[i] = seen[i]
      BY <1>1, <2>1, <2>3, <2>4 DEF Moves
    <3> QED BY <1>2, <1>3, <2>2, <3>1 DEF RoomFits
  <2>5. CASE rooms[i] # None
    <3>1. rs[i] # None /\ rs[i] \in Room /\ rooms[i] \in Room /\ sold'[i] = None
      BY <1>2, <1>3, <2>2, <2>3, <2>5 DEF Moves, Layout
    <3>2. rs[i].days \in Dirt /\ rooms[i].days \in Dirt /\ 0 \in Dirt
      BY <3>1, NoneIsNone DEF Room
    <3>3. CASE rs[i].is = "dirty" /\ rooms[i].is = "dirty"
      <4>1. seen[i] = rooms[i].days
        BY <2>2, <2>5, <3>3 DEF RoomFits
      <4>2. rs[i].days = IF morning THEN rooms[i].days + 1 ELSE rooms[i].days
        BY <2>3, <2>5, <3>3 DEF Moves
      <4>3. seen'[i] = rs[i].days
        BY <2>1, <2>5, <3>1, <3>3, <4>1, <4>2
      <4> QED BY <1>1, <2>3, <2>5, <3>1, <3>2, <3>3, <4>3 DEF Moves, RoomFits
    <3>4. CASE ~(rs[i].is = "dirty" /\ rooms[i].is = "dirty")
      <4>1. seen'[i] = 0
        BY <2>1, <2>5, <3>1, <3>4
      <4> QED BY <1>1, <2>3, <2>5, <3>1, <3>2, <3>4, <4>1 DEF Moves, RoomFits
    <3> QED BY <3>3, <3>4
  <2> QED BY <2>4, <2>5
<1>5. DaysCounted'
  BY <1>4 DEF DaysCounted
<1>6. seen' \in [Id -> Dirt]
  <2>1. seen' = [i \in Id |-> seen'[i]]
    BY <1>1 DEF SeenIn
  <2> QED BY <1>4, <2>1
<1> QED BY <1>1, <1>3, <1>5, <1>6

\* The rest of the state, after a step.
OthersTyped ==
    /\ pending \in {None, "fireRescue", "bombThreat"} /\ maids \subseteq Id
    /\ due \in {None, 0, 1} /\ billed \in (SUBSET Id) \cup {None}
    /\ phase \in {"night", "day", "evening"} /\ edits \in 0..MaxEdits /\ paid \subseteq Id

\* The invariant after a step, part by part.
LEMMA Gathered ==
    ASSUME rooms' \in Layout, sold' \in Layout, seen' \in [Id -> Dirt], active' \in Seq(Id),
           OneEach(active'), ToSet(active') = In(rooms', {"fire"}), OthersTyped',
           pending' = "fireRescue" => active' # <<>>, DaysCounted', BookedIsPaid'
    PROVE  IInv'
<1>1. TypeOK'
  BY DEF TypeOK, OthersTyped, Layout
<1>2. Tracked(Blaze)'
  <2>1. Blaze' \in [rooms : Layout, active : Seq(Id)] /\ Blaze'.rooms = rooms'
        /\ Blaze'.active = active'
    BY DEF Blaze
  <2> QED BY <2>1 DEF Tracked
<1> QED BY <1>1, <1>2 DEF IInv

\* A step of the hotel keeps the invariant, and is lawful.
LEMMA TendedKeeps ==
    ASSUME IInv, NEW rs \in Layout, NEW morning \in BOOLEAN, Becomes(rs, morning),
           sold' = sold \/ sold' = [i \in Id |-> None],
           \A i \in Id : Moves(i, rooms[i], rs[i], morning) /\ Tended(i, rooms[i], rs[i]),
           active' \in Seq(Id), OneEach(active'), ToSet(active') = In(rooms, {"fire"}),
           pending' = pending, OthersTyped', BookedIsPaid'
    PROVE  IInv' /\ (\A i \in Id : Lawful(i)) /\ KindsKept
<1>1. /\ DaysCounted' /\ seen' \in [Id -> Dirt] /\ sold' \in Layout /\ rooms' = rs
  BY MovesKeep
<1>2. rooms \in Layout /\ ToSet(active) = In(rooms, {"fire"}) /\ active \in Seq(Id)
  BY Types
<1>3. \A i \in Id : /\ rooms[i] = None <=> rs[i] = None
                    /\ rooms[i] # None => /\ rs[i].is = "fire" <=> rooms[i].is = "fire"
                                          /\ rs[i].is = "gutted" <=> rooms[i].is = "gutted"
  BY DEF Moves, Tended
<1>4. In(rs, {"fire"}) = In(rooms, {"fire"}) /\ Works(rs) = Works(rooms)
      /\ Built(rs) = Built(rooms)
  BY <1>3 DEF In, Built, Works
<1>5. pending' = "fireRescue" => active' # <<>>
  <2>1. active' = <<>> => ToSet(active') = {}
    BY DEF ToSet
  <2>2. ToSet(active) = {} => active = <<>>
    <3>1. active # <<>> => active[1] \in ToSet(active)
      BY <1>2 DEF ToSet
    <3> QED BY <3>1
  <2> QED BY <1>2, <2>1, <2>2 DEF IInv
<1>6. IInv'
  BY <1>1, <1>4, <1>5, Gathered
<1>7. ASSUME NEW i \in Id PROVE Lawful(i)
  <2>1. Tended(i, rooms[i], rs[i])
    OBVIOUS
  <2>2. rooms[i] # None /\ rooms[i].is = "dirty" => seen[i] = rooms[i].days
    BY DEF IInv, DaysCounted, RoomFits
  <2> QED BY <1>1, <1>3, <2>1, <2>2 DEF Lawful, Tended, In, Built
<1>8. KindsKept
  BY <1>1, <1>4 DEF KindsKept, WorksOf
<1> QED BY <1>6, <1>7, <1>8

\* A blaze keeps the invariant, and is lawful.
LEMMA BlazeKeeps ==
    ASSUME IInv, NEW at, Tracked(at), Burns(at), sold' = sold,
           \A i \in Id : Blazed(rooms[i], at.rooms[i]),
           OthersTyped', BookedIsPaid', pending' = "fireRescue" => at.active # <<>>,
           \A k \in {"hotel", "security", "office"} :
              \/ WorksOf(rooms, k) # {} => WorksOf(at.rooms, k) # {}
              \/ Len(at.active) = 1
              \/ \E i \in Works(rooms) : at.rooms[i] = Clean("gutted")
    PROVE  IInv' /\ (\A i \in Id : Lawful(i)) /\ KindsKept
<1> DEFINE rs == at.rooms
<1>1. /\ rs \in Layout /\ at.active \in Seq(Id) /\ OneEach(at.active)
      /\ ToSet(at.active) = In(rs, {"fire"})
  BY DEF Tracked
<1>2. Becomes(rs, FALSE) /\ active' = at.active
  BY DEF Burns
<1>3. Clean("gutted").is = "gutted" /\ Clean("gutted").days = 0 /\ Clean("gutted") \in Room
  BY CleanRoom DEF States
<1> HIDE DEF rs
<1>4. ASSUME NEW i \in Id
      PROVE  Moves(i, rooms[i], rs[i], FALSE)
  <2>1. Blazed(rooms[i], rs[i])
    BY DEF rs
  <2>2. rooms[i] # None => RoomFits(i, rooms[i], seen[i])
    BY DEF IInv, DaysCounted
  <2> QED BY <1>3, <2>1, <2>2, NoneIsNone DEF Blazed, Moves, RoomFits
<1>5. /\ DaysCounted' /\ seen' \in [Id -> Dirt] /\ sold' \in Layout /\ rooms' = rs
  BY <1>1, <1>2, <1>4, MovesKeep
<1>6. IInv'
  BY <1>1, <1>2, <1>5, Gathered
<1>7. ASSUME NEW i \in Id PROVE Lawful(i)
  <2>1. Blazed(rooms[i], rooms'[i])
    BY <1>5 DEF rs
  <2> QED BY <1>3, <2>1, NoneIsNone DEF Lawful, Blazed, In, Built
<1>8. KindsKept
  <2> SUFFICES ASSUME NEW k \in {Kind[i] : i \in Id},
                      WorksOf(rooms, k) # {}, WorksOf(rooms', k) = {},
                      \A i \in Works(rooms) : rooms'[i] # None /\ rooms'[i].is # "gutted"
               PROVE  Len(active') = 1
    BY DEF KindsKept, WorksOf, Works, In, Built
  <2>1. k \in {"hotel", "security", "office"}
    BY RoomAssumption
  <2> QED BY <1>2, <1>3, <1>5, <2>1 DEF rs
<1> QED BY <1>6, <1>7, <1>8

-----------------------------------------------------------------------------
(* The day, hour by hour.                                                  *)

\* What a step must keep, and what it may do.
Good == IInv' /\ (\A i \in Id : Lawful(i)) /\ KindsKept

\* What the rest of the state is before a step.
LEMMA Others == IInv => OthersTyped /\ BookedIsPaid /\ None \notin {0, 1}
BY RoomAssumption DEF IInv, TypeOK, OthersTyped

\* A step that moves no room, no fire and no count of the days.
LEMMA SameRoomsGood ==
    ASSUME IInv, UNCHANGED <<rooms, sold, active, pending, seen>>, OthersTyped', BookedIsPaid'
    PROVE  Good
<1>1. /\ rooms' = rooms /\ sold' = sold /\ active' = active /\ pending' = pending
      /\ seen' = seen
  OBVIOUS
<1>2. /\ rooms' \in Layout /\ sold' \in Layout /\ seen' \in [Id -> Dirt]
      /\ active' \in Seq(Id) /\ OneEach(active') /\ ToSet(active') = In(rooms', {"fire"})
  BY <1>1, Types
<1>3. DaysCounted' /\ (pending' = "fireRescue" => active' # <<>>)
  BY <1>1 DEF IInv, DaysCounted, RoomFits
<1>4. IInv'
  BY <1>2, <1>3, Gathered
<1>5. \A i \in Id : Lawful(i)
  BY <1>1 DEF Lawful, In
<1>6. KindsKept
  BY <1>1 DEF KindsKept, WorksOf, Works, In, Built
<1> QED BY <1>4, <1>5, <1>6 DEF Good

\* Midnight: a choice left over is declined, the fires burn on, and an event may
\* come.
LEMMA MidnightGood == IInv /\ Midnight => Good
<1> SUFFICES ASSUME IInv, Midnight PROVE Good
  OBVIOUS
<1>1. PICK at \in IF pending = None THEN {Blaze} ELSE Declined(Blaze) :
        \E out \in SUBSET ToSet(at.active) : \E event \in Events(AfterFires(at, out)) :
           Burns(event[1]) /\ pending' = event[2]
  BY DEF Midnight
<1>2. PICK out \in SUBSET ToSet(at.active) : \E event \in Events(AfterFires(at, out)) :
           Burns(event[1]) /\ pending' = event[2]
  BY <1>1
<1> DEFINE bt == AfterFires(at, out)
<1>3. PICK event \in Events(bt) : Burns(event[1]) /\ pending' = event[2]
  BY <1>2
<1> DEFINE ct == event[1]
<1>4. Tracked(Blaze) /\ Blaze.rooms = rooms
  BY Types
<1>5. /\ Tracked(at) /\ \A i \in Id : Blazed(rooms[i], at.rooms[i])
      /\ \/ Works(at.rooms) = Works(rooms)
         \/ \E i \in Works(rooms) : at.rooms[i] = Clean("gutted")
  <2>1. CASE at = Blaze
    BY <1>4, <2>1 DEF Blazed
  <2>2. CASE at # Blaze
    <3>1. at \in Declined(Blaze) \cup {Paid(Blaze)}
      BY <1>1, <2>2
    <3> QED BY <1>4, <3>1, ResolvedFacts
  <2> QED BY <2>1, <2>2
<1>6. Spreads(at, bt)
  BY <1>5, AfterFiresFacts
<1> HIDE DEF bt
<1>7. /\ Tracked(ct) /\ \A i \in Id : Blazed(bt.rooms[i], ct.rooms[i])
      /\ event[2] \in {None, "fireRescue", "bombThreat"}
      /\ event[2] = "fireRescue" => ct.active # <<>>
      /\ Works(ct.rooms) = Works(bt.rooms) \/ Len(ct.active) = 1
  BY <1>6, EventFacts DEF Spreads
<1> HIDE DEF ct
<1>8. \A i \in Id : Blazed(at.rooms[i], bt.rooms[i])
  BY <1>6 DEF Spreads
<1>9. \A i \in Id : Blazed(rooms[i], ct.rooms[i])
  BY <1>5, <1>7, <1>8, BlazedTwice
<1>10. ASSUME NEW k \in {"hotel", "security", "office"}
       PROVE  \/ WorksOf(rooms, k) # {} => WorksOf(ct.rooms, k) # {}
              \/ Len(ct.active) = 1
              \/ \E i \in Works(rooms) : ct.rooms[i] = Clean("gutted")
  <2>1. CASE Works(at.rooms) = Works(rooms)
    <3>1. WorksOf(rooms, k) # {} => WorksOf(bt.rooms, k) # {}
      BY <1>6, <2>1 DEF Spreads, WorksOf
    <3> QED BY <1>7, <3>1 DEF WorksOf
  <2>2. CASE \E i \in Works(rooms) : at.rooms[i] = Clean("gutted")
    <3>1. PICK i \in Works(rooms) : at.rooms[i] = Clean("gutted")
      BY <2>2
    <3>2. i \in Id /\ Clean("gutted").is = "gutted"
      BY DEF Works, Built, Clean
    <3>3. Blazed(at.rooms[i], ct.rooms[i])
      BY <1>7, <1>8, <3>2, BlazedTwice
    <3>4. ct.rooms[i] = Clean("gutted")
      BY <3>1, <3>2, <3>3 DEF Blazed
    <3> QED BY <3>1, <3>4
  <2> QED BY <1>5, <2>1, <2>2
<1>11. Burns(ct) /\ sold' = sold /\ pending' = event[2]
  BY <1>3 DEF ct, Midnight
<1>12. OthersTyped' /\ BookedIsPaid'
  <2>1. OthersTyped /\ BookedIsPaid /\ None \notin {0, 1}
    BY Others
  <2> QED BY <1>7, <1>11, <2>1 DEF Midnight, OthersTyped, BookedIsPaid
<1> QED BY <1>7, <1>9, <1>10, <1>11, <1>12, BlazeKeeps DEF Good

\* The player answers the choice.
LEMMA ResolveChoiceGood == IInv /\ ResolveChoice => Good
<1> SUFFICES ASSUME IInv, ResolveChoice PROVE Good
  OBVIOUS
<1>1. PICK at \in Declined(Blaze) \cup {Paid(Blaze)} : Burns(at)
  BY DEF ResolveChoice
<1>2. /\ Tracked(at) /\ \A i \in Id : Blazed(rooms[i], at.rooms[i])
      /\ \/ Works(at.rooms) = Works(rooms)
         \/ \E i \in Works(rooms) : at.rooms[i] = Clean("gutted")
  BY Types, ResolvedFacts
<1>3. pending' = None /\ sold' = sold /\ UNCHANGED <<crew, hire, edits>>
  BY DEF ResolveChoice
<1>4. OthersTyped' /\ BookedIsPaid'
  BY <1>3, Others DEF OthersTyped, BookedIsPaid, crew, hire
<1>5. ~(pending' = "fireRescue")
  BY <1>3, RoomAssumption
<1>6. \A k \in {"hotel", "security", "office"} :
         \/ WorksOf(rooms, k) # {} => WorksOf(at.rooms, k) # {}
         \/ Len(at.active) = 1
         \/ \E i \in Works(rooms) : at.rooms[i] = Clean("gutted")
  BY <1>2 DEF WorksOf
<1> QED BY <1>1, <1>2, <1>3, <1>4, <1>5, <1>6, BlazeKeeps DEF Good

\* Roaches breed in the dirt and creep next door, guests leave their rooms dirty,
\* and the exterminator comes: room by room.
LEMMA EscalatedFacts ==
    ASSUME NEW rs \in Layout
    PROVE  /\ Escalated(rs) \in Layout
           /\ \A i \in Id : Escalated(rs)[i] = None <=> rs[i] = None
           /\ \A i \in Id :
                \/ Escalated(rs)[i] = rs[i] /\ i \notin Hotel(rs) \cap In(rs, {"dirty"})
                \/ /\ rs[i] # None /\ rs[i].is = "dirty" /\ Kind[i] = "hotel"
                   /\ \/ rs[i].days + 1 >= InfestDays /\ Escalated(rs)[i] = Clean("infested")
                      \/ /\ Escalated(rs)[i].is = "dirty"
                         /\ Escalated(rs)[i].days = rs[i].days + 1
<1> DEFINE e == Escalated(rs)
<1>1. \A i \in Id : e[i] = IF i \notin Hotel(rs) \cap In(rs, {"dirty"}) THEN rs[i]
                           ELSE IF rs[i].days + 1 >= InfestDays THEN Clean("infested")
                           ELSE [rs[i] EXCEPT !.days = @ + 1]
  BY DEF Escalated
<1>2. e = [i \in Id |-> e[i]]
  BY DEF Escalated
<1> HIDE DEF e
<1>3. ASSUME NEW i \in Id
      PROVE  /\ e[i] \in Room \cup {None} /\ (e[i] = None <=> rs[i] = None)
             /\ \/ e[i] = rs[i] /\ i \notin Hotel(rs) \cap In(rs, {"dirty"})
                \/ /\ rs[i] # None /\ rs[i].is = "dirty" /\ Kind[i] = "hotel"
                   /\ \/ rs[i].days + 1 >= InfestDays /\ e[i] = Clean("infested")
                      \/ e[i].is = "dirty" /\ e[i].days = rs[i].days + 1
  <2>1. CASE i \notin Hotel(rs) \cap In(rs, {"dirty"})
    BY <1>1, <2>1 DEF Layout
  <2>2. CASE i \in Hotel(rs) \cap In(rs, {"dirty"})
    <3>1. rs[i] # None /\ rs[i] \in Room /\ rs[i].is = "dirty" /\ Kind[i] = "hotel"
      BY <2>2, RoomOf DEF Hotel, In, Built
    <3>2. CASE rs[i].days + 1 >= InfestDays
      <4>1. e[i] = Clean("infested") /\ Clean("infested") \in Room
        BY <1>1, <2>2, <3>2, CleanRoom DEF States
      <4> QED BY <3>1, <3>2, <4>1, NoneIsNone
    <3>3. CASE ~(rs[i].days + 1 >= InfestDays)
      <4>1. e[i] = [rs[i] EXCEPT !.days = @ + 1]
        BY <1>1, <2>2, <3>3
      <4>2. rs[i].days + 1 \in Dirt
        BY <3>1, <3>3, RoomAssumption DEF Room, Dirt
      <4>3. e[i] \in Room /\ e[i].is = "dirty" /\ e[i].days = rs[i].days + 1
        BY <3>1, <4>1, <4>2 DEF Room
      <4> QED BY <3>1, <4>3, NoneIsNone
    <3> QED BY <3>2, <3>3
  <2> QED BY <2>1, <2>2
<1>4. e \in Layout
  BY <1>2, <1>3 DEF Layout
<1> QED BY <1>3, <1>4 DEF e

LEMMA CreptFacts ==
    ASSUME NEW rs \in Layout
    PROVE  /\ Crept(rs) \in Layout
           /\ \A i \in Id : Crept(rs)[i] = None <=> rs[i] = None
           /\ \A i \in Id : \/ Crept(rs)[i] = rs[i]
                            \/ /\ rs[i].is \in {"asleep", "empty"} /\ Kind[i] = "hotel"
                               /\ Crept(rs)[i].is = "dirty" /\ Crept(rs)[i].days = rs[i].days
<1> DEFINE sources == Hotel(rs) \cap In(rs, {"infested"})
           near(i) == RoomAt(rs, Place[i][1], Place[i][2] - 1)
                      \cup RoomAt(rs, Place[i][1], Place[i][2] + 1)
           some == {i \in Hotel(rs) \cap In(rs, {"asleep", "empty"}) :
                       \E m \in sources : i \in near(m)}
<1>1. Crept(rs) = Turned(rs, some, "dirty")
  BY DEF Crept
<1>2. some \in SUBSET Built(rs) /\ \A i \in some : rs[i].is \in {"asleep", "empty"}
                                                 /\ Kind[i] = "hotel"
  BY DEF In, Hotel
<1> HIDE DEF some
<1>3. "dirty" \in States
  BY DEF States
<1> DEFINE t == Turned(rs, some, "dirty")
<1>4. /\ t \in Layout /\ \A i \in Id : t[i] = None <=> rs[i] = None
      /\ \A i \in some : t[i].is = "dirty" /\ t[i].days = rs[i].days
      /\ \A i \in Id \ some : t[i] = rs[i]
  BY <1>2, <1>3, TurnedFacts
<1> HIDE DEF t
<1>5. Crept(rs) = t
  BY <1>1 DEF t
<1> QED BY <1>2, <1>4, <1>5

LEMMA CheckedOutFacts ==
    ASSUME NEW rs \in Layout, NEW some \in SUBSET (Hotel(rs) \cap In(rs, {"asleep"}))
    PROVE  /\ CheckedOut(rs, some) \in Layout
           /\ \A i \in Id : CheckedOut(rs, some)[i] = None <=> rs[i] = None
           /\ \A i \in Id : \/ CheckedOut(rs, some)[i] = rs[i]
                            \/ /\ rs[i].is = "asleep" /\ Kind[i] = "hotel"
                               /\ CheckedOut(rs, some)[i].is = "dirty"
                               /\ CheckedOut(rs, some)[i].days = rs[i].days
<1>1. some \in SUBSET Built(rs) /\ \A i \in some : rs[i].is = "asleep" /\ Kind[i] = "hotel"
  BY DEF In, Hotel
<1>2. "dirty" \in States
  BY DEF States
<1> QED BY <1>1, <1>2, TurnedFacts DEF CheckedOut

LEMMA ExterminatedFacts ==
    ASSUME NEW rs \in Layout
    PROVE  /\ Exterminated(rs) \in Layout
           /\ \A i \in Id : Exterminated(rs)[i] = None <=> rs[i] = None
           /\ \A i \in Id : \/ Exterminated(rs)[i] = rs[i]
                            \/ /\ due = 0 /\ (billed # None => i \in billed)
                               /\ rs[i].is = "infested" /\ Exterminated(rs)[i] = Clean("empty")
<1> DEFINE some == {i \in Hotel(rs) \cap In(rs, {"infested"}) : billed # None => i \in billed}
<1>1. CASE due # 0
  BY <1>1 DEF Exterminated
<1>2. CASE due = 0
  <2>1. Exterminated(rs) = Renewed(rs, some, "empty")
    BY <1>2 DEF Exterminated
  <2>2. some \in SUBSET Built(rs)
        /\ \A i \in some : rs[i].is = "infested" /\ (billed # None => i \in billed)
    BY DEF In, Hotel
  <2> HIDE DEF some
  <2>3. "empty" \in States
    BY DEF States
  <2> DEFINE t == Renewed(rs, some, "empty")
  <2>4. /\ t \in Layout /\ \A i \in Id : t[i] = None <=> rs[i] = None
        /\ \A i \in some : t[i] = Clean("empty")
        /\ \A i \in Id \ some : t[i] = rs[i]
    BY <2>2, <2>3, RenewedFacts
  <2> HIDE DEF t
  <2>5. Exterminated(rs) = t
    BY <2>1 DEF t
  <2> QED BY <1>2, <2>2, <2>4, <2>5
<1> QED BY <1>1, <1>2

\* A room as the invariant has it.
LEMMA RoomKnown ==
    ASSUME IInv, NEW i \in Id, rooms[i] # None
    PROVE  /\ rooms[i] \in Room /\ RoomFits(i, rooms[i], seen[i])
           /\ rooms[i].days \in Dirt
BY Types, NoneIsNone DEF IInv, DaysCounted, Layout, Room

\* The maids sent out are sent to rooms.
LEMMA DispatchedFacts ==
    ASSUME NEW rs, NEW out \in SUBSET Id, NEW more \in Dispatched(rs, out)
    PROVE  more \subseteq Id
BY DEF Dispatched, Hotel, Built

\* The morning, room by room.
LEMMA MorningRooms ==
    ASSUME IInv, NEW leaving \in SUBSET (Hotel(Crept(Escalated(rooms)))
                                         \cap In(Crept(Escalated(rooms)), {"asleep"}))
    PROVE  LET rs == Exterminated(CheckedOut(Crept(Escalated(rooms)), leaving))
           IN  /\ rs \in Layout
               /\ \A i \in Id : Moves(i, rooms[i], rs[i], TRUE) /\ Tended(i, rooms[i], rs[i])
<1> DEFINE e  == Escalated(rooms)
           c  == Crept(e)
           l  == CheckedOut(c, leaving)
           rs == Exterminated(l)
<1>1. rooms \in Layout
  BY Types
<1>2. /\ e \in Layout /\ \A i \in Id : e[i] = None <=> rooms[i] = None
      /\ \A i \in Id :
           \/ e[i] = rooms[i] /\ i \notin Hotel(rooms) \cap In(rooms, {"dirty"})
           \/ /\ rooms[i] # None /\ rooms[i].is = "dirty" /\ Kind[i] = "hotel"
              /\ \/ rooms[i].days + 1 >= InfestDays /\ e[i] = Clean("infested")
                 \/ e[i].is = "dirty" /\ e[i].days = rooms[i].days + 1
  BY <1>1, EscalatedFacts
<1> HIDE DEF e
<1>3. /\ c \in Layout /\ \A i \in Id : c[i] = None <=> e[i] = None
      /\ \A i \in Id : \/ c[i] = e[i]
                       \/ /\ e[i].is \in {"asleep", "empty"} /\ Kind[i] = "hotel"
                          /\ c[i].is = "dirty" /\ c[i].days = e[i].days
  BY <1>2, CreptFacts
<1>4. leaving \in SUBSET (Hotel(c) \cap In(c, {"asleep"}))
  BY DEF e
<1> HIDE DEF c
<1>5. /\ l \in Layout /\ \A i \in Id : l[i] = None <=> c[i] = None
      /\ \A i \in Id : \/ l[i] = c[i]
                       \/ /\ c[i].is = "asleep" /\ Kind[i] = "hotel"
                          /\ l[i].is = "dirty" /\ l[i].days = c[i].days
  BY <1>3, <1>4, CheckedOutFacts
<1> HIDE DEF l
<1>6. /\ rs \in Layout /\ \A i \in Id : rs[i] = None <=> l[i] = None
      /\ \A i \in Id : \/ rs[i] = l[i]
                       \/ /\ due = 0 /\ (billed # None => i \in billed)
                          /\ l[i].is = "infested" /\ rs[i] = Clean("empty")
  BY <1>5, ExterminatedFacts
<1> HIDE DEF rs
<1>7. due = 0 => billed = paid /\ paid # None
  BY RoomAssumption DEF IInv, BookedIsPaid, TypeOK
<1>8. /\ Clean("infested").is = "infested" /\ Clean("infested").days = 0
      /\ Clean("empty").is = "empty" /\ Clean("empty").days = 0
  BY DEF Clean
<1>9. ASSUME NEW i \in Id, rooms[i] # None
      PROVE  Moves(i, rooms[i], rs[i], TRUE) /\ Tended(i, rooms[i], rs[i])
  <2>1. RoomFits(i, rooms[i], seen[i]) /\ rooms[i].days \in Dirt
    BY <1>9, RoomKnown
  <2>2. e[i] # None /\ c[i] # None /\ l[i] # None /\ rs[i] # None
    BY <1>2, <1>3, <1>5, <1>6, <1>9
  <2>3. CASE rooms[i].is = "dirty"
    <3>1. Kind[i] = "hotel"
      BY <2>1, <2>3 DEF RoomFits
    <3>2. \/ rooms[i].days + 1 >= InfestDays /\ e[i] = Clean("infested")
          \/ e[i].is = "dirty" /\ e[i].days = rooms[i].days + 1
      BY <1>2, <1>9, <2>3, <3>1 DEF Hotel, In, Built
    <3>3. e[i].is \in {"infested", "dirty"} /\ c[i] = e[i] /\ l[i] = e[i]
      BY <1>3, <1>5, <1>8, <3>2
    <3>4. \/ rs[i] = e[i]
          \/ e[i].is = "infested" /\ rs[i] = Clean("empty")
      BY <1>6, <3>3
    <3> QED BY <1>8, <1>9, <2>2, <2>3, <3>1, <3>2, <3>4 DEF Moves, Tended
  <2>4. CASE rooms[i].is # "dirty"
    <3>1. e[i] = rooms[i]
      BY <1>2, <2>4
    <3>2. \/ c[i] = rooms[i]
          \/ /\ rooms[i].is \in {"asleep", "empty"} /\ Kind[i] = "hotel"
             /\ c[i].is = "dirty" /\ c[i].days = rooms[i].days
      BY <1>3, <3>1
    <3>3. \/ l[i] = rooms[i]
          \/ /\ rooms[i].is \in {"asleep", "empty"} /\ Kind[i] = "hotel"
             /\ l[i].is = "dirty" /\ l[i].days = rooms[i].days
      BY <1>5, <3>2
    <3>4. \/ rs[i] = rooms[i]
          \/ /\ rooms[i].is \in {"asleep", "empty"} /\ Kind[i] = "hotel"
             /\ rs[i].is = "dirty" /\ rs[i].days = rooms[i].days
          \/ rooms[i].is = "infested" /\ i \in paid /\ rs[i] = Clean("empty")
      BY <1>6, <1>7, <3>3
    <3> QED BY <1>8, <1>9, <2>1, <2>2, <2>4, <3>4 DEF Moves, Tended, RoomFits
  <2> QED BY <2>3, <2>4
<1>10. ASSUME NEW i \in Id, rooms[i] = None
       PROVE  Moves(i, rooms[i], rs[i], TRUE) /\ Tended(i, rooms[i], rs[i])
  BY <1>2, <1>3, <1>5, <1>6, <1>10 DEF Moves, Tended
<1>11. \A i \in Id : Moves(i, rooms[i], rs[i], TRUE) /\ Tended(i, rooms[i], rs[i])
  BY <1>9, <1>10
<1> QED BY <1>6, <1>11 DEF rs, l, c, e

LEMMA MorningGood == IInv /\ Morning => Good
<1> SUFFICES ASSUME IInv, Morning PROVE Good
  OBVIOUS
<1>1. PICK leaving \in SUBSET (Hotel(Crept(Escalated(rooms)))
                               \cap In(Crept(Escalated(rooms)), {"asleep"})) :
         LET rs == Exterminated(CheckedOut(Crept(Escalated(rooms)), leaving))
         IN  Becomes(rs, TRUE) /\ maids' \in Dispatched(rs, {})
  BY DEF Morning
<1> DEFINE rs == Exterminated(CheckedOut(Crept(Escalated(rooms)), leaving))
<1>2. /\ rs \in Layout
      /\ \A i \in Id : Moves(i, rooms[i], rs[i], TRUE) /\ Tended(i, rooms[i], rs[i])
  BY MorningRooms
<1>3. Becomes(rs, TRUE) /\ maids' \in Dispatched(rs, {})
  BY <1>1
<1> HIDE DEF rs
<1>4. maids' \subseteq Id
  BY <1>3, DispatchedFacts
<1>5. /\ phase' = "day" /\ due' = (IF due = 0 THEN None ELSE due)
      /\ billed' = (IF due = 0 THEN None ELSE billed) /\ paid' = (IF due = 0 THEN {} ELSE paid)
      /\ UNCHANGED <<sold, active, pending, edits>>
  BY DEF Morning
<1>6. OthersTyped' /\ BookedIsPaid'
  <2>1. OthersTyped /\ BookedIsPaid
    BY Others
  <2>2. CASE due = 0
    <3>1. due' = None /\ billed' = None /\ paid' = {} /\ phase' = "day"
          /\ pending' = pending /\ edits' = edits
      BY <1>5, <2>2
    <3>2. /\ pending' \in {None, "fireRescue", "bombThreat"} /\ maids' \subseteq Id
          /\ edits' \in 0..MaxEdits
      BY <1>4, <2>1, <3>1 DEF OthersTyped
    <3>3. /\ due' \in {None, 0, 1} /\ billed' \in (SUBSET Id) \cup {None}
          /\ phase' \in {"night", "day", "evening"}
      BY <3>1
    <3>4. paid' \subseteq Id
      BY <3>1
    <3> QED BY <3>1, <3>2, <3>3, <3>4 DEF OthersTyped, BookedIsPaid
  <2>3. CASE due # 0
    <3>1. due' = due /\ billed' = billed /\ paid' = paid /\ phase' = "day"
          /\ pending' = pending /\ edits' = edits
      BY <1>5, <2>3
    <3>2. OthersTyped'
      BY <1>4, <2>1, <3>1 DEF OthersTyped
    <3> QED BY <2>1, <3>1, <3>2 DEF BookedIsPaid
  <2> QED BY <2>2, <2>3
<1>7. active' \in Seq(Id) /\ OneEach(active') /\ ToSet(active') = In(rooms, {"fire"})
  BY <1>5, Types
<1> QED BY <1>2, <1>3, <1>5, <1>6, <1>7, TendedKeeps DEF Good

\* The guests who slept late.
LEMMA AfternoonGood == IInv /\ Afternoon => Good
<1> SUFFICES ASSUME IInv, Afternoon PROVE Good
  OBVIOUS
<1> DEFINE some == Hotel(rooms) \cap In(rooms, {"asleep"})
           rs   == CheckedOut(rooms, some)
<1>1. Becomes(rs, FALSE) /\ maids' \in Dispatched(rs, maids)
      /\ phase' = "evening" /\ UNCHANGED <<sold, active, pending, hire, edits>>
  BY DEF Afternoon
<1>2. /\ rs \in Layout /\ \A i \in Id : rs[i] = None <=> rooms[i] = None
      /\ \A i \in Id : \/ rs[i] = rooms[i]
                       \/ /\ rooms[i].is = "asleep" /\ Kind[i] = "hotel"
                          /\ rs[i].is = "dirty" /\ rs[i].days = rooms[i].days
  BY Types, CheckedOutFacts
<1> HIDE DEF rs
<1>3. ASSUME NEW i \in Id PROVE Moves(i, rooms[i], rs[i], FALSE) /\ Tended(i, rooms[i], rs[i])
  BY <1>2, RoomKnown DEF Moves, Tended, RoomFits
<1>4. maids' \subseteq Id
  BY <1>1, Others, DispatchedFacts DEF OthersTyped
<1>5. OthersTyped' /\ BookedIsPaid'
  BY <1>1, <1>4, Others DEF OthersTyped, BookedIsPaid, hire
<1>6. active' \in Seq(Id) /\ OneEach(active') /\ ToSet(active') = In(rooms, {"fire"})
  BY <1>1, Types
<1> QED BY <1>1, <1>2, <1>3, <1>5, <1>6, TendedKeeps DEF Good

\* Guests come for the night.
LEMMA CheckInGood == IInv /\ CheckIn => Good
<1> SUFFICES ASSUME IInv, CheckIn PROVE Good
  OBVIOUS
<1>1. PICK guests \in SUBSET (Hotel(rooms) \cap In(rooms, {"empty"})) :
         Becomes(Turned(rooms, guests, "asleep"), FALSE)
  BY DEF CheckIn
<1> DEFINE rs == Turned(rooms, guests, "asleep")
<1>2. guests \in SUBSET Built(rooms) /\ "asleep" \in States
      /\ \A i \in guests : rooms[i].is = "empty" /\ Kind[i] = "hotel"
  BY DEF In, Hotel, States
<1>3. /\ rs \in Layout /\ \A i \in Id : rs[i] = None <=> rooms[i] = None
      /\ \A i \in guests : rs[i].is = "asleep" /\ rs[i].days = rooms[i].days
      /\ \A i \in Id \ guests : rs[i] = rooms[i]
  <2>1. rooms \in Layout
    BY Types
  <2> QED BY <1>2, <2>1, TurnedFacts
<1>4. Becomes(rs, FALSE)
  BY <1>1
<1> HIDE DEF rs
<1>5. ASSUME NEW i \in Id PROVE Moves(i, rooms[i], rs[i], FALSE) /\ Tended(i, rooms[i], rs[i])
  BY <1>2, <1>3, RoomKnown DEF Moves, Tended, RoomFits
<1>6. maids' \in Dispatched(rooms, maids) /\ UNCHANGED <<sold, active, pending, hire, phase, edits>>
  BY DEF CheckIn
<1>7. maids' \subseteq Id
  BY <1>6, Others, DispatchedFacts DEF OthersTyped
<1>8. OthersTyped' /\ BookedIsPaid'
  BY <1>6, <1>7, Others DEF OthersTyped, BookedIsPaid, hire
<1>9. active' \in Seq(Id) /\ OneEach(active') /\ ToSet(active') = In(rooms, {"fire"})
  BY <1>6, Types
<1> QED BY <1>3, <1>4, <1>5, <1>6, <1>8, <1>9, TendedKeeps DEF Good

\* A maid is back: the room she cleaned was dirty still.
LEMMA MaidBackGood == ASSUME IInv, NEW m \in Id, MaidBack(m) PROVE Good
<1>1. PICK rs \in {rooms, Cleaned(rooms, m)} :
        /\ Becomes(rs, FALSE)
        /\ IF phase = "night" THEN maids' = maids \ {m}
           ELSE maids' \in Dispatched(rs, maids \ {m})
  BY DEF MaidBack
<1>2. /\ rs \in Layout /\ \A i \in Id : rs[i] = None <=> rooms[i] = None
      /\ \A i \in Id : rs[i] = rooms[i] \/ (rooms[i].is = "dirty" /\ rs[i] = Clean("empty"))
  <2>1. CASE rs = rooms
    BY <2>1, Types
  <2>2. CASE rs # rooms
    <3>1. m \in In(rooms, {"dirty"}) /\ rs = Renewed(rooms, {m}, "empty")
      BY <1>1, <2>2 DEF Cleaned
    <3>2. {m} \in SUBSET Built(rooms) /\ rooms[m].is = "dirty" /\ "empty" \in States
      BY <3>1 DEF In, States
    <3> DEFINE t == Renewed(rooms, {m}, "empty")
    <3>3. /\ t \in Layout /\ \A i \in Id : t[i] = None <=> rooms[i] = None
          /\ t[m] = Clean("empty") /\ \A i \in Id \ {m} : t[i] = rooms[i]
      BY <3>2, Types, RenewedFacts
    <3> HIDE DEF t
    <3>4. rs = t
      BY <3>1 DEF t
    <3> QED BY <3>2, <3>3, <3>4
  <2> QED BY <2>1, <2>2
<1>3. Clean("empty").is = "empty" /\ Clean("empty").days = 0
  BY DEF Clean
<1>4. ASSUME NEW i \in Id PROVE Moves(i, rooms[i], rs[i], FALSE) /\ Tended(i, rooms[i], rs[i])
  BY <1>2, <1>3, RoomKnown DEF Moves, Tended, RoomFits
<1>5. UNCHANGED <<sold, active, pending, hire, phase, edits>>
  BY DEF MaidBack
<1>6. maids' \subseteq Id
  <2>1. maids \ {m} \in SUBSET Id
    BY Others DEF OthersTyped
  <2> QED BY <1>1, <2>1, DispatchedFacts
<1>7. OthersTyped' /\ BookedIsPaid'
  BY <1>5, <1>6, Others DEF OthersTyped, BookedIsPaid, hire
<1>8. active' \in Seq(Id) /\ OneEach(active') /\ ToSet(active') = In(rooms, {"fire"})
  BY <1>5, Types
<1> QED BY <1>1, <1>2, <1>4, <1>5, <1>7, <1>8, TendedKeeps DEF Good

\* Fires listed from the rooms that burn are those rooms, each once.
LEMMA ListedFacts ==
    ASSUME NEW S \in SUBSET Id, NEW fires \in SetToSeqs(S)
    PROVE  fires \in Seq(Id) /\ OneEach(fires) /\ ToSet(fires) = S
<1> DEFINE n == Cardinality(S)
<1>1. fires \in [1..n -> S] /\ \A l, m \in 1..n : l # m => fires[l] # fires[m]
  BY DEF SetToSeqs
<1>2. IsFiniteSet(S) /\ n \in Nat
  <2>1. IsFiniteSet(S)
    BY RoomAssumption, FS_Subset
  <2> QED BY <2>1, FS_CardinalityType
<1>3. n = Cardinality(S)
  OBVIOUS
<1> HIDE DEF n
<1>4. fires \in Injection(1..n, S)
  BY <1>1 DEF Injection, IsInjective
<1>5. IsFiniteSet(1..n) /\ Cardinality(1..n) = n
  <2>1. IsFiniteSet(1..n) /\ Cardinality(1..n) = IF 1 > n THEN 0 ELSE n - 1 + 1
    BY <1>2, FS_Interval
  <2> QED BY <1>2, <2>1
<1>6. fires \in Surjection(1..n, S)
  <2> DEFINE D == 1..n
  <2>1. fires \in Injection(D, S) /\ IsFiniteSet(S) /\ Cardinality(D) = Cardinality(S)
    BY <1>2, <1>3, <1>4, <1>5
  <2> HIDE DEF D
  <2>2. fires \in Surjection(D, S)
    BY <2>1, FS_Injection
  <2> QED BY <2>2 DEF D
<1>7. fires \in Seq(Id) /\ Len(fires) = n /\ DOMAIN fires = 1..n
  BY <1>1, <1>2
<1>8. ToSet(fires) = S
  <2>1. ToSet(fires) = {fires[m] : m \in 1..n}
    BY <1>7 DEF ToSet
  <2>2. \A i \in S : \E m \in 1..n : fires[m] = i
    BY <1>6 DEF Surjection
  <2>3. \A m \in 1..n : fires[m] \in S
    BY <1>1
  <2> QED BY <2>1, <2>2, <2>3
<1> QED BY <1>1, <1>7, <1>8 DEF OneEach

\* A save is loaded.
LEMMA ReloadGood == IInv /\ Reload => Good
<1> SUFFICES ASSUME IInv, Reload PROVE Good
  OBVIOUS
<1> DEFINE rs == Loaded(rooms)
<1>1. Becomes(rs, FALSE) /\ active' \in SetToSeqs(In(rooms, {"fire"}))
      /\ sold' = [i \in Id |-> None] /\ maids' = {}
      /\ UNCHANGED <<pending, hire, phase, edits>>
  BY DEF Reload
<1>2. rooms \in Layout /\ rs = [i \in Id |-> rs[i]]
      /\ \A i \in Id : rs[i] = IF i \in Built(rooms) \ In(rooms, {"dirty"})
                               THEN Clean(rooms[i].is) ELSE rooms[i]
  BY Types DEF Loaded
<1> HIDE DEF rs
<1>3. ASSUME NEW i \in Id
      PROVE  /\ rs[i] \in Room \cup {None}
             /\ Moves(i, rooms[i], rs[i], FALSE) /\ Tended(i, rooms[i], rs[i])
  <2>1. CASE i \in Built(rooms) \ In(rooms, {"dirty"})
    <3>1. rooms[i] # None /\ rooms[i].is # "dirty" /\ rooms[i].is \in States
      BY <1>2, <2>1, RoomOf DEF In, Built
    <3> DEFINE c == Clean(rooms[i].is)
    <3>2. c \in Room /\ c.is = rooms[i].is /\ c.days = 0 /\ c # None
      BY <3>1, CleanRoom
    <3> HIDE DEF c
    <3>3. rs[i] = c
      BY <1>2, <2>1 DEF c
    <3>4. RoomFits(i, rooms[i], seen[i])
      BY <3>1, RoomKnown
    <3> QED BY <3>1, <3>2, <3>3, <3>4 DEF Moves, Tended, RoomFits
  <2>2. CASE i \notin Built(rooms) \ In(rooms, {"dirty"})
    <3>1. rs[i] = rooms[i] /\ rooms[i] \in Room \cup {None}
      BY <1>2, <2>2 DEF Layout
    <3> QED BY <3>1, RoomKnown DEF Moves, Tended, RoomFits
  <2> QED BY <2>1, <2>2
<1>4. rs \in Layout
  BY <1>2, <1>3 DEF Layout
<1>5. active' \in Seq(Id) /\ OneEach(active') /\ ToSet(active') = In(rooms, {"fire"})
  <2>1. In(rooms, {"fire"}) \in SUBSET Id
    BY DEF In, Built
  <2> QED BY <1>1, <2>1, ListedFacts
<1>6. OthersTyped' /\ BookedIsPaid'
  BY <1>1, Others DEF OthersTyped, BookedIsPaid, hire
<1> QED BY <1>1, <1>3, <1>4, <1>5, <1>6, TendedKeeps DEF Good

\* The exterminator is called and paid.
LEMMA CallExterminatorGood == IInv /\ CallExterminator => Good
<1> SUFFICES ASSUME IInv, CallExterminator PROVE Good
  OBVIOUS
<1>1. /\ due' = 1 /\ paid' = billed' /\ billed' = Hotel(rooms) \cap In(rooms, {"infested"})
      /\ UNCHANGED <<rooms, sold, active, pending, crew, edits, seen>>
  BY DEF CallExterminator
<1>2. billed' \in SUBSET Id
  BY <1>1 DEF Hotel, Built
<1>3. OthersTyped' /\ BookedIsPaid'
  BY <1>1, <1>2, Others DEF OthersTyped, BookedIsPaid, crew
<1> QED BY <1>1, <1>3, SameRoomsGood

-----------------------------------------------------------------------------
(* The player's edits.                                                     *)

\* A room that does not burn is sold, or one is put up where there was none.
LEMMA EditGood ==
    ASSUME IInv, NEW i \in Id, NEW r \in Room \cup {None}, NEW q \in Room \cup {None},
           rooms' = [rooms EXCEPT ![i] = r], sold' = [sold EXCEPT ![i] = q],
           UNCHANGED <<active, pending, seen>>, OthersTyped', BookedIsPaid',
           r # None => RoomFits(i, r, seen[i]) /\ r.is # "fire" /\ q = None /\ rooms[i] = None,
           q # None => RoomFits(i, q, seen[i]) /\ q.is # "fire",
           rooms[i] # None => rooms[i].is # "fire" /\ r = None
    PROVE  Good
<1>1. /\ rooms \in Layout /\ sold \in Layout /\ seen \in [Id -> Dirt]
      /\ active \in Seq(Id) /\ OneEach(active) /\ ToSet(active) = In(rooms, {"fire"})
  BY Types
<1>2. rooms' \in Layout /\ sold' \in Layout
  BY <1>1 DEF Layout
<1>3. /\ rooms'[i] = r /\ sold'[i] = q
      /\ \A j \in Id \ {i} : rooms'[j] = rooms[j] /\ sold'[j] = sold[j]
  BY <1>1 DEF Layout
<1>4. In(rooms', {"fire"}) = In(rooms, {"fire"})
  BY <1>3 DEF In, Built
<1>5. DaysCounted'
  <2>1. \A j \in Id : seen'[j] = seen[j]
    OBVIOUS
  <2>2. /\ rooms'[i] # None => RoomFits(i, rooms'[i], seen'[i]) /\ sold'[i] = None
        /\ sold'[i] # None => RoomFits(i, sold'[i], seen'[i]) /\ sold'[i].is # "fire"
    BY <1>3, <2>1
  <2>3. ASSUME NEW j \in Id \ {i}
        PROVE  /\ rooms'[j] # None => RoomFits(j, rooms'[j], seen'[j]) /\ sold'[j] = None
               /\ sold'[j] # None => RoomFits(j, sold'[j], seen'[j]) /\ sold'[j].is # "fire"
    BY <1>3, <2>1 DEF IInv, DaysCounted
  <2> QED BY <2>2, <2>3 DEF DaysCounted
<1>6. IInv'
  <2>1. active' \in Seq(Id) /\ OneEach(active') /\ ToSet(active') = In(rooms', {"fire"})
        /\ seen' \in [Id -> Dirt]
    BY <1>1, <1>4
  <2>2. pending' = "fireRescue" => active' # <<>>
    BY DEF IInv
  <2> QED BY <1>2, <1>5, <2>1, <2>2, Gathered
<1>7. ASSUME NEW j \in Id PROVE Lawful(j)
  BY <1>3 DEF Lawful, In, Built
<1>8. KindsKept
  <2> SUFFICES ASSUME NEW k, WorksOf(rooms, k) # {}, WorksOf(rooms', k) = {},
                      \A j \in Works(rooms) : rooms'[j] # None
               PROVE  FALSE
    BY DEF KindsKept, WorksOf, Works, In, Built
  <2>1. PICK j \in Works(rooms) : Kind[j] = k
    BY DEF WorksOf
  <2>2. j \in Id /\ rooms[j] # None /\ rooms'[j] # None
    BY <2>1 DEF Works, Built
  <2>3. j # i
    BY <1>3, <2>2
  <2>4. j \in Works(rooms')
    BY <1>3, <2>1, <2>2, <2>3 DEF Works, In, Built
  <2> QED BY <2>1, <2>4 DEF WorksOf
<1> QED BY <1>6, <1>7, <1>8 DEF Good

LEMMA SellGood == ASSUME IInv, NEW i \in Id, Sell(i) PROVE Good
<1>1. i \in Built(rooms) \ In(rooms, {"fire"}) /\ edits < MaxEdits
      /\ rooms' = [rooms EXCEPT ![i] = None] /\ sold' = [sold EXCEPT ![i] = rooms[i]]
      /\ edits' = edits + 1 /\ UNCHANGED <<active, pending, crew, hire, seen>>
  BY DEF Sell
<1>2. rooms[i] # None /\ rooms[i].is # "fire"
  BY <1>1 DEF In, Built
<1>3. rooms[i] \in Room /\ RoomFits(i, rooms[i], seen[i])
  BY <1>2, RoomKnown
<1>4. OthersTyped' /\ BookedIsPaid'
  BY <1>1, Others, RoomAssumption DEF OthersTyped, BookedIsPaid, crew, hire
<1> QED BY <1>1, <1>2, <1>3, <1>4, EditGood

LEMMA PutBackGood == ASSUME IInv, NEW i \in Id, PutBack(i) PROVE Good
<1>1. sold[i] # None
      /\ rooms' = [rooms EXCEPT ![i] = sold[i]] /\ sold' = [sold EXCEPT ![i] = None]
      /\ UNCHANGED <<active, pending, crew, hire, edits, seen>>
  BY DEF PutBack
<1>2. sold[i] \in Room /\ RoomFits(i, sold[i], seen[i]) /\ sold[i].is # "fire"
      /\ rooms[i] = None
  BY <1>1, Types DEF IInv, DaysCounted, Layout
<1>3. OthersTyped' /\ BookedIsPaid'
  BY <1>1, Others DEF OthersTyped, BookedIsPaid, crew, hire
<1> QED BY <1>1, <1>2, <1>3, EditGood

LEMMA BuildGood == ASSUME IInv, NEW i \in Id, Build(i) PROVE Good
<1>1. rooms[i] = None /\ sold[i] = None /\ edits < MaxEdits
      /\ rooms' = [rooms EXCEPT ![i] = Clean("empty")] /\ edits' = edits + 1
      /\ UNCHANGED <<sold, active, pending, crew, hire, seen>>
  BY DEF Build
<1> DEFINE r == Clean("empty")
<1>2. r \in Room /\ r.is = "empty" /\ r.days = 0
  BY CleanRoom DEF States
<1>3. rooms' = [rooms EXCEPT ![i] = r]
  BY <1>1
<1> HIDE DEF r
<1>4. RoomFits(i, r, seen[i]) /\ r.is # "fire"
  BY <1>2 DEF RoomFits
<1>5. sold' = [sold EXCEPT ![i] = None]
  BY <1>1, Types DEF Layout
<1>6. OthersTyped' /\ BookedIsPaid'
  BY <1>1, Others, RoomAssumption DEF OthersTyped, BookedIsPaid, crew, hire
<1> QED BY <1>1, <1>2, <1>3, <1>4, <1>5, <1>6, EditGood

-----------------------------------------------------------------------------
(* The theorems.                                                           *)

LEMMA InitHolds == Init => IInv
<1> SUFFICES ASSUME Init PROVE IInv
  OBVIOUS
<1>1. PICK S \in Begun : rooms = [i \in Id |-> IF i \in S THEN Clean("empty") ELSE None]
  BY DEF Init
<1> DEFINE c == Clean("empty")
<1>2. c \in Room /\ c.is = "empty" /\ c.days = 0 /\ c # None
  BY CleanRoom DEF States
<1>3. rooms = [i \in Id |-> IF i \in S THEN c ELSE None]
  BY <1>1
<1> HIDE DEF c
<1>4. /\ sold = [i \in Id |-> None] /\ active = <<>> /\ pending = None /\ maids = {}
      /\ due = None /\ billed = None /\ phase = "evening" /\ edits = 0
      /\ seen = [i \in Id |-> 0] /\ paid = {}
  BY DEF Init
<1>5. rooms \in Layout /\ sold \in Layout /\ seen \in [Id -> Dirt]
  BY <1>2, <1>3, <1>4, NoneIsNone DEF Layout
<1>6. active \in Seq(Id) /\ OneEach(active) /\ ToSet(active) = {}
  BY <1>4 DEF OneEach, ToSet
<1>7. In(rooms, {"fire"}) = {}
  BY <1>2, <1>3 DEF In, Built
<1>8. OthersTyped
  <2>1. 0 \in 0..MaxEdits
    BY RoomAssumption
  <2> QED BY <1>4, <2>1 DEF OthersTyped
<1>9. TypeOK
  BY <1>5, <1>6, <1>8 DEF TypeOK, OthersTyped, Layout
<1>10. Tracked(Blaze)
  BY <1>5, <1>6, <1>7 DEF Tracked, Blaze
<1>11. pending # "fireRescue"
  BY <1>4, RoomAssumption
<1>12. DaysCounted
  <2>1. \A i \in Id : sold[i] = None /\ (rooms[i] # None => rooms[i] = c)
    BY <1>3, <1>4
  <2> QED BY <1>2, <2>1 DEF DaysCounted, RoomFits
<1>13. BookedIsPaid
  BY <1>4 DEF BookedIsPaid
<1> QED BY <1>9, <1>10, <1>11, <1>12, <1>13 DEF IInv

\* Every step keeps the invariant, is lawful for every room and keeps the kinds.
LEMMA StepGood == IInv /\ [Next]_vars => Good
<1> SUFFICES ASSUME IInv, [Next]_vars PROVE Good
  OBVIOUS
<1>1. CASE UNCHANGED vars
  <2>1. UNCHANGED <<rooms, sold, active, pending, seen>>
    BY <1>1 DEF vars
  <2>2. OthersTyped' /\ BookedIsPaid'
    BY <1>1, Others DEF vars, OthersTyped, BookedIsPaid
  <2> QED BY <2>1, <2>2, SameRoomsGood
<1>2. CASE Midnight
  BY <1>2, MidnightGood
<1>3. CASE Morning
  BY <1>3, MorningGood
<1>4. CASE Afternoon
  BY <1>4, AfternoonGood
<1>5. CASE CheckIn
  BY <1>5, CheckInGood
<1>6. CASE ResolveChoice
  BY <1>6, ResolveChoiceGood
<1>7. CASE CallExterminator
  BY <1>7, CallExterminatorGood
<1>8. CASE Reload
  BY <1>8, ReloadGood
<1>9. ASSUME NEW i \in Id, MaidBack(i) PROVE Good
  BY <1>9, MaidBackGood
<1>10. ASSUME NEW i \in Id, Sell(i) PROVE Good
  BY <1>10, SellGood
<1>11. ASSUME NEW i \in Id, PutBack(i) PROVE Good
  BY <1>11, PutBackGood
<1>12. ASSUME NEW i \in Id, Build(i) PROVE Good
  BY <1>12, BuildGood
<1> QED BY <1>1, <1>2, <1>3, <1>4, <1>5, <1>6, <1>7, <1>8, <1>9, <1>10, <1>11, <1>12 DEF Next

\* The invariant holds in every state.
THEOREM Invariance == Spec => []IInv
<1>1. Init => IInv
  BY InitHolds
<1>2. IInv /\ [Next]_vars => IInv'
  BY StepGood DEF Good
<1> QED BY <1>1, <1>2, PTL DEF Spec

\* The state keeps its types: the dirty days of a room stay below INFEST_DAYS, and
\* so does the count of mornings they stand for.
THEOREM Typed == Spec => []TypeOK
<1>1. IInv => TypeOK
  BY DEF IInv
<1> QED BY <1>1, Invariance, PTL

\* The fires in hand are the rooms that burn, each once, and a rescue is on offer
\* only while there is one (EventSystem::active, whoever sold, bombed or loaded).
THEOREM EveryFireTracked == Spec => []FiresTracked
<1>1. IInv => FiresTracked
  <2> SUFFICES ASSUME IInv PROVE FiresTracked
    OBVIOUS
  <2>1. active \in Seq(Id) /\ OneEach(active) /\ ToSet(active) = In(rooms, {"fire"})
    BY Types
  <2>2. Len(active) = Cardinality(ToSet(active))
    BY <2>1, OneEachCounts
  <2> QED BY <2>1, <2>2 DEF FiresTracked, IInv
<1> QED BY <1>1, Invariance, PTL

\* By spreading, a blaze never takes the last working room of a kind
\* (spread_fire_to): unless a room was gutted unburned, what is left is one fire.
THEOREM LastRoomSpared == Spec => LastOfKindKept
<1>1. IInv /\ [Next]_vars =>
         [\A k \in {Kind[i] : i \in Id} :
            /\ WorksOf(rooms, k) # {} /\ WorksOf(rooms, k)' = {}
            /\ \A i \in Works(rooms) : rooms'[i] # None /\ rooms'[i].is # "gutted"
            => Len(active') = 1]_vars
  BY StepGood DEF Good, KindsKept
<1> QED BY <1>1, Invariance, PTL DEF Spec, LastOfKindKept

\* A burning room ends as a shell, and a shell stays one until it is sold.
THEOREM RuinsAreKept == Spec => RuinsStay
<1>1. IInv /\ [Next]_vars =>
         [\A i \in Id :
            /\ i \in In(rooms, {"fire"}) => i \in In(rooms', {"fire", "gutted"})
            /\ i \in In(rooms, {"gutted"}) =>
                  rooms'[i] = None \/ i \in In(rooms', {"gutted"})]_vars
  BY StepGood DEF Good, Lawful
<1> QED BY <1>1, Invariance, PTL DEF Spec, RuinsStay

\* Roaches leave a room only by an exterminator paid for that room, or with it
\* (extermination_room_ids, resolve_extermination).
THEOREM TreatmentIsPaid == Spec => OnlyPaidTreated
<1>1. IInv /\ [Next]_vars =>
         [\A i \in In(rooms, {"infested"}) :
            i \in In(rooms', {"empty", "asleep", "dirty"}) => i \in paid]_vars
  <2>1. In(rooms, {"infested"}) \subseteq Id
    BY DEF In, Built
  <2> QED BY <2>1, StepGood DEF Good, Lawful
<1> QED BY <1>1, Invariance, PTL DEF Spec, OnlyPaidTreated

\* A room breeds roaches only after InfestDays mornings in a row found it dirty:
\* every way out of the dirt resets dirty_days, a sale taken back keeps them.
THEOREM NeglectIsCounted == Spec => NeglectCounted
<1>1. IInv /\ [Next]_vars =>
         [\A i \in In(rooms, {"dirty"}) :
            i \in In(rooms', {"infested"}) => seen[i] + 1 >= InfestDays]_vars
  <2>1. In(rooms, {"dirty"}) \subseteq Id
    BY DEF In, Built
  <2> QED BY <2>1, StepGood DEF Good, Lawful
<1> QED BY <1>1, Invariance, PTL DEF Spec, NeglectCounted
==============================================================================
