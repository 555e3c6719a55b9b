-------------------------- MODULE ElevatorShaftProofs --------------------------
(***************************************************************************)
(* Proofs about ElevatorShaft, for any height, cars, seats, lobbies, homes, *)
(* chunks, people and trips.  Both passes of a chunk are followed item by   *)
(* item: the cars in their order, and the people in theirs.  Halfway        *)
(* through the crowd, the seats taken in a car are the riders in it among   *)
(* the people who had their turn and those who did not; a person takes one  *)
(* turn, since nobody is in the crowd twice.                                *)
(***************************************************************************)
EXTENDS ElevatorShaft, Induction, FiniteSetTheorems, TLAPS

\* Nobody is in the crowd twice.
OneEach(people) == \A m, n \in DOMAIN people : people[m].id = people[n].id => m = n

\* Who rides has a car, and nobody else has.
RightCar(p) == IF p.st = "Riding" THEN p.car \in Cars ELSE p.car = 0

IInv ==
    /\ TypeOK /\ OneEach(crowd) /\ SeatsMatchRiders
    /\ \A p \in ToSet(crowd) : RightCar(p)

\* Who rides a car above the running ones was in it before.
BoardsRunning ==
    \A p \in {q \in ToSet(crowd') : q.st = "Riding"} :
        p.car > active => \E q \in In("Riding") : q.id = p.id /\ q.car = p.car

Good == IInv' /\ BoardsRunning

-----------------------------------------------------------------------------
(* Numbers and sets.                                                       *)

LEMMA MinMax ==
    ASSUME NEW a \in Int, NEW b \in Int
    PROVE  /\ Min({a, b}) = IF a <= b THEN a ELSE b
           /\ Max({a, b}) = IF a <= b THEN b ELSE a
<1>1. \E x \in {a, b} : \A y \in {a, b} : x <= y
  OBVIOUS
<1>2. \E x \in {a, b} : \A y \in {a, b} : x >= y
  OBVIOUS
<1>3. Min({a, b}) \in {a, b} /\ \A y \in {a, b} : Min({a, b}) <= y
  BY <1>1 DEF Min
<1>4. Max({a, b}) \in {a, b} /\ \A y \in {a, b} : Max({a, b}) >= y
  BY <1>2 DEF Max
<1> QED BY <1>3, <1>4

LEMMA MinIn == ASSUME NEW S \in SUBSET Nat, S # {} PROVE Min(S) \in S
<1>1. PICK m \in S : \A k \in S : m <= k
  BY Least
<1> QED BY <1>1 DEF Min

\* A list lists finitely many things.
LEMMA ListFinite == ASSUME NEW X, NEW s \in Seq(X) PROVE IsFiniteSet(ToSet(s))
<1> DEFINE n == Len(s)
           T == ToSet(s)
<1>1. n \in Nat /\ DOMAIN s = 1..n /\ T = {s[m] : m \in DOMAIN s} /\ s = [m \in 1..n |-> s[m]]
  BY DEF ToSet
<1> HIDE DEF n, T
<1>2. s \in Surjection(1..n, T)
  BY <1>1 DEF Surjection
<1>3. IsFiniteSet(1..n)
  <2>1. n \in Int /\ 1 \in Int
    BY <1>1
  <2> QED BY <2>1, FS_Interval
<1>4. IsFiniteSet(T)
  BY <1>2, <1>3, FS_Surjection
<1> QED BY <1>4 DEF T

\* One more at the end of a list.
LEMMA Appended ==
    ASSUME NEW X, NEW s \in Seq(X), NEW x \in X
    PROVE  /\ Append(s, x) \in Seq(X) /\ Len(Append(s, x)) = Len(s) + 1
           /\ ToSet(Append(s, x)) = ToSet(s) \cup {x}
           /\ Append(s, x)[Len(s) + 1] = x
           /\ \A m \in DOMAIN s : Append(s, x)[m] = s[m]
           /\ DOMAIN Append(s, x) = DOMAIN s \cup {Len(s) + 1} /\ Len(s) + 1 \notin DOMAIN s
<1> DEFINE a == Append(s, x)
           n == Len(s)
<1>1. n \in Nat /\ a \in Seq(X) /\ Len(a) = n + 1 /\ a[n + 1] = x
      /\ \A m \in 1..n : a[m] = s[m]
  OBVIOUS
<1>2. DOMAIN a = 1..n + 1 /\ DOMAIN s = 1..n
  OBVIOUS
<1> HIDE DEF a, n
<1>3. 1..n + 1 = (1..n) \cup {n + 1} /\ n + 1 \notin 1..n
  BY <1>1
<1>4. ToSet(a) = {a[m] : m \in 1..n + 1} /\ ToSet(s) = {s[m] : m \in 1..n}
  BY <1>2 DEF ToSet
<1>5. ToSet(a) = ToSet(s) \cup {x}
  BY <1>1, <1>3, <1>4
<1> QED BY <1>1, <1>2, <1>3, <1>5 DEF a, n

-----------------------------------------------------------------------------
(* The cars.                                                               *)

Moves == [cars : Seq(Car), dwell : Seq(0 .. Dwell), claimed : SUBSET Floors]

\* The lowest of some floors is one of them.
LEMMA LowestFloor == ASSUME NEW S \in SUBSET Floors, S # {} PROVE Min(S) \in S
<1>1. S \in SUBSET Nat
  BY ShaftAssumption DEF Floors
<1> QED BY <1>1, MinIn

LEMMA ApartNat ==
    ASSUME NEW f \in Floors, NEW g \in Floors
    PROVE  Apart(f, g) \in Nat
<1>1. f \in Int /\ g \in Int /\ f - g \in Int /\ g - f \in Int
  BY ShaftAssumption DEF Floors
<1>2. Apart(f, g) = IF f - g <= g - f THEN g - f ELSE f - g
  BY <1>1, MinMax DEF Apart
<1> QED BY <1>1, <1>2

\* Some stop is nearest, so a home snaps to a stop.
LEMMA SnapFloor ==
    ASSUME NEW f \in Floors, NEW stops \in SUBSET Floors, stops # {}
    PROVE  SnapHome(f, stops) \in stops
<1> DEFINE T == {Apart(s, f) : s \in stops}
           near == {s \in stops : \A o \in stops : Apart(s, f) <= Apart(o, f)}
<1>1. T \in SUBSET Nat /\ T # {}
  BY ApartNat
<1>2. PICK m \in T : \A k \in T : m <= k
  <2> HIDE DEF T
  <2> QED BY <1>1, Least
<1>3. near # {}
  <2>1. PICK s \in stops : m = Apart(s, f)
    OBVIOUS
  <2>2. \A o \in stops : Apart(o, f) \in T
    OBVIOUS
  <2>3. s \in near
    BY <1>2, <2>1, <2>2
  <2> QED BY <2>3
<1>4. near \subseteq stops /\ near \in SUBSET Floors
  OBVIOUS
<1>5. SnapHome(f, stops) = Min(near)
  BY DEF SnapHome
<1> HIDE DEF near
<1> QED BY <1>3, <1>4, <1>5, LowestFloor

\* Homes that snap, and homes cut to some cars, are homes.
LEMMA SnapHomesFacts ==
    ASSUME NEW list \in Seq(Floors), NEW stops \in SUBSET Floors, stops # {}
    PROVE  SnapHomes(list, stops) \in Seq(Floors) /\ Len(SnapHomes(list, stops)) = Len(list)
<1> DEFINE n == Len(list)
           h(c) == SnapHome(list[c], stops)
<1>1. n \in Nat /\ DOMAIN list = 1 .. n /\ \A c \in 1 .. n : list[c] \in Floors
  OBVIOUS
<1>2. \A c \in 1 .. n : h(c) \in Floors
  BY <1>1, SnapFloor
<1>3. SnapHomes(list, stops) = [c \in 1 .. n |-> h(c)]
  BY <1>1 DEF SnapHomes
<1> HIDE DEF n, h
<1>4. [c \in 1 .. n |-> h(c)] \in Seq(Floors) /\ Len([c \in 1 .. n |-> h(c)]) = n
  BY <1>1, <1>2
<1> QED BY <1>3, <1>4 DEF n

LEMMA CutHomesFacts ==
    ASSUME NEW list \in Seq(Floors), NEW n \in Nat
    PROVE  CutHomes(list, n) \in Seq(Floors) /\ Len(CutHomes(list, n)) <= n
<1> DEFINE m == Min({Len(list), n})
<1>1. Len(list) \in Nat
  OBVIOUS
<1>2. m = IF Len(list) <= n THEN Len(list) ELSE n
  BY <1>1, MinMax
<1>3. m \in Nat /\ m <= Len(list) /\ m <= n
  BY <1>1, <1>2
<1> HIDE DEF m
<1>4. SubSeq(list, 1, m) \in Seq(Floors) /\ Len(SubSeq(list, 1, m)) = m
  BY <1>1, <1>3
<1> QED BY <1>3, <1>4 DEF CutHomes, m

\* The ends of the shaft are stops.
LEMMA StopsFloors ==
    ASSUME skipped \subseteq 1 .. Top - 1
    PROVE  Stops \in SUBSET Floors /\ Stops # {}
<1>1. 0 \in Floors /\ 0 \notin 1 .. Top - 1
  BY ShaftAssumption DEF Floors
<1> QED BY <1>1 DEF Stops

\* A car waits on a floor of the shaft, wherever its home is.
LEMMA HomeFloor == ASSUME TypeOK, NEW c PROVE Home(c) \in Floors
<1>1. Stops \in SUBSET Floors /\ Stops # {}
  BY StopsFloors DEF TypeOK
<1>2. IdleFloor \in Floors
  <2> DEFINE S == IF Stops \cap Lobbies # {} THEN Stops \cap Lobbies ELSE Stops
  <2>1. S \in SUBSET Floors /\ S # {}
    BY <1>1
  <2>2. IdleFloor = Min(S)
    BY DEF IdleFloor
  <2> HIDE DEF S
  <2> QED BY <2>1, <2>2, LowestFloor
<1>3. c \in DOMAIN homes => homes[c] \in Floors
  BY DEF TypeOK
<1> QED BY <1>2, <1>3 DEF Home

\* The state before a chunk.
LEMMA Known ==
    ASSUME TypeOK
    PROVE  /\ cars \in Seq(Car) /\ Len(cars) \in Cars /\ Fleet = 1 .. Len(cars)
           /\ \A c \in Fleet : cars[c] \in Car /\ cars[c].pos \in Floors
                               /\ cars[c].dir \in {-1, 0, 1} /\ c \in Cars
                               /\ Home(c) \in Floors
           /\ Floors \subseteq Int /\ Stops \subseteq Floors /\ 0 \in Floors /\ Top \in Floors
<1>1. cars \in Seq(Car) /\ Len(cars) \in Cars /\ Fleet = 1 .. Len(cars)
  BY DEF TypeOK, Fleet
<1>2. Floors \subseteq Int /\ Stops \subseteq Floors /\ 0 \in Floors /\ Top \in Floors
  BY ShaftAssumption DEF Floors, Stops
<1>3. ASSUME NEW c \in Fleet
      PROVE  cars[c] \in Car /\ c \in Cars
  BY <1>1, <1>3, ShaftAssumption DEF Cars
<1>4. \A c \in Fleet : Home(c) \in Floors
  BY HomeFloor
<1> QED BY <1>1, <1>2, <1>3, <1>4 DEF Car

LEMMA TowardFloor ==
    ASSUME NEW pos \in Floors, NEW f \in Floors, NEW t \in Nat
    PROVE  Toward(pos, f, t) \in Floors
<1>1. pos \in Int /\ f \in Int /\ pos + t \in Int /\ pos - t \in Int
  BY ShaftAssumption DEF Floors
<1>2. /\ Min({f, pos + t}) = IF f <= pos + t THEN f ELSE pos + t
      /\ Max({f, pos - t}) = IF f <= pos - t THEN pos - t ELSE f
  BY <1>1, MinMax
<1> QED BY <1>1, <1>2, ShaftAssumption DEF Toward, Floors

\* What a car heads for is a stop of the shaft.
LEMMA TargetFloors ==
    ASSUME TypeOK, NEW c \in Fleet, NEW called, NEW claimed
    PROVE  /\ TargetOf(c, called, claimed).stop \subseteq Floors
           /\ TargetOf(c, called, claimed).dir \in {-1, 1}
<1>1. Asked(c, called, claimed) \subseteq Floors
  BY Known DEF Asked
<1>2. \A pos, dir : Nearest(Asked(c, called, claimed), pos, dir) \subseteq Floors
  BY <1>1 DEF Nearest
<1>3. cars[c].dir \in {-1, 0, 1}
  BY Known
<1> QED BY <1>2, <1>3 DEF TargetOf

\* A car's move is a car's move, one of each list.
LEMMA MoveCarFacts ==
    ASSUME TypeOK, NEW k \in Moves, NEW c \in Fleet, NEW t \in Nat, NEW called, NEW timers,
           timers[c] \in 0 .. Dwell
    PROVE  LET m == MoveCar(k, c, t, called, timers)
           IN  /\ m \in Moves /\ Len(m.cars) = Len(k.cars) + 1
               /\ Len(m.dwell) = Len(k.dwell) + 1
<1> DEFINE pos == cars[c].pos
           left == Max({0, t - timers[c]})
           target == TargetOf(c, called, k.claimed)
           goal == IF target.stop # {} THEN CHOOSE f \in target.stop : TRUE ELSE Home(c)
           there == Toward(pos, goal, left)
           became(car, timer, claims) ==
             [cars |-> Append(k.cars, car), dwell |-> Append(k.dwell, timer),
              claimed |-> k.claimed \cup (claims \cap Stops)]
           Fits(m) == /\ m \in Moves /\ Len(m.cars) = Len(k.cars) + 1
                      /\ Len(m.dwell) = Len(k.dwell) + 1
<1>1. ASSUME NEW car \in Car, NEW timer \in 0 .. Dwell, NEW claims
      PROVE  Fits(became(car, timer, claims))
  <2>1. Stops \subseteq Floors
    BY Known
  <2>2. k.cars \in Seq(Car) /\ k.dwell \in Seq(0 .. Dwell) /\ k.claimed \in SUBSET Floors
    BY DEF Moves
  <2>3. Append(k.cars, car) \in Seq(Car) /\ Len(Append(k.cars, car)) = Len(k.cars) + 1
    BY <2>2
  <2>4. Append(k.dwell, timer) \in Seq(0 .. Dwell)
        /\ Len(Append(k.dwell, timer)) = Len(k.dwell) + 1
    BY <2>2
  <2>5. k.claimed \cup (claims \cap Stops) \in SUBSET Floors
    BY <2>1, <2>2
  <2> QED BY <2>3, <2>4, <2>5 DEF Moves
<1>2. timers[c] \in Int /\ Dwell \in Nat /\ 0 \in 0 .. Dwell /\ Dwell \in 0 .. Dwell
  BY ShaftAssumption
<1>3. left = IF t - timers[c] >= 0 THEN t - timers[c] ELSE 0
  <2>1. t - timers[c] \in Int /\ 0 \in Int
    BY <1>2
  <2>2. left = IF 0 <= t - timers[c] THEN t - timers[c] ELSE 0
    BY <2>1, MinMax
  <2> QED BY <2>1, <2>2
<1>4. left \in Nat /\ (left = 0 => timers[c] - t \in 0 .. Dwell)
  BY <1>2, <1>3
<1>5. pos \in Floors /\ Home(c) \in Floors /\ cars[c] \in Car
  BY Known
<1>6. target.stop \subseteq Floors /\ target.dir \in {-1, 1}
  BY TargetFloors
<1>7. goal \in Floors
  BY <1>5, <1>6
<1>8. there \in Floors
  BY <1>4, <1>5, <1>7, TowardFloor
<1> DEFINE heads == IF there # goal THEN Way(pos, goal)
                    ELSE IF there = Top THEN -1
                    ELSE IF there = 0 THEN 1 ELSE target.dir
<1>9. [pos |-> there, dir |-> heads] \in Car /\ [pos |-> pos, dir |-> 0] \in Car
  <2>1. heads \in {-1, 1}
    BY <1>6 DEF Way
  <2> QED BY <1>5, <1>8, <2>1 DEF Car
<1>10. GoHome(c, t) \in Car
  <2>1. Toward(pos, Home(c), t) \in Floors
    BY <1>5, TowardFloor
  <2> QED BY <2>1 DEF GoHome, Way, Car
<1> DEFINE m == MoveCar(k, c, t, called, timers)
<1>11. m = IF c \in StoodDown /\ AboardOf(c) = {} THEN became(GoHome(c, t), 0, {})
           ELSE IF left = 0 THEN became(cars[c], timers[c] - t, {pos})
           ELSE IF target.stop = {} /\ pos = Home(c)
                THEN became([pos |-> pos, dir |-> 0], 0, {})
           ELSE became([pos |-> there, dir |-> heads],
                       IF there = goal THEN Dwell ELSE 0, target.stop)
  BY DEF MoveCar
<1> HIDE DEF left, target, goal, there, became, Fits, pos, heads, m
<1>12. Fits(m)
  <2>1. CASE c \in StoodDown /\ AboardOf(c) = {}
    BY <1>1, <1>2, <1>10, <1>11, <2>1
  <2>2. CASE ~(c \in StoodDown /\ AboardOf(c) = {}) /\ left = 0
    BY <1>1, <1>4, <1>5, <1>11, <2>2
  <2>3. CASE /\ ~(c \in StoodDown /\ AboardOf(c) = {}) /\ left # 0
             /\ target.stop = {} /\ pos = Home(c)
    BY <1>1, <1>2, <1>9, <1>11, <2>3
  <2>4. CASE /\ ~(c \in StoodDown /\ AboardOf(c) = {}) /\ left # 0
             /\ ~(target.stop = {} /\ pos = Home(c))
    <3>1. m = became([pos |-> there, dir |-> heads],
                     IF there = goal THEN Dwell ELSE 0, target.stop)
      BY <1>11, <2>4
    <3>2. (IF there = goal THEN Dwell ELSE 0) \in 0 .. Dwell
      BY <1>2
    <3> QED BY <1>1, <1>9, <3>1, <3>2
  <2> QED BY <2>1, <2>2, <2>3, <2>4
<1> QED BY <1>12 DEF Fits, m

\* after is the list of moves, car after car.
Driven(after, t, estimate) ==
    /\ after \in [0..Len(cars) -> Moves] /\ MoveCars(t, estimate) = after[Len(cars)]
    /\ after[0] = [cars |-> <<>>, dwell |-> <<>>, claimed |-> {}]
    /\ \A c \in 1..Len(cars) :
          after[c] = MoveCar(after[c - 1], c, t, Called(estimate), Timers)

LEMMA TimersFacts == ASSUME TypeOK, NEW c \in Fleet PROVE Timers[c] \in 0..Dwell
<1>1. c \in 1..Len(cars) /\ dwell \in Seq(0..Dwell) /\ 0 \in 0..Dwell
  BY Known, ShaftAssumption DEF TypeOK
<1>2. CASE Len(dwell) = Len(cars)
  <2> DEFINE D == 0..Dwell
  <2>1. dwell \in Seq(D) /\ c \in 1..Len(dwell) /\ Timers = dwell
    BY <1>1, <1>2 DEF Timers
  <2> HIDE DEF D
  <2>2. dwell[c] \in D
    BY <2>1
  <2> QED BY <2>1, <2>2 DEF D
<1>3. CASE Len(dwell) # Len(cars)
  BY <1>1, <1>3 DEF Timers
<1> QED BY <1>2, <1>3

LEMMA MoveStep ==
    ASSUME TypeOK, NEW t \in Nat, NEW estimate
    PROVE  \E after : Driven(after, t, estimate)
<1> DEFINE N == Len(cars)
           called == Called(estimate)
           none == [cars |-> <<>>, dwell |-> <<>>, claimed |-> {}]
           step == [p \in (1..N) \X Moves |-> MoveCar(p[2], p[1], t, called, Timers)]
           Made(f) == f = [c \in 0..N |-> IF c = 0 THEN none
                                          ELSE MoveCar(f[c - 1], c, t, called, Timers)]
<1>1. N \in Nat /\ Fleet = 1..N /\ none \in Moves
  BY Known DEF Moves
<1>2. \A c \in 1..N : Timers[c] \in 0..Dwell
  BY <1>1, TimersFacts
<1> HIDE DEF called
<1>3. step \in StepsIn(N, Moves)
  <2>1. ASSUME NEW b \in Moves, NEW c \in 1..N
        PROVE  MoveCar(b, c, t, called, Timers) \in Moves
    BY <1>1, <1>2, MoveCarFacts
  <2> HIDE DEF N
  <2> QED BY <2>1 DEF StepsIn
<1>4. \A c \in 1..N, b \in Moves : step[<<c, b>>] = MoveCar(b, c, t, called, Timers)
  OBVIOUS
<1> HIDE DEF step, N, none
<1>5. PICK f : Takes(f, none, step, N, Moves)
  BY <1>1, <1>3, Recursion
<1>6. /\ f[0] = none /\ \A c \in 1..N : f[c] = step[<<c, f[c - 1]>>]
      /\ \A c \in 1..N : c - 1 \in 0..N /\ c # 0 /\ f[c - 1] \in Moves
  BY <1>1, <1>5 DEF Takes
<1>7. Made(f)
  <2>1. \A c \in 0..N : c = 0 \/ c \in 1..N
    BY <1>1
  <2>2. f = [c \in 0..N |-> f[c]]
    BY <1>5 DEF Takes
  <2>3. \A c \in 0..N : f[c] = IF c = 0 THEN none
                               ELSE MoveCar(f[c - 1], c, t, called, Timers)
    BY <1>4, <1>6, <2>1
  <2> QED BY <2>2, <2>3
<1> DEFINE after == CHOOSE g : Made(g)
<1>8. Made(after)
  BY <1>7
<1>9. MoveCars(t, estimate) = after[N]
  BY DEF MoveCars, N, called, none
<1> HIDE DEF after
<1>10. after[0] = none
       /\ \A c \in 1..N : after[c] = MoveCar(after[c - 1], c, t, called, Timers)
  <2>1. 0 \in 0..N /\ \A c \in 1..N : c \in 0..N /\ c # 0
    BY <1>1
  <2> QED BY <1>8, <2>1
<1>11. after \in [0..N -> Moves]
  <2> DEFINE S == {c \in 0..N : after[c] \in Moves}
  <2>1. 0 \in S
    BY <1>1, <1>10
  <2>2. ASSUME NEW c \in 1..N, c - 1 \in S PROVE c \in S
    <3>1. after[c - 1] \in Moves /\ c \in Fleet /\ c \in 0..N
      BY <1>1, <2>2
    <3>2. MoveCar(after[c - 1], c, t, called, Timers) \in Moves
      BY <1>2, <3>1, MoveCarFacts
    <3> QED BY <1>10, <3>1, <3>2
  <2>3. 0..N \subseteq S
    <3> HIDE DEF S
    <3> QED BY <1>1, <2>1, <2>2, InductionTo
  <2>4. after = [c \in 0..N |-> after[c]]
    BY <1>8
  <2> QED BY <2>3, <2>4
<1> QED BY <1>9, <1>10, <1>11 DEF N, called, none, Driven

\* A chunk moves every car, and keeps a timer for each.
LEMMA MoveCarsFacts ==
    ASSUME TypeOK, NEW t \in Nat, NEW estimate
    PROVE  LET m == MoveCars(t, estimate)
           IN  /\ m.cars \in Seq(Car) /\ Len(m.cars) = Len(cars)
               /\ m.dwell \in Seq(0 .. Dwell) /\ Len(m.dwell) = Len(cars)
<1> DEFINE N == Len(cars)
           called == Called(estimate)
<1>1. PICK after : Driven(after, t, estimate)
  BY MoveStep
<1>2. N \in Nat /\ Fleet = 1..N
  BY Known
<1>3. \A c \in 1..N : Timers[c] \in 0..Dwell
  BY <1>2, TimersFacts
<1>4. /\ after \in [0..N -> Moves] /\ MoveCars(t, estimate) = after[N]
      /\ after[0] = [cars |-> <<>>, dwell |-> <<>>, claimed |-> {}]
      /\ \A c \in 1..N : after[c] = MoveCar(after[c - 1], c, t, called, Timers)
  BY <1>1 DEF Driven
<1> HIDE DEF N, called
<1> DEFINE S == {c \in 0..N : Len(after[c].cars) = c /\ Len(after[c].dwell) = c}
<1>5. 0 \in S
  BY <1>2, <1>4
<1>6. ASSUME NEW c \in 1..N, c - 1 \in S PROVE c \in S
  <2>1. /\ c - 1 \in 0..N /\ c \in 0..N /\ c \in Fleet /\ after[c - 1] \in Moves
        /\ Len(after[c - 1].cars) = c - 1 /\ Len(after[c - 1].dwell) = c - 1
    <3>1. c - 1 \in 0..N /\ c \in 0..N /\ c \in Fleet
      BY <1>2
    <3>2. Len(after[c - 1].cars) = c - 1 /\ Len(after[c - 1].dwell) = c - 1
      BY <1>6
    <3> QED BY <1>4, <3>1, <3>2
  <2> DEFINE m == MoveCar(after[c - 1], c, t, called, Timers)
  <2>2. Len(m.cars) = Len(after[c - 1].cars) + 1 /\ Len(m.dwell) = Len(after[c - 1].dwell) + 1
    BY <1>3, <2>1, MoveCarFacts
  <2>3. after[c] = m
    BY <1>4
  <2> HIDE DEF m
  <2> QED BY <1>2, <2>1, <2>2, <2>3
<1>7. N \in S
  <2> HIDE DEF S
  <2>1. 0..N \subseteq S
    BY <1>2, <1>5, <1>6, InductionTo
  <2> QED BY <1>2, <2>1
<1>8. after[N] \in Moves
  BY <1>2, <1>4
<1> QED BY <1>4, <1>7, <1>8 DEF Moves, N

-----------------------------------------------------------------------------
(* The crowd.                                                              *)

Turns == [crowd : Seq(Person), riders : [Cars -> Nat]]

\* The cars a person may board.
Open(moved) == {c \in DOMAIN moved : standing /\ c \notin closed'}

\* What becomes of a person in their turn: they leave, they stay as they are or
\* move on, or they board a car that is not closed.
Turned(k, p, a, moved) ==
    \/ a = Leave(k, p)
    \/ \E q \in Person :
          /\ q.id = p.id /\ (q.st = "Riding" <=> p.st = "Riding") /\ q.car = p.car
          /\ a = [crowd |-> Append(k.crowd, q), riders |-> k.riders]
    \/ \E q \in Person :
          /\ q.id = p.id /\ p.st # "Riding" /\ q.st = "Riding"
          /\ q.car \in Open(moved)
          /\ a = [crowd |-> Append(k.crowd, q),
                  riders |-> [k.riders EXCEPT ![q.car] = @ + 1]]

LEMMA AdvanceTurns ==
    ASSUME NEW k \in Turns, NEW p \in Person, RightCar(p), NEW moved \in Seq(Car),
           Len(moved) \in Cars, NEW walked, NEW gaveUp
    PROVE  Turned(k, p, Advance(k, p, moved, walked, gaveUp), moved)
<1> DEFINE a == Advance(k, p, moved, walked, gaveUp)
<1>1. DOMAIN moved = 1..Len(moved) /\ DOMAIN moved \subseteq Nat /\ DOMAIN moved \subseteq Cars
  BY ShaftAssumption DEF Cars
<1>2. ASSUME NEW q PROVE Stay(k, q) = [crowd |-> Append(k.crowd, q), riders |-> k.riders]
  <2> DEFINE b == Append(k.crowd, q)
             s == [k EXCEPT !.crowd = b]
  <2>1. DOMAIN k = {"crowd", "riders"}
    BY DEF Turns
  <2>2. s = [x \in DOMAIN k |-> IF x = "crowd" THEN b ELSE k[x]]
    BY ZenonT(30)
  <2>3. [crowd |-> b, riders |-> k.riders] = [x \in {"crowd", "riders"} |->
            IF x = "crowd" THEN b ELSE k[x]]
    BY SMTT(30)
  <2>4. Stay(k, q) = s
    BY DEF Stay
  <2> QED BY <2>1, <2>2, <2>3, <2>4
<1>3. CASE p.id \in gaveUp \/ ~standing \/ (p.st = "Riding" /\ p.car > Len(moved))
  BY <1>3 DEF Advance, Turned
<1>4. CASE ~(p.id \in gaveUp \/ ~standing \/ (p.st = "Riding" /\ p.car > Len(moved)))
           /\ p.st = "ToShaft"
  <2> DEFINE q == IF p.id \in walked THEN [p EXCEPT !.st = "Waiting"] ELSE p
  <2>1. a = Stay(k, q)
    BY <1>4 DEF Advance
  <2>2. q \in Person /\ q.id = p.id /\ (q.st = "Riding" <=> p.st = "Riding") /\ q.car = p.car
    BY <1>4 DEF Person
  <2> HIDE DEF q, a
  <2>3. a = [crowd |-> Append(k.crowd, q), riders |-> k.riders]
    BY <1>2, <2>1
  <2>4. Turned(k, p, a, moved)
    BY <2>2, <2>3 DEF Turned
  <2> QED BY <2>4 DEF a
<1>5. CASE ~(p.id \in gaveUp \/ ~standing \/ (p.st = "Riding" /\ p.car > Len(moved)))
           /\ p.st = "Waiting"
  <2> DEFINE open == Boardable(k, p, moved)
             c == Min(open)
             q == [p EXCEPT !.st = "Riding", !.car = c]
  <2>1. a = IF open = {} THEN Stay(k, p) ELSE [Stay(k, q) EXCEPT !.riders[c] = @ + 1]
    BY <1>5 DEF Advance
  <2>2. open \subseteq Open(moved) /\ open \subseteq Nat
    BY <1>1, <1>5 DEF Boardable, Open
  <2> HIDE DEF open, a
  <2>3. CASE open = {}
    <3>1. a = [crowd |-> Append(k.crowd, p), riders |-> k.riders]
      BY <1>2, <2>1, <2>3
    <3>2. Turned(k, p, a, moved)
      BY <3>1 DEF Turned
    <3> QED BY <3>2 DEF a
  <2>4. CASE open # {}
    <3>1. c \in open
      BY <2>2, <2>4, MinIn
    <3>2. c \in Open(moved) /\ c \in Cars
      BY <1>1, <2>2, <3>1 DEF Open
    <3> HIDE DEF c
    <3>3. c \in 0..MaxCars
      BY <3>2, ShaftAssumption DEF Cars
    <3>4. q \in Person /\ q.id = p.id /\ q.st = "Riding" /\ q.car = c
      BY <3>3 DEF Person
    <3> HIDE DEF q
    <3> DEFINE s == Stay(k, q)
    <3>5. s = [crowd |-> Append(k.crowd, q), riders |-> k.riders]
      BY <1>2
    <3>6. a = [s EXCEPT !.riders[c] = @ + 1]
      BY <2>1, <2>4
    <3> HIDE DEF s
    <3>7. a = [crowd |-> Append(k.crowd, q), riders |-> [k.riders EXCEPT ![c] = @ + 1]]
      BY <3>5, <3>6
    <3>8. Turned(k, p, a, moved)
      BY <1>5, <3>2, <3>4, <3>7 DEF Turned
    <3> QED BY <3>8 DEF a
  <2> QED BY <2>3, <2>4
<1>6. CASE ~(p.id \in gaveUp \/ ~standing \/ (p.st = "Riding" /\ p.car > Len(moved)))
           /\ p.st = "Riding"
  <2> DEFINE pos == moved[p.car].pos
             q == [p EXCEPT !.fy = pos]
  <2>1. a = IF p.to \in Stops /\ (p.fy - p.to) * (pos - p.to) <= 0 THEN Leave(k, p)
            ELSE Stay(k, q)
    BY <1>6 DEF Advance
  <2>2. p.car \in 1..Len(moved)
    BY <1>6, ShaftAssumption DEF RightCar, Cars
  <2>3. pos \in Floors
    <3>1. moved[p.car] \in Car
      BY <2>2
    <3> QED BY <3>1 DEF Car
  <2> HIDE DEF pos, a
  <2>4. q \in Person /\ q.id = p.id /\ q.st = p.st /\ q.car = p.car
    BY <2>3 DEF Person
  <2> HIDE DEF q
  <2>5. a = Leave(k, p) \/ a = [crowd |-> Append(k.crowd, q), riders |-> k.riders]
    BY <1>2, <2>1
  <2>6. Turned(k, p, a, moved)
    BY <2>4, <2>5 DEF Turned
  <2> QED BY <2>6 DEF a
<1> QED BY <1>3, <1>4, <1>5, <1>6 DEF Person

\* A seat given back.
LEMMA Released ==
    ASSUME NEW seats \in [Cars -> Nat], NEW p \in Person, RightCar(p)
    PROVE  /\ Release(seats, p) \in [Cars -> Nat]
           /\ \A c \in Cars : Release(seats, p)[c] =
                IF p.st = "Riding" /\ p.car = c /\ seats[c] # 0 THEN seats[c] - 1 ELSE seats[c]
<1>1. CASE p.st # "Riding"
  <2>1. Release(seats, p) = seats
    BY <1>1 DEF Release, RightCar
  <2> QED BY <1>1, <2>1
<1>2. CASE p.st = "Riding"
  <2> DEFINE e == p.car
             left == Max({0, seats[e] - 1})
  <2>1. e \in Cars /\ seats[e] \in Nat /\ e # 0
    BY <1>2, ShaftAssumption DEF RightCar, Cars
  <2>2. left = IF 0 <= seats[e] - 1 THEN seats[e] - 1 ELSE 0
    <3>1. seats[e] - 1 \in Int /\ 0 \in Int
      BY <2>1
    <3> QED BY <3>1, MinMax
  <2>3. Release(seats, p) = [seats EXCEPT ![e] = left]
    BY <2>1 DEF Release
  <2> HIDE DEF left
  <2>4. left \in Nat /\ left = IF seats[e] # 0 THEN seats[e] - 1 ELSE seats[e]
    BY <2>1, <2>2
  <2> QED BY <1>2, <2>1, <2>3, <2>4
<1> QED BY <1>1, <1>2

LEMMA TurnedTyped ==
    ASSUME NEW k \in Turns, NEW p \in Person, RightCar(p), NEW moved \in Seq(Car),
           Len(moved) \in Cars, NEW a, Turned(k, p, a, moved)
    PROVE  a \in Turns
<1>1. k.crowd \in Seq(Person) /\ k.riders \in [Cars -> Nat]
  BY DEF Turns
<1>2. CASE a = Leave(k, p)
  <2>1. Release(k.riders, p) \in [Cars -> Nat]
    BY <1>1, Released
  <2> QED BY <1>1, <1>2, <2>1 DEF Leave, Turns
<1>3. ASSUME NEW q \in Person,
             a = [crowd |-> Append(k.crowd, q), riders |-> k.riders]
      PROVE  a \in Turns
  BY <1>1, <1>3 DEF Turns
<1>4. ASSUME NEW q \in Person, q.car \in Open(moved),
             a = [crowd |-> Append(k.crowd, q), riders |-> [k.riders EXCEPT ![q.car] = @ + 1]]
      PROVE  a \in Turns
  <2>1. [k.riders EXCEPT ![q.car] = @ + 1] \in [Cars -> Nat]
    <3>1. q.car \in Cars
      BY <1>4, ShaftAssumption DEF Cars, Open
    <3>2. k.riders[q.car] + 1 \in Nat
      BY <1>1, <3>1
    <3> QED BY <1>1, <3>2
  <2>2. Append(k.crowd, q) \in Seq(Person)
    BY <1>1
  <2> QED BY <1>4, <2>1, <2>2 DEF Turns
<1> QED BY <1>2, <1>3, <1>4 DEF Turned

\* One more in a set of people, or one who is not in it.
LEMMA OneMore ==
    ASSUME NEW S, IsFiniteSet(S), NEW p, p \notin S
    PROVE  /\ Cardinality(S) \in Nat /\ Cardinality(S \cup {p}) = Cardinality(S) + 1
BY FS_AddElement, FS_CardinalityType

\* The riders of a car among some people.
Of(people, c) == {p \in people : p.st = "Riding" /\ p.car = c}

\* Once n people had their turn: who still is in the crowd is known from it, the
\* seats are those of the riders among them and among those to come, and who
\* rides a car that was closed was in it.
Later(n) == {crowd[m] : m \in n + 1..Len(crowd)}
Counted(k, n, open) ==
    /\ k \in Turns /\ OneEach(k.crowd)
    /\ \A q \in ToSet(k.crowd) : /\ RightCar(q) /\ \E m \in 1..n : crowd[m].id = q.id
                                 /\ q.st = "Riding" /\ q.car \notin open =>
                                       \E p \in In("Riding") : p.id = q.id /\ p.car = q.car
    /\ \A c \in Cars : k.riders[c] = Cardinality(Of(ToSet(k.crowd) \cup Later(n), c))

\* One turn.  The rest are all but the one whose turn it is.
LEMMA TurnCounted ==
    ASSUME IInv, NEW n \in 1..Len(crowd), NEW k, NEW moved \in Seq(Car), Len(moved) \in Cars,
           Counted(k, n - 1, Open(moved)),
           NEW a, Turned(k, crowd[n], a, moved)
    PROVE  Counted(a, n, Open(moved))
<1> DEFINE p == crowd[n]
           open == Open(moved)
           rest == ToSet(k.crowd) \cup Later(n)
<1>1. /\ crowd \in Seq(Person) /\ OneEach(crowd) /\ DOMAIN crowd = 1..Len(crowd)
      /\ Len(crowd) \in Nat /\ p \in ToSet(crowd)
  BY DEF IInv, TypeOK, ToSet
<1>2. p \in Person /\ RightCar(p)
  BY <1>1 DEF IInv
<1>3. /\ k \in Turns /\ OneEach(k.crowd)
      /\ \A q \in ToSet(k.crowd) : /\ RightCar(q) /\ \E m \in 1..n - 1 : crowd[m].id = q.id
                                   /\ q.st = "Riding" /\ q.car \notin open =>
                                        \E r \in In("Riding") : r.id = q.id /\ r.car = q.car
      /\ \A c \in Cars : k.riders[c] = Cardinality(Of(ToSet(k.crowd) \cup Later(n - 1), c))
  BY DEF Counted
<1>4. Later(n - 1) = Later(n) \cup {p}
  <2>1. n - 1 + 1 = n /\ n..Len(crowd) = (n + 1..Len(crowd)) \cup {n}
    BY <1>1
  <2> QED BY <2>1 DEF Later
<1>5. \A q \in rest : q.id # p.id
  <2>1. ASSUME NEW q \in ToSet(k.crowd) PROVE q.id # p.id
    <3>1. PICK m \in 1..n - 1 : crowd[m].id = q.id
      BY <1>3
    <3>2. m \in DOMAIN crowd /\ n \in DOMAIN crowd /\ m # n
      BY <1>1
    <3> QED BY <1>1, <3>1, <3>2 DEF OneEach
  <2>2. ASSUME NEW q \in Later(n) PROVE q.id # p.id
    <3>1. PICK m \in n + 1..Len(crowd) : crowd[m] = q
      BY DEF Later
    <3>2. m \in DOMAIN crowd /\ n \in DOMAIN crowd /\ m # n
      BY <1>1
    <3> QED BY <1>1, <3>1, <3>2 DEF OneEach
  <2> QED BY <2>1, <2>2
<1>6. IsFiniteSet(rest)
  <2>1. IsFiniteSet(ToSet(k.crowd)) /\ IsFiniteSet(ToSet(crowd))
    BY <1>1, <1>3, ListFinite DEF Turns
  <2>2. Later(n) \subseteq ToSet(crowd)
    BY <1>1 DEF Later, ToSet
  <2>3. IsFiniteSet(Later(n))
    BY <2>1, <2>2, FS_Subset
  <2> QED BY <2>1, <2>3, FS_Union
<1>7. k.crowd \in Seq(Person) /\ k.riders \in [Cars -> Nat]
  BY <1>3 DEF Turns
<1> HIDE DEF p, rest, open
<1>8. ASSUME NEW q, q.id = p.id, NEW c
      PROVE  /\ Cardinality(Of(rest, c)) \in Nat
             /\ Cardinality(Of(rest \cup {q}, c)) =
                  IF q.st = "Riding" /\ q.car = c THEN Cardinality(Of(rest, c)) + 1
                  ELSE Cardinality(Of(rest, c))
  <2>1. IsFiniteSet(Of(rest, c))
    <3>1. Of(rest, c) \subseteq rest
      BY DEF Of
    <3> QED BY <1>6, <3>1, FS_Subset
  <2>2. Of(rest \cup {q}, c) = IF q.st = "Riding" /\ q.car = c THEN Of(rest, c) \cup {q}
                              ELSE Of(rest, c)
    BY DEF Of
  <2>3. q \notin Of(rest, c)
    BY <1>5, <1>8 DEF Of
  <2> QED BY <2>1, <2>2, <2>3, OneMore, FS_CardinalityType
<1>9. \A c \in Cars : k.riders[c] = Cardinality(Of(rest \cup {p}, c))
  <2>1. ToSet(k.crowd) \cup Later(n - 1) = rest \cup {p}
    BY <1>4 DEF rest
  <2> QED BY <1>3, <2>1
<1>10. \A q \in ToSet(k.crowd) : \E m \in 1..n : crowd[m].id = q.id
  BY <1>1, <1>3
<1>11. CASE a = Leave(k, p)
  <2>1. a.crowd = k.crowd /\ a.riders = Release(k.riders, p) /\ a \in Turns
    BY <1>2, <1>3, <1>11, TurnedTyped DEF Leave, Turned
  <2>2. ASSUME NEW c \in Cars PROVE a.riders[c] = Cardinality(Of(rest, c))
    <3>1. a.riders[c] = IF p.st = "Riding" /\ p.car = c /\ k.riders[c] # 0
                        THEN k.riders[c] - 1 ELSE k.riders[c]
      BY <1>2, <1>7, <2>1, Released
    <3>2. /\ Cardinality(Of(rest, c)) \in Nat
          /\ k.riders[c] = IF p.st = "Riding" /\ p.car = c THEN Cardinality(Of(rest, c)) + 1
                           ELSE Cardinality(Of(rest, c))
      BY <1>8, <1>9
    <3> QED BY <3>1, <3>2
  <2> QED BY <1>3, <1>10, <2>1, <2>2 DEF Counted, rest, open
<1>12. ASSUME NEW q \in Person, q.id = p.id, RightCar(q),
              q.st = "Riding" /\ q.car \notin open =>
                 \E r \in In("Riding") : r.id = q.id /\ r.car = q.car,
              a.crowd = Append(k.crowd, q), a \in Turns,
              \A c \in Cars : a.riders[c] =
                 IF q.st = "Riding" /\ q.car = c THEN Cardinality(Of(rest, c)) + 1
                 ELSE Cardinality(Of(rest, c))
       PROVE  Counted(a, n, open)
  <2>1. ToSet(a.crowd) = ToSet(k.crowd) \cup {q}
    BY <1>7, <1>12, Appended
  <2>2. ToSet(a.crowd) \cup Later(n) = rest \cup {q}
    BY <2>1 DEF rest
  <2>3. ASSUME NEW c \in Cars
        PROVE  a.riders[c] = Cardinality(Of(ToSet(a.crowd) \cup Later(n), c))
    <3>1. a.riders[c] = IF q.st = "Riding" /\ q.car = c THEN Cardinality(Of(rest, c)) + 1
                        ELSE Cardinality(Of(rest, c))
      BY <1>12
    <3>2. Cardinality(Of(rest \cup {q}, c)) =
            IF q.st = "Riding" /\ q.car = c THEN Cardinality(Of(rest, c)) + 1
            ELSE Cardinality(Of(rest, c))
      BY <1>8, <1>12
    <3> QED BY <2>2, <3>1, <3>2
  <2>4. OneEach(a.crowd)
    <3> DEFINE b == Append(k.crowd, q)
               l == Len(k.crowd) + 1
    <3>1. /\ DOMAIN b = (DOMAIN k.crowd) \cup {l} /\ b[l] = q
          /\ \A m \in DOMAIN k.crowd : b[m] = k.crowd[m]
      BY <1>7, Appended
    <3> HIDE DEF b, l
    <3>2. \A m \in DOMAIN k.crowd : k.crowd[m].id # q.id
      BY <1>5, <1>12 DEF rest, ToSet
    <3>3. OneEach(b)
      BY <1>3, <3>1, <3>2 DEF OneEach
    <3> QED BY <1>12, <3>3 DEF b
  <2>5. \E m \in 1..n : crowd[m].id = q.id
    BY <1>12 DEF p
  <2> QED BY <1>3, <1>10, <1>12, <2>1, <2>3, <2>4, <2>5 DEF Counted
<1>13. ASSUME NEW q \in Person, q.id = p.id, q.st = "Riding" <=> p.st = "Riding",
              q.car = p.car, a = [crowd |-> Append(k.crowd, q), riders |-> k.riders]
       PROVE  Counted(a, n, open)
  <2>1. a \in Turns
    BY <1>7, <1>13 DEF Turns
  <2>2. RightCar(q)
    BY <1>2, <1>13 DEF RightCar
  <2>3. q.st = "Riding" => p \in In("Riding")
    BY <1>1, <1>13 DEF In, p
  <2>4. \A c \in Cars : a.riders[c] =
           IF q.st = "Riding" /\ q.car = c THEN Cardinality(Of(rest, c)) + 1
           ELSE Cardinality(Of(rest, c))
    BY <1>8, <1>9, <1>13
  <2> QED BY <1>12, <1>13, <2>1, <2>2, <2>3, <2>4
<1>14. ASSUME NEW q \in Person, q.id = p.id, p.st # "Riding", q.st = "Riding", q.car \in open,
              a = [crowd |-> Append(k.crowd, q), riders |-> [k.riders EXCEPT ![q.car] = @ + 1]]
       PROVE  Counted(a, n, open)
  <2>1. q.car \in Cars
    BY <1>14, ShaftAssumption DEF Cars, open, Open
  <2>2. \A c \in Cars : k.riders[c] = Cardinality(Of(rest, c)) /\ k.riders[c] \in Nat
    BY <1>7, <1>8, <1>9, <1>14
  <2>3. \A c \in Cars : a.riders[c] =
           IF q.st = "Riding" /\ q.car = c THEN Cardinality(Of(rest, c)) + 1
           ELSE Cardinality(Of(rest, c))
    BY <1>7, <1>14, <2>1, <2>2
  <2>4. a \in Turns
    <3>1. [k.riders EXCEPT ![q.car] = @ + 1] \in [Cars -> Nat]
      BY <1>7, <2>1, <2>2
    <3>2. Append(k.crowd, q) \in Seq(Person)
      BY <1>7
    <3> QED BY <1>14, <3>1, <3>2 DEF Turns
  <2>5. RightCar(q)
    BY <1>14, <2>1 DEF RightCar
  <2> QED BY <1>12, <1>14, <2>3, <2>4, <2>5
<1> QED BY <1>11, <1>13, <1>14 DEF Turned, p, open

\* after is the list of turns, person after person.
Advanced(after, moved, walked, gaveUp) ==
    /\ after \in [0..Len(crowd) -> Turns]
    /\ AdvanceAll(moved, walked, gaveUp) = after[Len(crowd)]
    /\ after[0] = [crowd |-> <<>>, riders |-> riders]
    /\ \A n \in 1..Len(crowd) :
          after[n] = Advance(after[n - 1], crowd[n], moved, walked, gaveUp)

LEMMA AdvanceStep ==
    ASSUME IInv, NEW moved \in Seq(Car), Len(moved) \in Cars, NEW walked, NEW gaveUp
    PROVE  \E after : Advanced(after, moved, walked, gaveUp)
<1> DEFINE N == Len(crowd)
           none == [crowd |-> <<>>, riders |-> riders]
           turn(b, n) == Advance(b, crowd[n], moved, walked, gaveUp)
           step == [p \in (1..N) \X Turns |-> turn(p[2], p[1])]
           Made(f) == f = [n \in 0..N |-> IF n = 0 THEN none ELSE turn(f[n - 1], n)]
<1>1. N \in Nat /\ none \in Turns
  BY DEF IInv, TypeOK, Turns
<1>2. ASSUME NEW b \in Turns, NEW n \in 1..N PROVE turn(b, n) \in Turns
  <2> DEFINE p == crowd[n]
             a == turn(b, n)
  <2>1. p \in Person /\ RightCar(p)
    <3>1. crowd \in Seq(Person) /\ p \in ToSet(crowd)
      BY DEF IInv, TypeOK, ToSet
    <3> QED BY <3>1 DEF IInv
  <2>2. Turned(b, p, a, moved)
    BY <2>1, AdvanceTurns
  <2> HIDE DEF p, a
  <2>3. a \in Turns
    BY <2>1, <2>2, TurnedTyped
  <2> QED BY <2>3 DEF a
<1>3. step \in StepsIn(N, Turns)
  <2> HIDE DEF N, turn
  <2> QED BY <1>2 DEF StepsIn
<1> HIDE DEF turn
<1>4. \A n \in 1..N, b \in Turns : step[<<n, b>>] = turn(b, n)
  OBVIOUS
<1> HIDE DEF step, N, none
<1>5. PICK f : Takes(f, none, step, N, Turns)
  BY <1>1, <1>3, Recursion
<1>6. /\ f[0] = none /\ \A n \in 1..N : f[n] = step[<<n, f[n - 1]>>]
      /\ \A n \in 1..N : n - 1 \in 0..N /\ n # 0 /\ f[n - 1] \in Turns
  BY <1>1, <1>5 DEF Takes
<1>7. Made(f)
  <2>1. \A n \in 0..N : n = 0 \/ n \in 1..N
    BY <1>1
  <2>2. f = [n \in 0..N |-> f[n]]
    BY <1>5 DEF Takes
  <2>3. \A n \in 0..N : f[n] = IF n = 0 THEN none ELSE turn(f[n - 1], n)
    BY <1>4, <1>6, <2>1
  <2> QED BY <2>2, <2>3
<1> DEFINE after == CHOOSE g : Made(g)
<1>8. Made(after)
  BY <1>7
<1>9. AdvanceAll(moved, walked, gaveUp) = after[N]
  BY DEF AdvanceAll, N, none, turn
<1> HIDE DEF after
<1>10. after[0] = none /\ \A n \in 1..N : after[n] = turn(after[n - 1], n)
  <2>1. 0 \in 0..N /\ \A n \in 1..N : n \in 0..N /\ n # 0
    BY <1>1
  <2> QED BY <1>8, <2>1
<1>11. after \in [0..N -> Turns]
  <2> DEFINE S == {n \in 0..N : after[n] \in Turns}
  <2>1. 0 \in S
    BY <1>1, <1>10
  <2>2. ASSUME NEW n \in 1..N, n - 1 \in S PROVE n \in S
    <3>1. after[n - 1] \in Turns /\ n \in 0..N
      BY <1>1, <2>2
    <3> QED BY <1>2, <1>10, <3>1
  <2>3. 0..N \subseteq S
    <3> HIDE DEF S
    <3> QED BY <1>1, <2>1, <2>2, InductionTo
  <2>4. after = [n \in 0..N |-> after[n]]
    BY <1>8
  <2> QED BY <2>3, <2>4
<1> QED BY <1>9, <1>10, <1>11 DEF N, none, turn, Advanced

\* All had their turn.
LEMMA AdvanceAllCounted ==
    ASSUME IInv, NEW moved \in Seq(Car), Len(moved) \in Cars, NEW walked, NEW gaveUp
    PROVE  LET a == AdvanceAll(moved, walked, gaveUp)
               open == Open(moved)
           IN  /\ a \in Turns /\ OneEach(a.crowd)
               /\ \A q \in ToSet(a.crowd) : /\ RightCar(q)
                                            /\ q.st = "Riding" /\ q.car \notin open =>
                                                 \E p \in In("Riding") : p.id = q.id /\ p.car = q.car
               /\ \A c \in Cars : a.riders[c] = Cardinality(Of(ToSet(a.crowd), c))
<1> DEFINE N == Len(crowd)
           open == Open(moved)
<1>1. PICK after : Advanced(after, moved, walked, gaveUp)
  BY AdvanceStep
<1>2. /\ after \in [0..N -> Turns] /\ AdvanceAll(moved, walked, gaveUp) = after[N]
      /\ after[0] = [crowd |-> <<>>, riders |-> riders]
      /\ \A n \in 1..N : after[n] = Advance(after[n - 1], crowd[n], moved, walked, gaveUp)
  BY <1>1 DEF Advanced
<1>3. crowd \in Seq(Person) /\ N \in Nat /\ DOMAIN crowd = 1..N /\ riders \in [Cars -> Nat]
  BY DEF IInv, TypeOK
<1> DEFINE S == {n \in 0..N : Counted(after[n], n, open)}
<1>4. 0 \in S
  <2> DEFINE k == after[0]
  <2>1. k.crowd = <<>> /\ k.riders = riders /\ k \in Turns /\ ToSet(k.crowd) = {}
    BY <1>2, <1>3 DEF Turns, ToSet
  <2>2. OneEach(k.crowd)
    BY <2>1 DEF OneEach
  <2>3. Later(0) = ToSet(crowd)
    BY <1>3 DEF Later, ToSet
  <2>4. \A c \in Cars : k.riders[c] = Cardinality(Of(ToSet(k.crowd) \cup Later(0), c))
    <3>1. \A c \in Cars : Of(ToSet(k.crowd) \cup Later(0), c) = AboardOf(c)
      BY <2>1, <2>3 DEF Of, AboardOf, In
    <3> QED BY <2>1, <3>1 DEF IInv, SeatsMatchRiders
  <2> HIDE DEF k, open
  <2>5. Counted(k, 0, open)
    BY <2>1, <2>2, <2>4 DEF Counted
  <2> QED BY <1>3, <2>5 DEF k
<1>5. ASSUME NEW n \in 1..N, n - 1 \in S PROVE n \in S
  <2> DEFINE k == after[n - 1]
             p == crowd[n]
             a == after[n]
  <2>1. Counted(k, n - 1, open) /\ n - 1 \in 0..N /\ n \in 0..N /\ k \in Turns
    BY <1>2, <1>3, <1>5
  <2>2. p \in Person /\ RightCar(p)
    <3>1. p \in ToSet(crowd) /\ p \in Person
      BY <1>3 DEF ToSet
    <3> QED BY <3>1 DEF IInv
  <2>3. a = Advance(k, p, moved, walked, gaveUp)
    BY <1>2
  <2> HIDE DEF k, a
  <2>4. Turned(k, p, a, moved)
    <3> HIDE DEF p
    <3> QED BY <2>1, <2>2, <2>3, AdvanceTurns
  <2>5. Counted(a, n, open)
    BY <2>1, <2>4, TurnCounted
  <2> QED BY <2>1, <2>5 DEF a
<1>6. Counted(after[N], N, open)
  <2> HIDE DEF S
  <2>1. 0..N \subseteq S
    BY <1>3, <1>4, <1>5, InductionTo
  <2>2. N \in S
    BY <1>3, <2>1
  <2> QED BY <2>2 DEF S
<1>7. Later(N) = {}
  BY <1>3 DEF Later
<1> HIDE DEF N, open
<1> QED BY <1>2, <1>6, <1>7 DEF Counted, open

-----------------------------------------------------------------------------
(* The steps.                                                              *)

\* A step that leaves the crowd and its seats alone.
LEMMA CrowdLeftAlone ==
    ASSUME IInv, TypeOK', crowd' = crowd, riders' = riders
    PROVE  Good
<1>1. \A c : AboardOf(c)' = AboardOf(c)
  BY DEF AboardOf, In
<1>2. OneEach(crowd)' /\ SeatsMatchRiders' /\ (\A p \in ToSet(crowd) : RightCar(p))'
  BY <1>1 DEF IInv, OneEach, SeatsMatchRiders, RightCar
<1>3. BoardsRunning
  BY DEF BoardsRunning, In
<1> QED BY <1>2, <1>3 DEF Good, IInv

\* The cars of a shaft new in the tower.
LEMMA NewCarsFacts ==
    ASSUME NEW n \in Cars
    PROVE  n \in Nat /\ NewCars(n) \in Seq(Car) /\ Len(NewCars(n)) = n
<1>1. n \in Nat /\ n >= 1 /\ n <= MaxCars /\ 0 \in Floors
  BY ShaftAssumption DEF Cars, Floors
<1>2. ASSUME NEW c \in 1 .. n PROVE [pos |-> Min({c - 1, Top}), dir |-> 0] \in Car
  <2>1. c - 1 \in Int /\ Top \in Int /\ 0 <= c - 1 /\ 0 <= Top
    BY <1>1, ShaftAssumption
  <2>2. Min({c - 1, Top}) = IF c - 1 <= Top THEN c - 1 ELSE Top
    BY <2>1, MinMax
  <2>3. Min({c - 1, Top}) \in Floors
    BY <2>1, <2>2 DEF Floors
  <2> QED BY <2>3 DEF Car
<1> DEFINE new(c) == [pos |-> Min({c - 1, Top}), dir |-> 0]
<1>3. NewCars(n) = [c \in 1 .. n |-> new(c)] /\ \A c \in 1 .. n : new(c) \in Car
  BY <1>2 DEF NewCars
<1> HIDE DEF new
<1> QED BY <1>1, <1>3

LEMMA InitHolds == Init => IInv
<1> SUFFICES ASSUME Init PROVE IInv
  OBVIOUS
<1>1. PICK n \in Cars : cars = NewCars(n)
  BY DEF Init
<1>2. n \in Nat /\ n >= 1 /\ n <= MaxCars /\ 0 \in Floors
  BY ShaftAssumption DEF Cars, Floors
<1>4. cars \in Seq(Car) /\ Len(cars) = n
  BY <1>1, NewCarsFacts
<1>5. crowd = <<>> /\ ToSet(crowd) = {} /\ riders = [c \in Cars |-> 0]
  BY DEF Init, ToSet
<1>6. TypeOK
  <2>1. active \in 0 .. Len(cars)
    <3>1. active = n /\ Len(cars) = n
      BY <1>4 DEF Init
    <3> QED BY <1>2, <3>1
  <2>2. dwell \in Seq(0 .. Dwell) /\ Len(dwell) <= MaxCars
    BY ShaftAssumption DEF Init
  <2>3. homes \in Seq(Floors) /\ Len(homes) <= Len(cars) /\ skipped \subseteq 1 .. Top - 1
    <3>1. CASE homes = <<>> /\ skipped = {}
      BY <1>2, <1>4, <3>1
    <3>2. CASE /\ homes \in {h \in Homes : Len(h) <= Len(cars)}
               /\ skipped \in Skips
      BY <3>2, ShaftAssumption
    <3> QED BY <3>1, <3>2 DEF Init
  <2>4. response = 0 /\ closed = {} /\ standing = TRUE /\ beat = 0 /\ edits = 0
    BY DEF Init
  <2> QED BY <1>4, <1>5, <2>1, <2>2, <2>3, <2>4, ShaftAssumption DEF TypeOK
<1>7. SeatsMatchRiders
  <2>1. \A c : AboardOf(c) = {}
    BY <1>5 DEF AboardOf, In
  <2> QED BY <1>5, <2>1, FS_EmptySet DEF SeatsMatchRiders
<1>8. OneEach(crowd) /\ \A p \in ToSet(crowd) : RightCar(p)
  BY <1>5 DEF OneEach
<1> QED BY <1>6, <1>7, <1>8 DEF IInv

\* A person who sets out has no seat.
LEMMA SetOutGood ==
    ASSUME IInv, NEW id \in People, NEW t \in Trips, SetOut(id, t[1], t[2])
    PROVE  Good
<1> DEFINE p == [id |-> id, st |-> "ToShaft", from |-> t[1], to |-> t[2], car |-> 0,
                 fy |-> t[1]]
<1>1. p \in Person
  <2>1. t[1] \in Floors /\ t[2] \in Floors
    BY ShaftAssumption
  <2>2. 0 \in 0 .. MaxCars
    BY ShaftAssumption
  <2> QED BY <2>1, <2>2 DEF Person
<1>2. /\ crowd' = Append(crowd, p) /\ \A q \in ToSet(crowd) : q.id # id
      /\ UNCHANGED <<standing, cars, dwell, active, response, homes, skipped,
                     closed, riders, beat, edits>>
  BY DEF SetOut
<1>3. p.id = id /\ p.st = "ToShaft" /\ p.car = 0
  OBVIOUS
<1> HIDE DEF p
<1>4. crowd \in Seq(Person) /\ OneEach(crowd)
  BY DEF IInv, TypeOK
<1>5. /\ crowd' \in Seq(Person) /\ ToSet(crowd') = ToSet(crowd) \cup {p}
      /\ crowd'[Len(crowd) + 1] = p /\ \A m \in DOMAIN crowd : crowd'[m] = crowd[m]
      /\ DOMAIN crowd' = DOMAIN crowd \cup {Len(crowd) + 1} /\ Len(crowd) + 1 \notin DOMAIN crowd
  BY <1>1, <1>2, <1>4, Appended
<1>6. TypeOK'
  BY <1>2, <1>5 DEF IInv, TypeOK
<1>7. OneEach(crowd')
  <2>1. \A m \in DOMAIN crowd : crowd[m].id # id
    BY <1>2 DEF ToSet
  <2> QED BY <1>3, <1>4, <1>5, <2>1 DEF OneEach
<1>8. In("Riding")' = In("Riding")
  BY <1>3, <1>5 DEF In
<1>9. SeatsMatchRiders'
  <2>1. \A c : AboardOf(c)' = AboardOf(c)
    BY <1>8 DEF AboardOf
  <2> QED BY <1>2, <2>1 DEF IInv, SeatsMatchRiders
<1>10. \A q \in ToSet(crowd') : RightCar(q)
  BY <1>3, <1>5 DEF IInv, RightCar
<1>11. BoardsRunning
  BY <1>8 DEF BoardsRunning, In
<1> QED BY <1>6, <1>7, <1>9, <1>10, <1>11 DEF Good, IInv, OneEach, RightCar

\* The cars move, and the crowd is told of the closed ones before anybody boards.
LEMMA ChunkGood ==
    ASSUME IInv, NEW t \in Steps, NEW estimate, NEW walked, NEW gaveUp,
           Chunk(t, estimate, walked, gaveUp)
    PROVE  Good
<1> DEFINE m == MoveCars(t, estimate)
           a == AdvanceAll(cars', walked, gaveUp)
<1>1. /\ IF standing THEN cars' = m.cars /\ dwell' = m.dwell /\ closed' = StoodDown
                     ELSE cars' = cars /\ dwell' = <<>> /\ closed' = {}
      /\ crowd' = a.crowd /\ riders' = a.riders /\ beat' = 1 - beat
      /\ UNCHANGED <<standing, active, response, homes, skipped, edits>>
  BY DEF Chunk
<1>2. TypeOK /\ t \in Nat
  BY ShaftAssumption DEF IInv
<1>3. /\ m.cars \in Seq(Car) /\ Len(m.cars) = Len(cars)
      /\ m.dwell \in Seq(0 .. Dwell) /\ Len(m.dwell) = Len(cars)
  BY <1>2, MoveCarsFacts
<1>4. /\ cars \in Seq(Car) /\ Len(cars) \in Cars /\ Len(cars) <= MaxCars
      /\ Fleet = 1 .. Len(cars) /\ Fleet \subseteq Cars
  BY <1>2, ShaftAssumption DEF TypeOK, Fleet, Cars
<1> HIDE DEF m
<1>5. /\ cars' \in Seq(Car) /\ Len(cars') = Len(cars) /\ Len(cars') \in Cars
      /\ DOMAIN cars' = Fleet
  BY <1>1, <1>3, <1>4
<1>6. dwell' \in Seq(0 .. Dwell) /\ Len(dwell') <= MaxCars /\ closed' \subseteq Cars
  <2>1. /\ <<>> \in Seq(0 .. Dwell) /\ Len(<<>>) = 0 /\ 0 <= MaxCars
        /\ StoodDown \subseteq Cars /\ {} \subseteq Cars
    BY <1>4, ShaftAssumption DEF StoodDown
  <2>2. CASE standing
    BY <1>1, <1>3, <1>4, <2>1, <2>2
  <2>3. CASE ~standing
    BY <1>1, <2>1, <2>3
  <2> QED BY <2>2, <2>3
<1>7. /\ a \in Turns /\ OneEach(a.crowd)
      /\ \A q \in ToSet(a.crowd) : /\ RightCar(q)
                                   /\ q.st = "Riding" /\ q.car \notin Open(cars') =>
                                        \E p \in In("Riding") : p.id = q.id /\ p.car = q.car
      /\ \A c \in Cars : a.riders[c] = Cardinality(Of(ToSet(a.crowd), c))
  <2> DEFINE moved == cars'
  <2>1. moved \in Seq(Car) /\ Len(moved) \in Cars
    BY <1>5
  <2> HIDE DEF moved
  <2>2. LET b == AdvanceAll(moved, walked, gaveUp)
        IN  /\ b \in Turns /\ OneEach(b.crowd)
            /\ \A q \in ToSet(b.crowd) : /\ RightCar(q)
                                         /\ q.st = "Riding" /\ q.car \notin Open(moved) =>
                                              \E p \in In("Riding") : p.id = q.id /\ p.car = q.car
            /\ \A c \in Cars : b.riders[c] = Cardinality(Of(ToSet(b.crowd), c))
    BY <2>1, AdvanceAllCounted
  <2> QED BY <2>2 DEF moved
<1> HIDE DEF a
<1>8. TypeOK'
  <2>1. crowd' \in Seq(Person) /\ riders' \in [Cars -> Nat]
    BY <1>1, <1>7 DEF Turns
  <2>2. beat' \in {0, 1}
    BY <1>1, <1>2 DEF TypeOK
  <2> QED BY <1>1, <1>2, <1>5, <1>6, <2>1, <2>2 DEF TypeOK
<1>9. SeatsMatchRiders'
  <2>1. \A c : AboardOf(c)' = Of(ToSet(crowd'), c)
    BY DEF AboardOf, In, Of
  <2> QED BY <1>1, <1>7, <2>1 DEF SeatsMatchRiders
<1>10. OneEach(crowd') /\ \A q \in ToSet(crowd') : RightCar(q)
  BY <1>1, <1>7
<1>11. BoardsRunning
  <2> SUFFICES ASSUME NEW q \in ToSet(crowd'), q.st = "Riding", q.car > active
               PROVE  \E p \in In("Riding") : p.id = q.id /\ p.car = q.car
    BY DEF BoardsRunning
  <2>1. q.car \notin Open(cars')
    <3>1. standing => closed' = {c \in Fleet : c > active}
      BY <1>1 DEF StoodDown
    <3> QED BY <1>5, <3>1 DEF Open
  <2> QED BY <1>1, <1>7, <2>1
<1> QED BY <1>8, <1>9, <1>10, <1>11 DEF Good, IInv, OneEach, RightCar

\* The player's edits, and the hour, leave the crowd as it was.
LEMMA HourGood ==
    ASSUME IInv, NEW n \in 0 .. Len(cars), Hour(n)
    PROVE  Good
<1>1. TypeOK'
  BY DEF Hour, IInv, TypeOK
<1> QED BY <1>1, CrowdLeftAlone DEF Hour

LEMMA SetStopGood ==
    ASSUME IInv, NEW f \in 1 .. Top - 1, SetStop(f)
    PROVE  Good
<1>1. skipped' \subseteq 1 .. Top - 1
  BY DEF SetStop, IInv, TypeOK
<1>2. edits' \in 0 .. MaxEdits
  BY ShaftAssumption DEF SetStop, Edit, IInv, TypeOK
<1>3. homes' \in Seq(Floors) /\ Len(homes') <= Len(cars)
  <2>1. homes \in Seq(Floors) /\ Len(homes) <= Len(cars) /\ homes' = SnapHomes(homes, Stops')
    BY DEF SetStop, IInv, TypeOK
  <2>2. Stops' \in SUBSET Floors /\ Stops' # {}
    <3>1. 0 \in Floors /\ 0 \notin 1 .. Top - 1
      BY ShaftAssumption DEF Floors
    <3> QED BY <1>1, <3>1 DEF Stops
  <2> DEFINE stops == Stops'
  <2> HIDE DEF stops
  <2>3. SnapHomes(homes, stops) \in Seq(Floors) /\ Len(SnapHomes(homes, stops)) = Len(homes)
    <3>1. stops \in SUBSET Floors /\ stops # {}
      BY <2>2 DEF stops
    <3> QED BY <2>1, <3>1, SnapHomesFacts
  <2> QED BY <2>1, <2>3 DEF stops
<1>4. TypeOK'
  BY <1>1, <1>2, <1>3 DEF SetStop, IInv, TypeOK
<1> QED BY <1>4, CrowdLeftAlone DEF SetStop

LEMMA SetCarsGood ==
    ASSUME IInv, NEW n \in Cars, SetCars(n)
    PROVE  Good
<1>1. /\ cars' = [c \in 1 .. n |-> IF c \in Fleet THEN cars[c] ELSE [pos |-> 0, dir |-> 1]]
      /\ active' = IF n > Len(cars) /\ active = Len(cars) THEN n ELSE Min({active, n})
      /\ UNCHANGED <<standing, dwell, response, skipped, closed, crowd, riders, beat>>
  BY DEF SetCars
<1>2. n \in Nat /\ TypeOK /\ active \in Nat
  BY ShaftAssumption DEF Cars, IInv, TypeOK
<1>3. cars' \in Seq(Car) /\ Len(cars') = n
  <2>1. [pos |-> 0, dir |-> 1] \in Car /\ \A c \in Fleet : cars[c] \in Car
    BY <1>2, Known DEF Car
  <2> QED BY <1>1, <1>2, <2>1
<1>4. active' \in 0 .. n
  <2>1. Min({active, n}) = IF active <= n THEN active ELSE n
    BY <1>2, MinMax
  <2> QED BY <1>1, <1>2, <2>1
<1>5. edits' \in 0 .. MaxEdits
  BY ShaftAssumption DEF SetCars, Edit, IInv, TypeOK
<1>6. homes' \in Seq(Floors) /\ Len(homes') <= n
  <2>1. homes' = CutHomes(homes, n) /\ homes \in Seq(Floors)
    BY <1>2 DEF SetCars, TypeOK
  <2> QED BY <1>2, <2>1, CutHomesFacts
<1>7. TypeOK'
  BY <1>1, <1>2, <1>3, <1>4, <1>5, <1>6 DEF TypeOK
<1> QED BY <1>1, <1>7, CrowdLeftAlone

LEMMA SetScheduleGood ==
    ASSUME IInv, NEW r \in Responses, NEW list \in Homes \cup {homes}, SetSchedule(r, list)
    PROVE  Good
<1> DEFINE given == CutHomes(list, Len(cars))
<1>1. edits' \in 0 .. MaxEdits
  BY ShaftAssumption DEF SetSchedule, Edit, IInv, TypeOK
<1>2. Len(cars) \in Nat /\ list \in Seq(Floors) /\ Stops \in SUBSET Floors /\ Stops # {}
  <2>1. cars \in Seq(Car) /\ homes \in Seq(Floors) /\ skipped \subseteq 1 .. Top - 1
    BY DEF IInv, TypeOK
  <2> QED BY <2>1, StopsFloors, ShaftAssumption
<1>3. given \in Seq(Floors) /\ Len(given) <= Len(cars)
  BY <1>2, CutHomesFacts
<1>4. homes' = IF given = homes THEN given ELSE SnapHomes(given, Stops)
  BY DEF SetSchedule
<1> HIDE DEF given
<1>5. homes' \in Seq(Floors) /\ Len(homes') <= Len(cars)
  BY <1>2, <1>3, <1>4, SnapHomesFacts
<1>6. /\ response' = r
      /\ UNCHANGED <<standing, cars, dwell, active, skipped, closed, crowd, riders, beat>>
  BY DEF SetSchedule
<1>7. TypeOK'
  BY <1>1, <1>5, <1>6 DEF IInv, TypeOK
<1> QED BY <1>6, <1>7, CrowdLeftAlone

LEMMA SellGood == ASSUME IInv, Sell PROVE Good
<1>1. edits' \in 0 .. MaxEdits
  BY ShaftAssumption DEF Sell, Edit, IInv, TypeOK
<1>2. TypeOK'
  BY <1>1 DEF Sell, IInv, TypeOK
<1> QED BY <1>2, CrowdLeftAlone DEF Sell

LEMMA PutBackGood == ASSUME IInv, PutBack PROVE Good
<1>1. cars' \in Seq(Car) /\ Len(cars') = Len(cars)
  <2>1. Len(cars) \in Cars
    BY DEF IInv, TypeOK
  <2>2. cars' = NewCars(Len(cars))
    BY DEF PutBack
  <2> QED BY <2>1, <2>2, NewCarsFacts
<1>2. /\ standing' = TRUE
      /\ UNCHANGED <<dwell, active, response, homes, skipped, closed, crowd, riders,
                     beat, edits>>
  BY DEF PutBack
<1>3. TypeOK'
  BY <1>1, <1>2 DEF IInv, TypeOK
<1> QED BY <1>2, <1>3, CrowdLeftAlone

LEMMA StepGood == IInv /\ [Next]_vars => Good
<1> SUFFICES ASSUME IInv, [Next]_vars PROVE Good
  OBVIOUS
<1>1. CASE SomeChunk
  BY <1>1, ChunkGood DEF SomeChunk
<1>2. CASE \E id \in People, t \in Trips : SetOut(id, t[1], t[2])
  BY <1>2, SetOutGood
<1>3. CASE \E n \in 0 .. Len(cars) : Hour(n)
  BY <1>3, HourGood
<1>4. CASE \E f \in 1 .. Top - 1 : SetStop(f)
  BY <1>4, SetStopGood
<1>5. CASE \E n \in Cars : SetCars(n)
  BY <1>5, SetCarsGood
<1>6. CASE \E r \in Responses, list \in Homes \cup {homes} : SetSchedule(r, list)
  BY <1>6, SetScheduleGood
<1>7. CASE Sell
  BY <1>7, SellGood
<1>8. CASE PutBack
  BY <1>8, PutBackGood
<1>9. CASE UNCHANGED vars
  <2>1. TypeOK'
    BY <1>9 DEF vars, IInv, TypeOK
  <2> QED BY <1>9, <2>1, CrowdLeftAlone DEF vars
<1> QED BY <1>1, <1>2, <1>3, <1>4, <1>5, <1>6, <1>7, <1>8, <1>9 DEF Next

-----------------------------------------------------------------------------
(* The theorems.                                                           *)

\* The inductive invariant holds of every behaviour.
THEOREM Invariance == Spec => []IInv
<1>1. IInv /\ [Next]_vars => IInv'
  BY StepGood DEF Good
<1> QED BY InitHolds, <1>1, PTL DEF Spec

\* The type invariant, for any shaft: what the dispatch loop leaves of the cars,
\* their timers and the people is a state the next step can run on (dispatch.rs
\* move_cars, crowd/motion.rs advance).
THEOREM Typed == Spec => []TypeOK
<1>1. IInv => TypeOK
  BY DEF IInv
<1> QED BY Invariance, <1>1, PTL

\* The seats counted in a car are the people riding in it, however many there
\* are and whatever is sold, undone or stood down under them (crowd/motion.rs
\* board, release_seat, finish).
THEOREM SeatsAlwaysMatch == Spec => []SeatsMatchRiders
<1>1. IInv => SeatsMatchRiders
  BY DEF IInv
<1> QED BY Invariance, <1>1, PTL

\* Nobody boards a car above the number the schedule runs, in whatever chunk the
\* hour turned (dispatch.rs closed_cars, sim_loop.rs swap_closed_cars).
THEOREM ClosedCarsLeftAlone == Spec => NobodyBoardsStoodDown
<1>1. IInv /\ [Next]_vars =>
         [\A p \in {q \in ToSet(crowd') : q.st = "Riding"} :
             p.car > active => \E q \in In("Riding") : q.id = p.id /\ q.car = p.car]_vars
  BY StepGood DEF Good, BoardsRunning
<1> QED BY Invariance, <1>1, PTL DEF Spec, NobodyBoardsStoodDown
==============================================================================
