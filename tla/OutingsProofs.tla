---------------------------- MODULE OutingsProofs ----------------------------
(***************************************************************************)
(* Proofs about Outings, for any people, units and capacities.  No count    *)
(* can be told from the counts alone: what makes the checked invariants      *)
(* inductive is that a unit that is gone counts nobody, so that it comes    *)
(* back with nothing, and that a person on the way out holds no place at a  *)
(* venue, so that nobody is counted there twice.                            *)
(***************************************************************************)
EXTENDS Outings, FiniteSetTheorems, TLAPS

\* A unit that is gone counts nobody.
GoneEmpty ==
    /\ \A u \in Homes \ standing : out[u] = 0
    /\ \A v \in Places \ standing : customers[v] = 0 /\ hotel[v] = 0

\* A person on the way out is not counted at any venue.
OutFresh == \A p \in Abroad :
    people[p].st = "Out" => people[p].venue = None /\ ~people[p].guest

IInv == TypeOK /\ GoneEmpty /\ OutFresh /\ NobodyOwed /\ CountsExact /\ NeverOverfull

-----------------------------------------------------------------------------
(* The people who hold a count.                                            *)

\* One person more is one more, and one less is one less.
LEMMA OneJoins ==
    ASSUME NEW S, NEW p, IsFiniteSet(S), p \notin S
    PROVE  IsFiniteSet(S \cup {p}) /\ Cardinality(S) \in Nat
           /\ Cardinality(S \cup {p}) = Cardinality(S) + 1
BY FS_AddElement, FS_CardinalityType

LEMMA OneLeaves ==
    ASSUME NEW S, NEW p, IsFiniteSet(S), p \in S
    PROVE  Cardinality(S) \in Nat \ {0} /\ Cardinality(S \ {p}) = Cardinality(S) - 1
<1>1. IsFiniteSet(S \ {p}) /\ Cardinality(S \ {p}) = Cardinality(S) - 1
  BY FS_RemoveElement
<1>2. Cardinality(S) \in Nat /\ Cardinality(S \ {p}) \in Nat
  BY <1>1, FS_CardinalityType
<1> QED BY <1>1, <1>2

\* Whoever holds a count is one of finitely many people.
LEMMA HoldersFinite ==
    ASSUME NEW x
    PROVE  /\ IsFiniteSet(From(x)) /\ IsFiniteSet(Inside(x)) /\ IsFiniteSet(Guests(x))
           /\ Cardinality(From(x)) \in Nat /\ Cardinality(Inside(x)) \in Nat
           /\ Cardinality(Guests(x)) \in Nat
<1>1. IsFiniteSet(People)
  BY OutingsAssumption
<1>2. From(x) \subseteq People /\ Inside(x) \subseteq People /\ Guests(x) \subseteq People
  BY DEF From, Inside, Guests, Abroad, AbsentPeople
<1>3. IsFiniteSet(From(x)) /\ IsFiniteSet(Inside(x)) /\ IsFiniteSet(Guests(x))
  BY <1>1, <1>2, FS_Subset
<1> QED BY <1>3, FS_CardinalityType

\* None is no unit, so nobody comes from it or is inside it.
LEMMA NoneIsNoUnit == None \notin Homes /\ None \notin Places
BY OutingsAssumption DEF Homes, Places

-----------------------------------------------------------------------------
(* Types.                                                                  *)

\* Settling keeps the counts natural: none is lowered below zero.
LEMMA SettleTyped ==
    ASSUME TypeOK, NEW p \in Abroad, NEW q \in Person, Settle(p, q)
    PROVE  /\ people' \in [People -> Person \cup {None}]
           /\ out' \in [Homes -> Nat]
           /\ customers' \in [Places -> Nat] /\ hotel' \in [Places -> Nat]
<1> DEFINE home == q.origin \in standing /\ out[q.origin] > 0
           there == q.venue \in standing /\ customers[q.venue] > 0
           guest == there /\ q.guest /\ hotel[q.venue] > 0
<1>1. people' \in [People -> Person \cup {None}]
  BY DEF TypeOK, Settle
<1>2. out' \in [Homes -> Nat]
  <2>1. \A u \in Homes : out[u] - (IF home /\ u = q.origin THEN 1 ELSE 0) \in Nat
    BY DEF TypeOK
  <2> QED BY <2>1 DEF Settle
<1>3. customers' \in [Places -> Nat]
  <2>1. \A v \in Places : customers[v] - (IF there /\ v = q.venue THEN 1 ELSE 0) \in Nat
    BY DEF TypeOK
  <2> QED BY <2>1 DEF Settle
<1>4. hotel' \in [Places -> Nat]
  <2>1. \A v \in Places : hotel[v] - (IF guest /\ v = q.venue THEN 1 ELSE 0) \in Nat
    BY DEF TypeOK
  <2> QED BY <2>1 DEF Settle
<1> QED BY <1>1, <1>2, <1>3, <1>4

\* Every step keeps the types.
LEMMA TypeInductive == TypeOK /\ [Next]_vars => TypeOK'
<1> SUFFICES ASSUME TypeOK, [Next]_vars PROVE TypeOK'
  OBVIOUS
<1>1. ASSUME NEW p \in People, NEW u \in Homes, NEW meal \in Places \cup {None},
             NEW st \in {"Out", "Back"}, Raise(p, u, meal, st)
      PROVE  TypeOK'
  <2>1. [st |-> st, origin |-> u, meal |-> meal, venue |-> None, guest |-> FALSE] \in Person
    BY DEF Person
  <2>2. people' \in [People -> Person \cup {None}]
    BY <1>1, <2>1 DEF Raise, TypeOK
  <2>3. out' \in [Homes -> Nat]
    BY <1>1 DEF Raise, TypeOK
  <2> QED BY <1>1, <2>2, <2>3 DEF Raise, TypeOK
<1>2. ASSUME NEW p \in People, NEW u \in Homes, NEW v \in Places, SetOut(p, u, v)
      PROVE  TypeOK'
  BY <1>1, <1>2 DEF SetOut
<1>3. ASSUME NEW p \in People, NEW u \in Homes, SalesCall(p, u) \/ SchoolRun(p, u)
      PROVE  TypeOK'
  BY <1>1, <1>3 DEF SalesCall, SchoolRun
<1>4. ASSUME NEW p \in People, NEW v \in Places, VisitFromStreet(p, v)
      PROVE  TypeOK'
  <2>1. [st |-> "Out", origin |-> None, meal |-> v, venue |-> None, guest |-> FALSE] \in Person
    BY DEF Person
  <2>2. people' \in [People -> Person \cup {None}]
    BY <1>4, <2>1 DEF VisitFromStreet, TypeOK
  <2> QED BY <1>4, <2>2 DEF VisitFromStreet, TypeOK
<1>5. ASSUME NEW p \in People, Arrive(p)
      PROVE  TypeOK'
  <2> DEFINE q == people[p]
             counted == q.meal \in standing \cap open /\ HasRoom(q.meal)
             guest == counted /\ Kind[q.meal] = "venue"
                      /\ q.origin \in standing /\ Kind[q.origin] = "hotel"
             r == [q EXCEPT !.st = "Inside", !.venue = IF counted THEN q.meal ELSE None,
                            !.guest = guest]
  <2>1. q \in Person
    BY <1>5 DEF TypeOK, Arrive, Abroad, AbsentPeople
  <2>2. r \in Person
    BY <2>1 DEF Person
  <2>3. people' = [people EXCEPT ![p] = r]
    BY <1>5 DEF Arrive
  <2>4. people' \in [People -> Person \cup {None}]
    BY <2>2, <2>3 DEF TypeOK
  <2>5. customers' \in [Places -> Nat] /\ hotel' \in [Places -> Nat]
    BY <1>5 DEF Arrive, TypeOK
  <2> QED BY <1>5, <2>4, <2>5 DEF Arrive, TypeOK
<1>6. ASSUME NEW p \in People, Depart(p)
      PROVE  TypeOK'
  <2>1. p \in Abroad /\ people[p] \in Person
    BY <1>6 DEF TypeOK, Depart, Abroad, AbsentPeople
  <2>2. [people[p] EXCEPT !.origin = None] \in Person /\ [people[p] EXCEPT !.st = "Back"] \in Person
    BY <2>1 DEF Person
  <2>3. CASE \E q \in Person : Settle(p, q)
    BY <1>6, <2>1, <2>3, SettleTyped DEF Depart, TypeOK
  <2>4. CASE people' = [people EXCEPT ![p].st = "Back"] /\ UNCHANGED <<out, customers, hotel>>
    BY <1>6, <2>2, <2>4 DEF Depart, TypeOK
  <2> QED BY <1>6, <2>1, <2>2, <2>3, <2>4 DEF Depart
<1>7. ASSUME NEW p \in People, Finish(p)
      PROVE  TypeOK'
  <2>1. p \in Abroad /\ people[p] \in Person
    BY <1>7 DEF TypeOK, Finish, Abroad, AbsentPeople
  <2> QED BY <1>7, <2>1, SettleTyped DEF Finish, TypeOK
<1>8. ASSUME NEW u \in Unit, TakeOut(u) \/ PutBack(u)
      PROVE  TypeOK'
  BY <1>8 DEF TakeOut, PutBack, TypeOK
<1>9. ASSUME NEW v \in Places, OpenOrClose(v)
      PROVE  TypeOK'
  BY <1>9 DEF OpenOrClose, TypeOK
<1>10. CASE Reload
  BY <1>10 DEF Reload, TypeOK
<1>11. CASE UNCHANGED vars
  BY <1>11 DEF vars, TypeOK
<1> QED
  BY <1>2, <1>3, <1>4, <1>5, <1>6, <1>7, <1>8, <1>9, <1>10, <1>11 DEF Next

-----------------------------------------------------------------------------
(* The counts and the people who hold them.                                *)

\* Somebody sets out: one more holds a count at the home they leave.
LEMMA RaiseKeeps ==
    ASSUME IInv, NEW p \in People, NEW u \in Homes, NEW meal \in Places \cup {None},
           NEW st \in {"Out", "Back"}, Raise(p, u, meal, st)
    PROVE  GoneEmpty' /\ OutFresh' /\ NobodyOwed' /\ CountsExact' /\ NeverOverfull'
<1> DEFINE r == [st |-> st, origin |-> u, meal |-> meal, venue |-> None, guest |-> FALSE]
<1> USE DEF IInv
<1>1. people' = [people EXCEPT ![p] = r] /\ p \in People /\ people[p] = None
  BY DEF Raise, AbsentPeople
<1>2. r # None
  <2>1. r \in Person
    BY DEF Person
  <2> HIDE DEF r
  <2> QED BY <2>1, NoneAssumption
<1>3. people'[p] = r /\ \A q \in People \ {p} : people'[q] = people[q]
  BY <1>1 DEF TypeOK
<1>4. Abroad' = Abroad \cup {p} /\ p \notin Abroad
  BY <1>1, <1>2, <1>3 DEF Abroad, AbsentPeople
<1>5. From(u)' = From(u) \cup {p} /\ p \notin From(u)
  BY <1>3, <1>4 DEF From, Abroad
<1>6. \A h \in Homes \ {u} : From(h)' = From(h)
  BY <1>3, <1>4 DEF From, Abroad
<1>7. \A v \in Places : Inside(v)' = Inside(v) /\ Guests(v)' = Guests(v)
  <2> SUFFICES ASSUME NEW v \in Places PROVE Inside(v)' = Inside(v) /\ Guests(v)' = Guests(v)
    OBVIOUS
  <2>1. Inside(v)' = Inside(v)
    BY <1>3, <1>4, NoneIsNoUnit DEF Inside, Abroad
  <2>2. p \notin Inside(v)
    BY <1>4 DEF Inside
  <2> QED BY <2>1, <2>2, <1>3 DEF Guests, Inside, Abroad
<1>8. out'[u] = out[u] + 1 /\ \A h \in Homes \ {u} : out'[h] = out[h]
  BY DEF Raise, TypeOK
<1>9. Cardinality(From(u)') = Cardinality(From(u)) + 1
  BY <1>5, HoldersFinite, OneJoins
<1>10. UNCHANGED <<standing, open, customers, hotel, putBack>> /\ u \in standing
  BY DEF Raise
<1>11. GoneEmpty' /\ NeverOverfull'
  BY <1>8, <1>10 DEF GoneEmpty, NeverOverfull
<1>12. OutFresh'
  <2>1. r.venue = None /\ r.guest = FALSE
    OBVIOUS
  <2> HIDE DEF r
  <2> QED BY <2>1, <1>3, <1>4 DEF OutFresh, Abroad
<1>13. NobodyOwed'
  BY <1>6, <1>7, <1>8, <1>9, <1>10, HoldersFinite DEF NobodyOwed, TypeOK
<1>14. CountsExact'
  BY <1>6, <1>7, <1>8, <1>9, <1>10 DEF CountsExact
<1> QED BY <1>11, <1>12, <1>13, <1>14

\* A visitor from the street holds no count until they arrive.
LEMMA VisitKeeps ==
    ASSUME IInv, NEW p \in People, NEW place \in Places, VisitFromStreet(p, place)
    PROVE  GoneEmpty' /\ OutFresh' /\ NobodyOwed' /\ CountsExact' /\ NeverOverfull'
<1> DEFINE r == [st |-> "Out", origin |-> None, meal |-> place, venue |-> None, guest |-> FALSE]
<1> USE DEF IInv
<1>1. people' = [people EXCEPT ![p] = r] /\ people[p] = None
  BY DEF VisitFromStreet, AbsentPeople
<1>2. r # None
  <2>1. r \in Person
    BY DEF Person
  <2> HIDE DEF r
  <2> QED BY <2>1, NoneAssumption
<1>3. people'[p] = r /\ \A q \in People \ {p} : people'[q] = people[q]
  BY <1>1 DEF TypeOK
<1>4. Abroad' = Abroad \cup {p} /\ p \notin Abroad
  BY <1>1, <1>2, <1>3 DEF Abroad, AbsentPeople
<1>5. \A h \in Homes : From(h)' = From(h)
  BY <1>3, <1>4, NoneIsNoUnit DEF From, Abroad
<1>6. \A v \in Places : Inside(v)' = Inside(v)
  BY <1>3, <1>4, NoneIsNoUnit DEF Inside, Abroad
<1>7. \A v \in Places : Guests(v)' = Guests(v)
  BY <1>3, <1>4, <1>6 DEF Guests, Inside, Abroad
<1>8. UNCHANGED <<standing, open, out, customers, hotel, putBack>>
  BY DEF VisitFromStreet
<1>9. GoneEmpty' /\ NeverOverfull'
  BY <1>8 DEF GoneEmpty, NeverOverfull
<1>10. OutFresh'
  <2>1. r.venue = None /\ r.guest = FALSE
    OBVIOUS
  <2> HIDE DEF r
  <2> QED BY <2>1, <1>3, <1>4 DEF OutFresh, Abroad
<1>11. NobodyOwed' /\ CountsExact'
  BY <1>5, <1>6, <1>7, <1>8 DEF NobodyOwed, CountsExact
<1> QED BY <1>9, <1>10, <1>11

\* Somebody arrives: the place counts them if it lets them in, once, for nobody
\* on the way out is counted yet.
LEMMA ArriveKeeps ==
    ASSUME IInv, NEW p \in People, Arrive(p)
    PROVE  GoneEmpty' /\ OutFresh' /\ NobodyOwed' /\ CountsExact' /\ NeverOverfull'
<1> DEFINE q == people[p]
           place == q.meal
           counted == place \in standing \cap open /\ HasRoom(place)
           guest == counted /\ Kind[place] = "venue"
                    /\ q.origin \in standing /\ Kind[q.origin] = "hotel"
           r == [q EXCEPT !.st = "Inside", !.venue = IF counted THEN place ELSE None,
                          !.guest = guest]
<1> USE DEF IInv
<1>1. p \in Abroad /\ q.st = "Out" /\ q \in Person
  BY DEF Arrive, TypeOK, Abroad, AbsentPeople
<1>2. q.venue = None /\ ~q.guest
  BY <1>1 DEF OutFresh
<1>3. people' = [people EXCEPT ![p] = r]
  BY DEF Arrive
<1>4. r \in Person
  BY <1>1 DEF Person, TypeOK
<1>5. /\ r.st = "Inside" /\ r.origin = q.origin /\ r.guest = guest
      /\ r.venue = IF counted THEN place ELSE None
  BY <1>1 DEF Person
<1>6. people'[p] = r /\ \A x \in People \ {p} : people'[x] = people[x]
  BY <1>3 DEF TypeOK
<1>7. Abroad' = Abroad
  BY <1>1, <1>4, <1>6, NoneAssumption DEF Abroad, AbsentPeople
<1>8. \A h \in Homes : From(h)' = From(h)
  BY <1>5, <1>6, <1>7 DEF From, Abroad
<1>9. \A v \in Places : p \notin Inside(v) /\ p \notin Guests(v)
  BY <1>2, NoneIsNoUnit DEF Inside, Guests
<1>10. \A v \in Places :
          /\ Inside(v)' = Inside(v) \cup (IF counted /\ v = place THEN {p} ELSE {})
          /\ Guests(v)' = Guests(v) \cup (IF guest /\ v = place THEN {p} ELSE {})
  <2> SUFFICES ASSUME NEW v \in Places
               PROVE  /\ Inside(v)' = Inside(v) \cup (IF counted /\ v = place THEN {p} ELSE {})
                      /\ Guests(v)' = Guests(v) \cup (IF guest /\ v = place THEN {p} ELSE {})
    OBVIOUS
  <2> HIDE DEF r, guest, counted
  <2>1. p \in Inside(v)' <=> counted /\ v = place
    BY <1>1, <1>5, <1>6, <1>7, NoneIsNoUnit DEF Inside
  <2>2. \A x : x # p => (x \in Inside(v)' <=> x \in Inside(v))
    BY <1>6, <1>7 DEF Inside, Abroad
  <2>3. p \in Guests(v)' <=> guest /\ v = place
    BY <2>1, <1>5, <1>6 DEF Guests, guest
  <2>4. \A x : x # p => (x \in Guests(v)' <=> x \in Guests(v))
    BY <2>2, <1>6 DEF Guests, Inside, Abroad
  <2>5. p \notin Inside(v) /\ p \notin Guests(v)
    BY <1>9
  <2> QED BY <2>1, <2>2, <2>3, <2>4, <2>5
<1>11. \A v \in Places :
          /\ customers'[v] = customers[v] + IF counted /\ v = place THEN 1 ELSE 0
          /\ hotel'[v] = hotel[v] + IF guest /\ v = place THEN 1 ELSE 0
  BY DEF Arrive
<1>12. UNCHANGED <<standing, open, out, putBack>>
  BY DEF Arrive
<1> HIDE DEF r, guest
<1>13. \A v \in Places :
          /\ Cardinality(Inside(v)') =
                Cardinality(Inside(v)) + IF counted /\ v = place THEN 1 ELSE 0
          /\ Cardinality(Guests(v)') =
                Cardinality(Guests(v)) + IF guest /\ v = place THEN 1 ELSE 0
  <2> SUFFICES ASSUME NEW v \in Places
               PROVE  /\ Cardinality(Inside(v)') =
                            Cardinality(Inside(v)) + IF counted /\ v = place THEN 1 ELSE 0
                      /\ Cardinality(Guests(v)') =
                            Cardinality(Guests(v)) + IF guest /\ v = place THEN 1 ELSE 0
    OBVIOUS
  <2> HIDE DEF counted
  <2>1. Cardinality(Inside(v)) \in Nat /\ Cardinality(Guests(v)) \in Nat
    BY HoldersFinite
  <2>2. Cardinality(Inside(v) \cup {p}) = Cardinality(Inside(v)) + 1
    BY <1>9, HoldersFinite, OneJoins
  <2>3. Cardinality(Guests(v) \cup {p}) = Cardinality(Guests(v)) + 1
    BY <1>9, HoldersFinite, OneJoins
  <2>4. Inside(v)' = Inside(v) \cup (IF counted /\ v = place THEN {p} ELSE {})
    BY <1>10
  <2>5. Guests(v)' = Guests(v) \cup (IF guest /\ v = place THEN {p} ELSE {})
    BY <1>10
  <2>6. Inside(v) \cup {} = Inside(v) /\ Guests(v) \cup {} = Guests(v)
    OBVIOUS
  <2>7. Cardinality(Inside(v)') = Cardinality(Inside(v)) + IF counted /\ v = place THEN 1 ELSE 0
    <3>1. CASE counted /\ v = place
      BY <3>1, <2>2, <2>4
    <3>2. CASE ~(counted /\ v = place)
      BY <3>2, <2>1, <2>4, <2>6
    <3> QED BY <3>1, <3>2
  <2>8. Cardinality(Guests(v)') = Cardinality(Guests(v)) + IF guest /\ v = place THEN 1 ELSE 0
    <3>1. CASE guest /\ v = place
      BY <3>1, <2>3, <2>5
    <3>2. CASE ~(guest /\ v = place)
      <4>1. Guests(v)' = Guests(v)
        BY <3>2, <2>5, <2>6
      <4> QED BY <4>1, <3>2, <2>1
    <3> QED BY <3>1, <3>2
  <2> QED BY <2>7, <2>8
<1>14. GoneEmpty'
  <2>1. counted => place \in standing
    OBVIOUS
  <2>2. guest => counted
    BY DEF guest
  <2> HIDE DEF counted
  <2> QED BY <2>1, <2>2, <1>11, <1>12 DEF GoneEmpty, TypeOK
<1>15. NeverOverfull'
  <2>1. counted /\ place \in Places => customers[place] < Cap[place]
    BY DEF HasRoom
  <2> HIDE DEF counted
  <2>2. \A v \in Places : Cap[v] \in Nat
    BY OutingsAssumption
  <2> QED BY <2>1, <2>2, <1>11, <1>12 DEF NeverOverfull, TypeOK
<1>16. OutFresh'
  BY <1>5, <1>6, <1>7 DEF OutFresh, Abroad
<1> HIDE DEF counted
<1>17. NobodyOwed'
  BY <1>8, <1>11, <1>12, <1>13, HoldersFinite DEF NobodyOwed, TypeOK
<1>18. CountsExact'
  BY <1>8, <1>11, <1>12, <1>13, HoldersFinite DEF CountsExact, TypeOK
<1> QED BY <1>14, <1>15, <1>16, <1>17, <1>18

\* Somebody settles, with the home they have or, if it is gone, with none: they
\* hold no count any more, and each count they held and that is not empty drops
\* by one.
LEMMA SettleKeeps ==
    ASSUME IInv, NEW p \in Abroad, NEW q \in Person, Settle(p, q),
           q.venue = people[p].venue, q.guest = people[p].guest,
           \/ q.origin = people[p].origin
           \/ q.origin = None /\ people[p].origin \notin standing,
           UNCHANGED <<standing, open, putBack>>
    PROVE  GoneEmpty' /\ OutFresh' /\ NobodyOwed' /\ CountsExact' /\ NeverOverfull'
<1> DEFINE Fewer(S) == IF p \in S THEN 1 ELSE 0
<1> USE DEF IInv
<1>1. p \in People /\ people[p] # None
  BY DEF Abroad, AbsentPeople
<1>2. people'[p] = None /\ \A x \in People \ {p} : people'[x] = people[x]
  BY <1>1 DEF Settle, TypeOK
<1>3. Abroad' = Abroad \ {p}
  BY <1>2 DEF Abroad, AbsentPeople
<1>4. ASSUME NEW x
      PROVE  /\ From(x)' = From(x) \ {p}
             /\ Inside(x)' = Inside(x) \ {p}
             /\ Guests(x)' = Guests(x) \ {p}
  <2>1. From(x)' = From(x) \ {p} /\ Inside(x)' = Inside(x) \ {p}
    BY <1>2, <1>3 DEF From, Inside, Abroad
  <2> QED BY <2>1, <1>2, <1>3 DEF Guests, Inside, Abroad
<1>5. ASSUME NEW S, IsFiniteSet(S)
      PROVE  /\ Cardinality(S) \in Nat /\ Fewer(S) \in {0, 1} /\ Fewer(S) <= Cardinality(S)
             /\ Cardinality(S \ {p}) = Cardinality(S) - Fewer(S)
  <2>1. CASE p \in S
    <3>1. Cardinality(S) \in Nat \ {0} /\ Cardinality(S \ {p}) = Cardinality(S) - 1
      BY <1>5, <2>1, OneLeaves
    <3> QED BY <2>1, <3>1
  <2>2. CASE p \notin S
    <3>1. S \ {p} = S
      BY <2>2
    <3>2. Cardinality(S) \in Nat
      BY <1>5, FS_CardinalityType
    <3> QED BY <2>2, <3>1, <3>2
  <2> QED BY <2>1, <2>2
<1>6. ASSUME NEW u \in Homes
      PROVE  /\ out[u] \in Nat
             /\ u \notin standing => out'[u] = out[u]
             /\ u \in standing =>
                    out'[u] = out[u] - IF p \in From(u) /\ out[u] > 0 THEN 1 ELSE 0
  <2>1. u \in standing => (p \in From(u) <=> q.origin = u)
    BY NoneIsNoUnit DEF From
  <2>2. out'[u] = out[u] - IF q.origin \in standing /\ out[q.origin] > 0 /\ u = q.origin
                           THEN 1 ELSE 0
    BY DEF Settle
  <2>3. out[u] \in Nat
    BY DEF TypeOK
  <2> QED BY <2>1, <2>2, <2>3
<1>7. ASSUME NEW v \in Places
      PROVE  /\ customers[v] \in Nat
             /\ v \notin standing => customers'[v] = customers[v]
             /\ v \in standing => customers'[v] =
                    customers[v] - IF p \in Inside(v) /\ customers[v] > 0 THEN 1 ELSE 0
  <2>1. p \in Inside(v) <=> q.venue = v
    BY DEF Inside
  <2>2. customers'[v] = customers[v] - IF q.venue \in standing /\ customers[q.venue] > 0
                                          /\ v = q.venue
                                       THEN 1 ELSE 0
    BY DEF Settle
  <2>3. customers[v] \in Nat
    BY DEF TypeOK
  <2> QED BY <2>1, <2>2, <2>3
<1>8. ASSUME NEW v \in Places
      PROVE  /\ hotel[v] \in Nat
             /\ v \notin standing => hotel'[v] = hotel[v]
             /\ v \in standing => hotel'[v] =
                    hotel[v] - IF p \in Guests(v) /\ customers[v] > 0 /\ hotel[v] > 0
                               THEN 1 ELSE 0
  <2>1. p \in Guests(v) <=> q.venue = v /\ q.guest
    BY DEF Inside, Guests
  <2>2. hotel'[v] = hotel[v] - IF q.venue \in standing /\ customers[q.venue] > 0
                                  /\ q.guest /\ hotel[q.venue] > 0 /\ v = q.venue
                               THEN 1 ELSE 0
    BY DEF Settle
  <2>3. hotel[v] \in Nat
    BY DEF TypeOK
  <2> QED BY <2>1, <2>2, <2>3
<1> HIDE DEF Fewer
<1>9. GoneEmpty'
  BY <1>6, <1>7, <1>8 DEF GoneEmpty
<1>10. NeverOverfull'
  <2>1. \A v \in Places : Cap[v] \in Nat
    BY OutingsAssumption
  <2> QED BY <2>1, <1>7 DEF NeverOverfull
<1>11. OutFresh'
  BY <1>2, <1>3 DEF OutFresh, Abroad
<1>12. ASSUME NEW u \in Homes \cap standing
       PROVE  /\ out'[u] <= Cardinality(From(u)')
              /\ u \notin putBack => out'[u] = Cardinality(From(u)')
  <2>1. Cardinality(From(u)') = Cardinality(From(u)) - Fewer(From(u))
    BY <1>4, <1>5, HoldersFinite
  <2>2. /\ Cardinality(From(u)) \in Nat /\ Fewer(From(u)) \in {0, 1}
        /\ Fewer(From(u)) <= Cardinality(From(u))
    BY <1>5, HoldersFinite
  <2>3. out[u] <= Cardinality(From(u)) /\ (u \notin putBack => out[u] = Cardinality(From(u)))
    BY DEF NobodyOwed, CountsExact
  <2> QED BY <2>1, <2>2, <2>3, <1>6 DEF Fewer
<1>13. ASSUME NEW v \in Places \cap standing
       PROVE  /\ customers'[v] <= Cardinality(Inside(v)')
              /\ v \notin putBack => /\ customers'[v] = Cardinality(Inside(v)')
                                     /\ hotel'[v] = Cardinality(Guests(v)')
  <2>1. /\ Cardinality(Inside(v)') = Cardinality(Inside(v)) - Fewer(Inside(v))
        /\ Cardinality(Guests(v)') = Cardinality(Guests(v)) - Fewer(Guests(v))
    BY <1>4, <1>5, HoldersFinite
  <2>2. /\ Cardinality(Inside(v)) \in Nat /\ Fewer(Inside(v)) \in {0, 1}
        /\ Fewer(Inside(v)) <= Cardinality(Inside(v))
    BY <1>5, HoldersFinite
  <2>3. /\ Cardinality(Guests(v)) \in Nat /\ Fewer(Guests(v)) \in {0, 1}
        /\ Fewer(Guests(v)) <= Cardinality(Guests(v))
    BY <1>5, HoldersFinite
  <2>4. /\ customers[v] <= Cardinality(Inside(v))
        /\ v \notin putBack => /\ customers[v] = Cardinality(Inside(v))
                               /\ hotel[v] = Cardinality(Guests(v))
    BY DEF NobodyOwed, CountsExact
  <2>5. p \in Guests(v) => p \in Inside(v)
    BY DEF Guests
  <2>6. customers'[v] <= Cardinality(Inside(v)')
        /\ (v \notin putBack => customers'[v] = Cardinality(Inside(v)'))
    BY <2>1, <2>2, <2>4, <1>7 DEF Fewer
  <2>7. v \notin putBack => hotel'[v] = Cardinality(Guests(v)')
    BY <2>1, <2>2, <2>3, <2>4, <2>5, <1>8 DEF Fewer
  <2> QED BY <2>6, <2>7
<1>14. NobodyOwed' /\ CountsExact'
  BY <1>12, <1>13 DEF NobodyOwed, CountsExact
<1> QED BY <1>9, <1>10, <1>11, <1>14

\* Nothing of what the counts are about changes when somebody sets off home,
\* still counted by the venue they leave.
LEMMA SetOffKeeps ==
    ASSUME IInv, NEW p \in Abroad, people' = [people EXCEPT ![p].st = "Back"],
           UNCHANGED <<standing, open, out, customers, hotel, putBack>>
    PROVE  GoneEmpty' /\ OutFresh' /\ NobodyOwed' /\ CountsExact' /\ NeverOverfull'
<1> DEFINE r == [people[p] EXCEPT !.st = "Back"]
<1> USE DEF IInv
<1>1. p \in People /\ people[p] \in Person
  BY DEF TypeOK, Abroad, AbsentPeople
<1>2. /\ r \in Person /\ r.st = "Back" /\ r.origin = people[p].origin
      /\ r.venue = people[p].venue /\ r.guest = people[p].guest
  BY <1>1 DEF Person
<1>3. people'[p] = r /\ \A x \in People \ {p} : people'[x] = people[x]
  BY <1>1 DEF TypeOK
<1> HIDE DEF r
<1>4. Abroad' = Abroad
  BY <1>2, <1>3, NoneAssumption DEF Abroad, AbsentPeople
<1>5. \A x : From(x)' = From(x) /\ Inside(x)' = Inside(x)
  BY <1>2, <1>3, <1>4 DEF From, Inside, Abroad
<1>6. \A x : Guests(x)' = Guests(x)
  BY <1>2, <1>3, <1>5 DEF Guests, Inside, Abroad
<1>7. GoneEmpty' /\ NeverOverfull'
  BY DEF GoneEmpty, NeverOverfull
<1>8. OutFresh'
  BY <1>2, <1>3, <1>4 DEF OutFresh, Abroad
<1>9. NobodyOwed' /\ CountsExact'
  BY <1>5, <1>6 DEF NobodyOwed, CountsExact
<1> QED BY <1>7, <1>8, <1>9

\* Units come and go without the people noticing.
LEMMA UnitsKeep ==
    ASSUME IInv, NEW u \in Unit, TakeOut(u) \/ PutBack(u)
    PROVE  GoneEmpty' /\ OutFresh' /\ NobodyOwed' /\ CountsExact' /\ NeverOverfull'
<1> USE DEF IInv
<1>1. UNCHANGED people
  BY DEF TakeOut, PutBack
<1>2. Abroad' = Abroad /\ \A x : From(x)' = From(x)
  BY <1>1 DEF Abroad, AbsentPeople, From
<1>3. \A x : Inside(x)' = Inside(x)
  BY <1>1, <1>2 DEF Inside
<1>4. \A x : Guests(x)' = Guests(x)
  BY <1>1, <1>3 DEF Guests
<1>5. OutFresh'
  BY <1>1, <1>2 DEF OutFresh
<1>6. CASE TakeOut(u)
  <2>1. standing' = standing \ {u} /\ UNCHANGED putBack
    BY <1>6 DEF TakeOut
  <2>2. \A h \in Homes : out'[h] = IF h = u THEN 0 ELSE out[h]
    BY <1>6 DEF TakeOut
  <2>3. \A v \in Places : /\ customers'[v] = IF v = u THEN 0 ELSE customers[v]
                          /\ hotel'[v] = IF v = u THEN 0 ELSE hotel[v]
    BY <1>6 DEF TakeOut
  <2>4. GoneEmpty'
    BY <2>1, <2>2, <2>3 DEF GoneEmpty
  <2>5. NeverOverfull'
    BY <2>1, <2>3 DEF NeverOverfull
  <2>6. NobodyOwed'
    BY <2>1, <2>2, <2>3, <1>2, <1>3 DEF NobodyOwed
  <2>7. CountsExact'
    BY <2>1, <2>2, <2>3, <1>2, <1>3, <1>4 DEF CountsExact
  <2> QED BY <1>5, <2>4, <2>5, <2>6, <2>7
<1>7. CASE PutBack(u)
  <2>1. /\ standing' = standing \cup {u} /\ putBack' = putBack \cup {u} /\ u \notin standing
        /\ UNCHANGED <<out, customers, hotel>>
    BY <1>7 DEF PutBack
  <2>2. (u \in Homes => out[u] = 0) /\ (u \in Places => customers[u] = 0)
    BY <2>1 DEF GoneEmpty
  <2>3. GoneEmpty'
    BY <2>1 DEF GoneEmpty
  <2>4. NeverOverfull'
    <3>1. \A v \in Places : Cap[v] \in Nat
      BY OutingsAssumption
    <3> QED BY <3>1, <2>1, <2>2 DEF NeverOverfull
  <2>5. NobodyOwed'
    BY <2>1, <2>2, <1>2, <1>3, HoldersFinite DEF NobodyOwed
  <2>6. CountsExact'
    BY <2>1, <1>2, <1>3, <1>4 DEF CountsExact
  <2> QED BY <1>5, <2>3, <2>4, <2>5, <2>6
<1> QED BY <1>6, <1>7

\* A load leaves nobody out and no count above zero.
LEMMA ReloadKeeps ==
    ASSUME IInv, Reload
    PROVE  GoneEmpty' /\ OutFresh' /\ NobodyOwed' /\ CountsExact' /\ NeverOverfull'
<1>1. Abroad' = {}
  BY DEF Reload, Abroad, AbsentPeople
<1>2. \A x : From(x)' = {} /\ Inside(x)' = {} /\ Guests(x)' = {}
  BY <1>1 DEF From, Inside, Guests
<1>3. \A u \in Homes : out'[u] = 0
  BY DEF Reload
<1>4. \A v \in Places : customers'[v] = 0 /\ hotel'[v] = 0
  BY DEF Reload
<1>5. Cardinality({}) = 0
  BY FS_EmptySet
<1>6. GoneEmpty' /\ OutFresh'
  BY <1>1, <1>3, <1>4 DEF GoneEmpty, OutFresh
<1>7. NeverOverfull'
  BY <1>4, OutingsAssumption DEF NeverOverfull
<1>8. NobodyOwed' /\ CountsExact'
  BY <1>2, <1>3, <1>4, <1>5 DEF NobodyOwed, CountsExact
<1> QED BY <1>6, <1>7, <1>8

-----------------------------------------------------------------------------
(* The theorems.                                                           *)

\* The crowd starts with nobody out and no counts.
LEMMA InitInv == Init => IInv
<1> SUFFICES ASSUME Init PROVE IInv
  OBVIOUS
<1>1. Abroad = {}
  BY DEF Init, Abroad, AbsentPeople
<1>2. \A x : From(x) = {} /\ Inside(x) = {} /\ Guests(x) = {}
  BY <1>1 DEF From, Inside, Guests
<1>3. Cardinality({}) = 0
  BY FS_EmptySet
<1>4. TypeOK
  BY DEF Init, TypeOK, Homes, Places
<1>5. GoneEmpty /\ OutFresh
  BY <1>1 DEF Init, GoneEmpty, OutFresh, Homes, Places
<1>6. NeverOverfull
  BY OutingsAssumption DEF Init, NeverOverfull
<1>7. NobodyOwed /\ CountsExact
  BY <1>2, <1>3 DEF Init, NobodyOwed, CountsExact
<1> QED BY <1>4, <1>5, <1>6, <1>7 DEF IInv

\* Every step of a person, a unit or a load keeps the inductive invariant.
LEMMA Inductive == IInv /\ [Next]_vars => IInv'
<1> SUFFICES ASSUME IInv, [Next]_vars PROVE IInv'
  OBVIOUS
<1>0. TypeOK /\ TypeOK'
  BY TypeInductive DEF IInv
<1> DEFINE Kept == GoneEmpty' /\ OutFresh' /\ NobodyOwed' /\ CountsExact' /\ NeverOverfull'
<1>1. ASSUME NEW p \in People, NEW u \in Homes, NEW v \in Places, SetOut(p, u, v)
      PROVE  Kept
  BY <1>1, RaiseKeeps DEF SetOut
<1>2. ASSUME NEW p \in People, NEW u \in Homes, SalesCall(p, u) \/ SchoolRun(p, u)
      PROVE  Kept
  BY <1>2, RaiseKeeps DEF SalesCall, SchoolRun
<1>3. ASSUME NEW p \in People, NEW v \in Places, VisitFromStreet(p, v)
      PROVE  Kept
  BY <1>3, VisitKeeps
<1>4. ASSUME NEW p \in People, Arrive(p)
      PROVE  Kept
  BY <1>4, ArriveKeeps
<1>5. ASSUME NEW p \in People, Depart(p)
      PROVE  Kept
  <2> DEFINE q == people[p]
             forgot == [q EXCEPT !.origin = None]
  <2>1. p \in Abroad /\ q \in Person
    BY <1>0, <1>5 DEF TypeOK, Depart, Abroad, AbsentPeople
  <2>2. /\ forgot \in Person /\ forgot.origin = None
        /\ forgot.venue = q.venue /\ forgot.guest = q.guest
    BY <2>1 DEF Person
  <2>3. UNCHANGED <<standing, open, putBack>>
    BY <1>5 DEF Depart
  <2>4. CASE q.origin \notin standing /\ Settle(p, forgot)
    <3> HIDE DEF forgot
    <3> QED BY <2>1, <2>2, <2>3, <2>4, SettleKeeps
  <2>5. CASE Settle(p, q)
    BY <2>1, <2>3, <2>5, SettleKeeps
  <2>6. CASE people' = [people EXCEPT ![p].st = "Back"] /\ UNCHANGED <<out, customers, hotel>>
    BY <2>1, <2>3, <2>6, SetOffKeeps
  <2> QED BY <1>5, <2>4, <2>5, <2>6 DEF Depart
<1>6. ASSUME NEW p \in People, Finish(p)
      PROVE  Kept
  <2>1. p \in Abroad /\ people[p] \in Person
    BY <1>0, <1>6 DEF TypeOK, Finish, Abroad, AbsentPeople
  <2> QED BY <1>6, <2>1, SettleKeeps DEF Finish
<1>7. ASSUME NEW u \in Unit, TakeOut(u) \/ PutBack(u)
      PROVE  Kept
  BY <1>7, UnitsKeep
<1>8. ASSUME UNCHANGED <<people, standing, out, customers, hotel, putBack>>
      PROVE  Kept
  <2>1. Abroad' = Abroad /\ \A x : From(x)' = From(x)
    BY <1>8 DEF Abroad, AbsentPeople, From
  <2>2. \A x : Inside(x)' = Inside(x)
    BY <1>8, <2>1 DEF Inside
  <2>3. \A x : Guests(x)' = Guests(x)
    BY <1>8, <2>2 DEF Guests
  <2>4. GoneEmpty' /\ OutFresh' /\ NeverOverfull'
    BY <1>8, <2>1 DEF IInv, GoneEmpty, OutFresh, NeverOverfull
  <2> QED BY <1>8, <2>1, <2>2, <2>3, <2>4 DEF IInv, NobodyOwed, CountsExact
<1>9. ASSUME NEW v \in Places, OpenOrClose(v)
      PROVE  Kept
  BY <1>8, <1>9 DEF OpenOrClose
<1>10. ASSUME Reload PROVE Kept
  BY <1>10, ReloadKeeps
<1>11. ASSUME UNCHANGED vars PROVE Kept
  BY <1>8, <1>11 DEF vars
<1>12. Kept
  <2> HIDE DEF Kept
  <2> QED BY <1>1, <1>2, <1>3, <1>4, <1>5, <1>6, <1>7, <1>9, <1>10, <1>11 DEF Next
<1> QED BY <1>0, <1>12 DEF IInv

\* The inductive invariant holds in every reachable state of the crowd's
\* outings, whatever the people, the units and their capacities.
THEOREM CountsInvariant == Spec => []IInv
<1> QED BY InitInv, Inductive, PTL DEF Spec

\* Types: above all, no count of motion.rs's finish ever goes below zero.
THEOREM OutingsTypeCorrect == Spec => []TypeOK
<1>1. IInv => TypeOK
  BY DEF IInv
<1> QED BY <1>1, CountsInvariant, PTL

\* No unit ever counts anybody who will not come back to settle the count,
\* however units are sold and put back while people are out.
THEOREM NobodyEverOwed == Spec => []NobodyOwed
<1>1. IInv => NobodyOwed
  BY DEF IInv
<1> QED BY <1>1, CountsInvariant, PTL

\* Until a step of the history puts a unit back, its counts are exactly the
\* people who hold them.
THEOREM CountsStayExact == Spec => []CountsExact
<1>1. IInv => CountsExact
  BY DEF IInv
<1> QED BY <1>1, CountsInvariant, PTL

\* No place ever takes more people than it holds.
THEOREM PlacesNeverOverfull == Spec => []NeverOverfull
<1>1. IInv => NeverOverfull
  BY DEF IInv
<1> QED BY <1>1, CountsInvariant, PTL
==============================================================================
