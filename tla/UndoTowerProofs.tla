--------------------------- MODULE UndoTowerProofs ---------------------------
(***************************************************************************)
(* Proofs about UndoTower, for every value of its constants: its types,    *)
(* that the tower stands and the stacks fit, that the opposite of a step   *)
(* gives back what the step replaced, that no build cap is passed and that *)
(* a sold condo keeps its price; and about TowerHistory, which keeps the   *)
(* snapshots beside it: with no time between and every edit in a gesture,  *)
(* the steps give back whole towers and balances, for every lot with no    *)
(* ground to dig.  UndoMoneyProofs goes on with what was used.             *)
(***************************************************************************)
EXTENDS TowerHistory, FiniteSetTheorems, TLAPS

-----------------------------------------------------------------------------
(* Types of what the actions are built from.                               *)

(* A tower never holds more items of a kind than there are ids.            *)
LEMMA CountType ==
    ASSUME NEW t \in [Id -> Item \cup {None}], NEW k \in Kinds
    PROVE  Count(t, k) \in 0..MaxId
<1> DEFINE C == {i \in Standing(t) : KindOf(t[i]) = k}
<1>1. IsFiniteSet(Id) /\ Cardinality(Id) = MaxId
  BY FS_Interval, NumberAssumption DEF Id
<1>2. C \subseteq Id
  BY DEF Standing
<1>3. IsFiniteSet(C) /\ Cardinality(C) <= Cardinality(Id)
  BY <1>1, <1>2, FS_Subset
<1>4. Cardinality(C) \in Nat
  BY <1>3, FS_CardinalityType
<1> QED
  BY <1>1, <1>3, <1>4, NumberAssumption DEF Count

(* A new unit or shaft is an item of its place.                            *)
LEMMA PlacedType ==
    ASSUME NEW s \in Site
    PROVE  Placed(s) \in Item /\ Placed(s).site = s
<1>1. DefaultRent \in Rents /\ CatalogName \in Names
  BY FactAssumption DEF DefaultRent, CatalogName
<1>2. 0 \in 0..MaxRides /\ 0 \in 0..MaxCars /\ 1 \in 0..MaxCars
  BY NumberAssumption
<1> QED
  BY <1>1, <1>2 DEF Placed, Item, Uses

(* Closing a gesture makes images of what it touched.                      *)
LEMMA ImageOfType ==
    ASSUME NEW seen \in Touch \cup {None}, NEW now \in Item \cup {None}
    PROVE  ImageOf(seen, now) \in Image \cup {None}
<1>1. CASE seen = None
  BY <1>1 DEF ImageOf
<1>2. CASE seen # None
  <2>1. seen \in Touch /\ seen.item \in Item
    BY <1>2 DEF Touch
  <2>2. UnitImage(seen, now) \in Image \cup {None}
    BY <2>1 DEF UnitImage, Image
  <2>3. now # None => [now EXCEPT !.rides = seen.item.rides] \in Item
    BY <2>1 DEF Item
  <2>4. now # None => [now EXCEPT !.rides = 0] \in Item
    BY NumberAssumption DEF Item
  <2>5. ShaftImage(seen, now) \in Image \cup {None}
    BY <2>1, <2>3, <2>4 DEF ShaftImage, Image
  <2> QED
    BY <1>2, <2>2, <2>5 DEF ImageOf
<1> QED
  BY <1>1, <1>2

(* A closed gesture is a step.                                             *)
LEMMA StepOfType ==
    ASSUME TypeOK
    PROVE  StepOf(journal) \in Step
<1>1. \A i \in Id : ImageOf(journal.touched[i], tower[i]) \in Image \cup {None}
  <2> TAKE i \in Id
  <2>1. journal.touched[i] \in Touch \cup {None} /\ tower[i] \in Item \cup {None}
    BY DEF TypeOK, Journal
  <2> QED
    BY <2>1, ImageOfType
<1>2. \A k \in Kinds : Count(tower, k) \in 0..MaxId
  BY CountType DEF TypeOK
<1>3. /\ journal.cash \in Int /\ journal.searched \in BOOLEAN
      /\ journal.hour \in 0..MaxHour
  BY DEF TypeOK, Journal
<1>4. -journal.cash \in Int
  BY <1>3
<1> QED
  BY <1>1, <1>2, <1>3, <1>4 DEF StepOf, Step

(* Pushing keeps a stack one of steps.                                     *)
LEMMA PushedType ==
    ASSUME NEW stack \in Seq(Step), NEW step \in Step
    PROVE  /\ Pushed(stack, step) \in Seq(Step)
           /\ Len(Pushed(stack, step)) = IF Len(stack) < UndoCap THEN Len(stack) + 1
                                         ELSE Len(stack)
<1>1. CASE Len(stack) < UndoCap
  BY <1>1 DEF Pushed
<1>2. CASE ~(Len(stack) < UndoCap)
  <2>1. stack # <<>> /\ Len(stack) \in Nat \ {0}
    BY <1>2, NumberAssumption
  <2>2. Tail(stack) \in Seq(Step) /\ Len(Tail(stack)) = Len(stack) - 1
    BY <2>1
  <2> QED
    BY <1>2, <2>1, <2>2 DEF Pushed
<1> QED
  BY <1>1, <1>2

(* Closing a gesture keeps the stacks ones of steps.                       *)
LEMMA CommittedType ==
    ASSUME TypeOK
    PROVE  UndoCommitted \in Seq(Step) /\ RedoCommitted \in Seq(Step)
<1>1. undo \in Seq(Step) /\ redo \in Seq(Step)
  BY DEF TypeOK
<1> QED
  BY <1>1, StepOfType, PushedType DEF UndoCommitted, RedoCommitted

(* The newest step of a stack, and those under it.                         *)
LEMMA NewestType ==
    ASSUME NEW S, NEW stack \in Seq(S), stack # <<>>
    PROVE  /\ Newest(stack) \in S
           /\ Older(stack) \in Seq(S) /\ Len(Older(stack)) = Len(stack) - 1
           /\ \A m \in DOMAIN Older(stack) : m \in DOMAIN stack /\ Older(stack)[m] = stack[m]
<1> DEFINE n == Len(stack)
<1>1. n \in Nat \ {0} /\ DOMAIN stack = 1..n
  OBVIOUS
<1>2. stack[n] \in S
  BY <1>1
<1>3. /\ Older(stack) \in Seq(S) /\ Len(Older(stack)) = n - 1
      /\ \A m \in 1..n - 1 : Older(stack)[m] = stack[m]
  BY <1>1 DEF Older
<1>4. DOMAIN Older(stack) = 1..n - 1
  BY <1>1, <1>3
<1> QED
  BY <1>1, <1>2, <1>3, <1>4 DEF Newest

(* What a step that applies makes of the tower.                            *)
LEMMA AppliesExpected ==
    ASSUME NEW step, Applies(step), NEW i \in Id, Named(step, i)
    PROVE  Expected(step, i) /\ ~Barred(step, i)
  BY DEF Applies, Lasting, Barred

LEMMA AfterStepType ==
    ASSUME TypeOK, NEW step \in Step, Applies(step)
    PROVE  AfterStep(step) \in [Id -> Item \cup {None}]
<1> SUFFICES ASSUME NEW i \in Id
             PROVE  AfterStep(step)[i] \in Item \cup {None}
  BY DEF AfterStep
<1>1. tower[i] \in Item \cup {None} /\ step.images[i] \in Image \cup {None}
  BY DEF TypeOK, Step
<1>2. CASE ~Named(step, i)
  BY <1>1, <1>2 DEF AfterStep
<1>3. CASE Named(step, i)
  <2>1. /\ step.images[i] \in Image
        /\ Want(step, i) \in Item /\ Left(step, i) \in Item
    BY <1>1, <1>3 DEF Named, Want, Left, Image
  <2>2. CASE Does(step, i, "takeOut")
    BY <1>3, <2>2 DEF AfterStep, Does
  <2>3. CASE Does(step, i, "putBack")
    BY <1>3, <2>1, <2>3 DEF AfterStep, Does
  <2>4. CASE ~Does(step, i, "takeOut") /\ ~Does(step, i, "putBack")
    <3>1. tower[i] \in Item
      BY <1>1, <1>3, <2>4, AppliesExpected DEF Expected
    <3>2. Restored(tower[i], Want(step, i), Left(step, i)) \in Item
      BY <2>1, <3>1 DEF Restored, Item
    <3> QED
      BY <1>3, <2>4, <3>2 DEF AfterStep
  <2> QED
    BY <2>2, <2>3, <2>4
<1> QED
  BY <1>2, <1>3

(* The opposite of a step that applies is a step.                          *)
LEMMA OppositeType ==
    ASSUME TypeOK, NEW step \in Step, Applies(step)
    PROVE  Opposite(step) \in Step
<1>1. \A i \in Id : BackImage(step, i) \in Image \cup {None}
  <2> SUFFICES ASSUME NEW i \in Id, Named(step, i)
               PROVE  BackImage(step, i) \in Image
    BY DEF BackImage
  <2> DEFINE image == step.images[i]
  <2>1. image \in Image /\ tower[i] \in Item \cup {None}
    BY DEF TypeOK, Step, Named
  <2>2. image.want \in Item /\ image.left \in Item /\ image.built \in BOOLEAN
        /\ image.do \in {"takeOut", "putBack", "restore"}
    BY <2>1 DEF Image
  <2>3. (tower[i] = None) = (image.do = "putBack")
    BY AppliesExpected DEF Expected, Does, Named
  <2>4. AfterStep(step)[i] \in Item \cup {None}
    BY AfterStepType
  <2>5. image.do = "restore" => AfterStep(step)[i] \in Item
    <3> HAVE image.do = "restore"
    <3>1. tower[i] \in Item
      BY <2>1, <2>3
    <3>2. Restored(tower[i], Want(step, i), Left(step, i)) \in Item
      BY <2>2, <3>1 DEF Restored, Item, Want, Left
    <3> QED
      BY <3>2 DEF AfterStep, Does
  <2> HIDE DEF image
  <2>6. CASE image.do = "takeOut"
    BY <2>1, <2>2, <2>3, <2>6 DEF BackImage, Image, image
  <2>7. CASE image.do = "putBack"
    BY <2>1, <2>2, <2>7 DEF BackImage, Image, image
  <2>8. CASE image.do = "restore"
    BY <2>1, <2>2, <2>3, <2>5, <2>8 DEF BackImage, Image, image
  <2> QED
    BY <2>2, <2>6, <2>7, <2>8
<1>2. \A k \in Kinds : Count(AfterStep(step), k) \in 0..MaxId
  BY AfterStepType, CountType
<1>3. -step.money \in Int /\ hours \in 0..MaxHour
  BY DEF Step, TypeOK
<1> QED
  BY <1>1, <1>2, <1>3 DEF Opposite, Step

(* The journal's notes keep it a journal.                                  *)
LEMMA NoteBoughtType ==
    ASSUME NEW j \in Journal, NEW found, NEW x
    PROVE  NoteBought(j, found, x) \in Journal
  BY DEF NoteBought, Journal

LEMMA NoteEditType ==
    ASSUME NEW j \in Journal, NEW i \in Id, NEW x \in Item
    PROVE  NoteEdit(j, i, x) \in Journal
<1>1. [j EXCEPT !.touched[i] = [how |-> "was", item |-> x]] \in Journal
  BY DEF Journal, Touch
<1> QED
  BY <1>1, NoteBoughtType DEF NoteEdit

LEMMA LeavingType ==
    ASSUME NEW x \in Item, NEW found \in Item
    PROVE  Leaving(x, found) \in Item
  BY DEF Leaving, Item

LEMMA NoteOutType ==
    ASSUME NEW j \in Journal, NEW i \in Id, NEW x \in Item
    PROVE  NoteOut(j, i, x) \in Journal
<1> DEFINE seen == j.touched[i]
<1>1. CASE ~j.open \/ seen = None
  <2>1. [j EXCEPT !.touched[i] = [how |-> "was", item |-> x]] \in Journal
    BY DEF Journal, Touch
  <2> QED
    BY <1>1, <2>1 DEF NoteOut
<1>2. CASE j.open /\ seen # None
  <2>1. seen \in Touch /\ seen.item \in Item
        /\ seen.how \in {"was", "added", "addedAndUsed"}
    BY <1>2 DEF Journal, Touch
  <2>2. CASE seen.how = "was"
    <3> DEFINE b == IF IsShaft(x) THEN NoteBought(j, seen.item, x) ELSE j
    <3>1. b \in Journal /\ b.touched = j.touched
      BY NoteBoughtType DEF NoteBought, Journal
    <3>2. Leaving(x, seen.item) \in Item
      BY <2>1, LeavingType
    <3>3. [seen EXCEPT !.item = Leaving(x, seen.item)] \in Touch
      BY <2>1, <3>2 DEF Touch
    <3>4. NoteOut(j, i, x) = [b EXCEPT !.touched[i].item = Leaving(x, seen.item)]
      BY <1>2, <2>2 DEF NoteOut
    <3> HIDE DEF b
    <3>5. [b EXCEPT !.touched[i].item = Leaving(x, seen.item)]
          = [b EXCEPT !.touched = [j.touched EXCEPT ![i] =
                                     [seen EXCEPT !.item = Leaving(x, seen.item)]]]
      BY <3>1 DEF Journal
    <3>6. [j.touched EXCEPT ![i] = [seen EXCEPT !.item = Leaving(x, seen.item)]]
          \in [Id -> Touch \cup {None}]
      BY <3>3 DEF Journal
    <3> QED
      BY <3>1, <3>4, <3>5, <3>6 DEF Journal
  <2>3. CASE seen.how = "added" /\ IsShaft(x)
    <3>1. NoteOut(j, i, x) =
            [j EXCEPT !.tookOwn = TRUE, !.usedThenTaken = @ \/ x.rides > 0]
      BY <1>2, <2>3 DEF NoteOut
    <3>2. x.rides \in 0..MaxRides
      BY DEF Item
    <3> QED
      BY <3>1, <3>2 DEF Journal
  <2>4. CASE seen.how = "added" /\ ~IsShaft(x)
    <3> DEFINE u == IF UseOf(x) = UseOf(seen.item) THEN seen
                    ELSE [how |-> "addedAndUsed", item |-> x]
    <3>1. u \in Touch \cup {None}
      BY <2>1 DEF Touch
    <3>2. NoteOut(j, i, x) =
            [j EXCEPT !.touched[i] = u, !.tookOwn = @ \/ IsFloor(x)]
      BY <1>2, <2>4 DEF NoteOut
    <3> HIDE DEF u
    <3>3. [j.touched EXCEPT ![i] = u] \in [Id -> Touch \cup {None}]
      BY <3>1 DEF Journal
    <3>4. IsFloor(x) \in BOOLEAN
      BY DEF IsFloor
    <3> QED
      BY <3>2, <3>3, <3>4 DEF Journal
  <2>5. CASE seen.how = "addedAndUsed"
    BY <1>2, <2>5 DEF NoteOut
  <2> QED
    BY <2>1, <2>2, <2>3, <2>4, <2>5
<1> QED
  BY <1>1, <1>2

LEMMA NoteInType ==
    ASSUME NEW j \in Journal, NEW added \in [Id -> Item \cup {None}]
    PROVE  NoteIn(j, added) \in Journal
<1>1. \A i \in Id : (IF added[i] = None THEN j.touched[i]
                     ELSE [how |-> "added", item |-> added[i]]) \in Touch \cup {None}
  BY DEF Journal, Touch
<1> QED
  BY <1>1 DEF NoteIn, Journal

LEMMA PaidType ==
    ASSUME NEW j \in Journal, NEW amount \in Int
    PROVE  Paid(j, amount) \in Journal
  BY DEF Paid, Journal

-----------------------------------------------------------------------------
(* Every step keeps the types.                                             *)

LEMMA NumbersType ==
    /\ \A k \in Kinds : Price[k] \in Nat /\ Refund(k) \in Nat
    /\ CarPrice \in Nat /\ CarRefund \in Nat
  BY NumberAssumption DEF Refund, CarRefund

LEMMA InitType == Init => TypeOK
<1> SUFFICES ASSUME Init PROVE TypeOK
  OBVIOUS
<1>1. \A i \in Id : i <= Len(Begun) => Begun[i] \in Site
  BY GeometryAssumption DEF Id
<1>2. tower \in [Id -> Item \cup {None}]
  BY <1>1, PlacedType DEF Init, StartTower
<1>3. ledger \in [Id -> Entry \cup {None}]
  BY <1>1 DEF Init, StartLedger, Entry
<1>4. Len(Begun) \in Nat /\ Len(Begun) <= MaxId /\ MaxId \in Nat
  BY GeometryAssumption, NumberAssumption
<1>5. journal \in Journal
  BY NumberAssumption DEF Init, NoJournal, Journal
<1> QED
  BY <1>2, <1>3, <1>4, <1>5, NumberAssumption DEF Init, TypeOK

(* What the commands that change one item leave.                           *)
LEMMA EditedType ==
    ASSUME TypeOK, NEW i \in Id, NEW x \in Item \cup {None},
           NEW j \in Journal, NEW amount \in Int, Edited(i, x, j, amount)
    PROVE  TypeOK'
<1>1. tower' \in [Id -> Item \cup {None}]
  BY DEF Edited, TypeOK
<1>2. journal' \in Journal
  BY PaidType DEF Edited
<1>3. money' \in Int
  BY DEF Edited, TypeOK
<1> QED
  BY <1>1, <1>2, <1>3 DEF Edited, TypeOK

(* The ids a build hands out, and what it adds.                            *)
LEMMA BuildIds ==
    ASSUME TypeOK, NEW s \in Site,
           nextId + Cardinality(Missing(s)) <= MaxId, NEW at \in Layouts(s)
    PROVE  /\ Cardinality(Missing(s)) \in Nat
           /\ DOMAIN at = Missing(s) \cup {s}
           /\ \A p \in DOMAIN at :
                 /\ p \in Site /\ at[p] \in Id /\ at[p] >= nextId
                 /\ at[p] <= nextId + Cardinality(Missing(s))
                 /\ PlaceOf(at, at[p]) = p
                 /\ Added(at)[at[p]] = Placed(p) /\ Placed(p) # None
           /\ \A i \in Id : \/ Added(at)[i] = None
                            \/ \E p \in DOMAIN at : at[p] = i
<1> DEFINE last == nextId + Cardinality(Missing(s))
<1>1. Missing(s) \subseteq Site
  BY GeometryAssumption DEF Missing
<1>2. Cardinality(Missing(s)) \in Nat
  BY <1>1, GeometryAssumption, FS_Subset, FS_CardinalityType
<1>3. nextId \in Nat \ {0}
  BY NumberAssumption DEF TypeOK
<1>4. last \in Nat /\ last <= MaxId
  BY <1>2, <1>3
<1>5. /\ at \in [Missing(s) \cup {s} -> nextId..last]
      /\ \A p, q \in DOMAIN at : at[p] = at[q] => p = q
  BY DEF Layouts
<1> HIDE DEF last
<1>6. \A i \in nextId..last : i \in Id /\ i >= nextId /\ i <= last
  BY <1>3, <1>4, NumberAssumption DEF Id
<1>7. ASSUME NEW p \in DOMAIN at
      PROVE  /\ p \in Site /\ at[p] \in Id /\ at[p] >= nextId /\ at[p] <= last
             /\ PlaceOf(at, at[p]) = p
             /\ Added(at)[at[p]] = Placed(p) /\ Placed(p) # None
  <2>1. p \in Site /\ at[p] \in nextId..last
    BY <1>1, <1>5
  <2>2. PlaceOf(at, at[p]) = p
    BY <1>5 DEF PlaceOf
  <2>3. Placed(p) # None
    BY <2>1, PlacedType, FactAssumption
  <2> QED
    BY <1>6, <2>1, <2>2, <2>3 DEF Added
<1>8. \A i \in Id : \/ Added(at)[i] = None
                    \/ \E p \in DOMAIN at : at[p] = i
  BY DEF Added
<1> QED
  BY <1>2, <1>5, <1>7, <1>8 DEF last

LEMMA AddedType ==
    ASSUME TypeOK, NEW s \in Site,
           nextId + Cardinality(Missing(s)) <= MaxId, NEW at \in Layouts(s)
    PROVE  /\ Added(at) \in [Id -> Item \cup {None}]
           /\ \A i \in Id : Added(at)[i] # None =>
                 PlaceOf(at, i) \in Site /\ Added(at)[i].site = PlaceOf(at, i)
<1> SUFFICES ASSUME NEW i \in Id, Added(at)[i] # None
             PROVE  /\ Added(at)[i] \in Item
                    /\ PlaceOf(at, i) \in Site /\ Added(at)[i].site = PlaceOf(at, i)
  BY DEF Added
<1>1. PICK p \in DOMAIN at : at[p] = i
  BY BuildIds
<1>2. p \in Site /\ PlaceOf(at, i) = p /\ Added(at)[i] = Placed(p)
  BY <1>1, BuildIds
<1> QED
  BY <1>2, PlacedType

LEMMA BuildType ==
    ASSUME TypeOK, NEW s \in Site, Build(s)
    PROVE  TypeOK'
<1> DEFINE n == Cardinality(Missing(s))
           cost == Price[Kind[s]] + n * Price["floor"]
<1>1. nextId + n <= MaxId /\ nextId' = nextId + n + 1
  BY DEF Build
<1>3. PICK at \in Layouts(s), gold \in IF Searches(s) THEN Treasures ELSE {0} :
        /\ tower' = [i \in Id |-> IF Added(at)[i] = None THEN tower[i] ELSE Added(at)[i]]
        /\ journal' = [NoteIn(Paid(journal, -cost), Added(at))
                         EXCEPT !.searched = @ \/ (journal.open /\ Searches(s))]
        /\ money' = money - cost + gold
        /\ outside' = outside + gold
        /\ treasuresFound' = IF gold = 0 THEN treasuresFound ELSE treasuresFound + 1
        /\ ledger' = [i \in Id |->
              IF Added(at)[i] = None THEN ledger[i]
              ELSE [site |-> PlaceOf(at, i), sale |-> None,
                    used |-> IF Searches(PlaceOf(at, i)) THEN 1 ELSE 0]]
  BY Zenon DEF Build
<1>2. n \in Nat /\ nextId \in 1..MaxId + 1
  BY <1>1, BuildIds DEF TypeOK
<1>4. /\ Added(at) \in [Id -> Item \cup {None}]
      /\ \A i \in Id : Added(at)[i] # None => PlaceOf(at, i) \in Site
  BY <1>1, AddedType
<1>5. cost \in Int /\ gold \in Int
  <2>1. Kind[s] \in Kinds /\ "floor" \in Kinds
    BY GeometryAssumption DEF Kinds
  <2>2. Price[Kind[s]] \in Nat /\ Price["floor"] \in Nat
    BY <2>1, NumbersType
  <2>3. n * Price["floor"] \in Nat
    BY <1>2, <2>2
  <2> HIDE DEF n
  <2> QED
    BY <1>2, <2>2, <2>3, NumberAssumption
<1>6. tower' \in [Id -> Item \cup {None}]
  BY <1>3, <1>4 DEF TypeOK
<1>7. \A i \in Id : Added(at)[i] # None =>
         [site |-> PlaceOf(at, i), sale |-> None,
          used |-> IF Searches(PlaceOf(at, i)) THEN 1 ELSE 0] \in Entry
  BY <1>4 DEF Entry
<1>8. ledger' \in [Id -> Entry \cup {None}]
  BY <1>3, <1>7 DEF TypeOK
<1> HIDE DEF cost
<1>9. journal' \in Journal
  <2>1. Paid(journal, -cost) \in Journal
    BY <1>5, PaidType DEF TypeOK
  <2>2. NoteIn(Paid(journal, -cost), Added(at)) \in Journal
    BY <1>4, <2>1, NoteInType
  <2>3. NoteIn(Paid(journal, -cost), Added(at)).searched \in BOOLEAN
        /\ journal.open \in BOOLEAN
    BY <2>2 DEF Journal, TypeOK
  <2> QED
    BY <1>3, <2>2, <2>3 DEF Journal, Searches
<1>10. money' \in Int /\ outside' \in Int
  BY <1>3, <1>5 DEF TypeOK
<1>11. nextId' \in 1..MaxId + 1
  BY <1>1, <1>2, NumberAssumption
<1>12. dug' \subseteq Buried
  BY DEF Build, TypeOK
<1>13. treasuresFound' \in 0..MaxFound
  <2>1. treasuresFound \in 0..MaxFound /\ MaxFound \in Nat
    BY NumberAssumption DEF TypeOK
  <2>2. gold # 0 => treasuresFound < MaxFound
    BY <1>3 DEF Searches
  <2>3. treasuresFound' = IF gold = 0 THEN treasuresFound ELSE treasuresFound + 1
    BY <1>3
  <2> QED BY <2>1, <2>2, <2>3
<1> QED
  BY <1>6, <1>8, <1>9, <1>10, <1>11, <1>12, <1>13 DEF Build, TypeOK

(* What time makes of an item is an item.                                  *)
LEMMA MovedType ==
    ASSUME NEW x \in Item, NEW hourly \in BOOLEAN, NEW y \in Moved(x, hourly)
    PROVE  y \in Item /\ y.site = x.site
<1>1. CatalogName \in Names
  BY FactAssumption DEF CatalogName
<1>2. CASE IsShaft(x)
  <2>1. x.rides < MaxRides /\ y = [x EXCEPT !.rides = @ + 1]
    BY <1>2 DEF Moved, Ridden
  <2>2. x.rides + 1 \in 0..MaxRides
    BY <2>1, NumberAssumption DEF Item
  <2> QED
    BY <2>1, <2>2 DEF Item
<1>3. CASE ~IsShaft(x)
  <2>1. y \in Lived(x, hourly)
    BY <1>3 DEF Moved
  <2>2. CASE x.use = "building"
    BY <2>1, <2>2 DEF Lived, Item, Uses
  <2>3. CASE x.use = "idle"
    <3>1. \/ y = [x EXCEPT !.use = "fire"]
          \/ \E n \in {x.name} \cup (Names \cap {"tenant"}) :
                y = [x EXCEPT !.use = "let", !.sold = TRUE, !.name = n]
      BY <2>1, <2>3 DEF Lived
    <3> QED
      BY <3>1 DEF Item, Uses
  <2>4. CASE x.use \in {"let", "busy"}
    <3>1. \/ y = [x EXCEPT !.use = "fire"]
          \/ y = [x EXCEPT !.use = IF @ = "let" THEN "busy" ELSE "let"]
          \/ y = [x EXCEPT !.use = "idle", !.sold = FALSE, !.name = CatalogName]
      BY <2>1, <2>4 DEF Lived
    <3> QED
      BY <1>1, <3>1 DEF Item, Uses
  <2>5. CASE x.use = "fire"
    BY <1>1, <2>1, <2>5 DEF Lived, Item, Uses
  <2>6. CASE x.use = "gutted"
    BY <2>1, <2>6 DEF Lived
  <2> QED
    BY <2>2, <2>3, <2>4, <2>5, <2>6 DEF Item, Uses
<1> QED
  BY <1>2, <1>3

LEMMA UsedType ==
    ASSUME NEW e \in Entry, NEW was \in Item, NEW now \in Item, NEW hourly \in BOOLEAN
    PROVE  Used(e, was, now, hourly) \in Entry /\ Used(e, was, now, hourly).site = e.site
<1>1. now.cars \in Nat /\ now.rent \in Rents
  BY DEF Item
<1> QED
  BY <1>1 DEF Used, Entry

(* One of the towers an advance leads to: at most one item moved.          *)
LEMMA AdvanceTower ==
    ASSUME TypeOK, Advance
    PROVE  /\ tower' \in [Id -> Item \cup {None}]
           /\ \A i \in Id : /\ (tower'[i] = None) = (tower[i] = None)
                            /\ tower[i] # None => tower'[i].site = tower[i].site
<1>1. \/ tower' = tower
      \/ \E hourly \in BOOLEAN : \E i \in Standing(tower) : \E x \in Moved(tower[i], hourly) :
            tower' = [tower EXCEPT ![i] = x]
  BY Zenon DEF Advance
<1>2. CASE tower' = tower
  BY <1>2 DEF TypeOK
<1>3. ASSUME NEW hourly \in BOOLEAN, NEW i \in Standing(tower),
             NEW x \in Moved(tower[i], hourly), tower' = [tower EXCEPT ![i] = x]
      PROVE  /\ tower' \in [Id -> Item \cup {None}]
             /\ \A k \in Id : /\ (tower'[k] = None) = (tower[k] = None)
                              /\ tower[k] # None => tower'[k].site = tower[k].site
  <2>1. i \in Id /\ tower[i] \in Item
    BY DEF Standing, TypeOK
  <2>2. x \in Item /\ x.site = tower[i].site
    BY <2>1, MovedType
  <2>3. x # None /\ tower[i] # None
    BY <2>1, <2>2, FactAssumption
  <2> QED
    BY <1>3, <2>1, <2>2, <2>3 DEF TypeOK
<1> QED
  BY <1>1, <1>2, <1>3

LEMMA AdvanceType ==
    ASSUME TypeOK, TowerSited(tower, ledger), Advance
    PROVE  TypeOK' /\ TowerSited(tower', ledger')
<1>1. PICK hourly \in BOOLEAN, flow \in Flows \cup {0} :
        /\ hourly => hours < MaxHour
        /\ hours' = IF hourly THEN hours + 1 ELSE hours
        /\ money' = money + flow /\ outside' = outside + flow
        /\ ledger' = [i \in Id |-> IF tower'[i] = None THEN ledger[i]
                                   ELSE Used(ledger[i], tower[i], tower'[i], hourly)]
        /\ UNCHANGED <<nextId, dug, treasuresFound, journal, undo, redo>>
  BY Zenon DEF Advance
<1>2. flow \in Int
  BY NumberAssumption
<1>3. hours' \in 0..MaxHour
  BY <1>1, NumberAssumption DEF TypeOK
<1>4. ASSUME NEW i \in Id
      PROVE  /\ ledger'[i] \in Entry \cup {None}
             /\ tower'[i] # None => ledger'[i] # None /\ ledger'[i].site = tower'[i].site
  <2>1. CASE tower'[i] = None
    BY <1>1, <2>1 DEF TypeOK
  <2>2. CASE tower'[i] # None
    <3>1. tower'[i] \in Item /\ tower[i] \in Item /\ tower'[i].site = tower[i].site
      BY <2>2, AdvanceTower DEF TypeOK
    <3>2. ledger[i] \in Entry /\ ledger[i].site = tower[i].site
      BY <3>1, FactAssumption DEF TowerSited, SitedIn, TypeOK
    <3>3. /\ Used(ledger[i], tower[i], tower'[i], hourly) \in Entry
          /\ Used(ledger[i], tower[i], tower'[i], hourly).site = ledger[i].site
      BY <3>1, <3>2, UsedType
    <3>4. ledger'[i] = Used(ledger[i], tower[i], tower'[i], hourly)
      BY <1>1, <2>2
    <3> QED
      BY <3>1, <3>2, <3>3, <3>4, FactAssumption
  <2> QED
    BY <2>1, <2>2
<1>5. ledger' \in [Id -> Entry \cup {None}]
  BY <1>1, <1>4
<1> QED
  BY <1>1, <1>2, <1>3, <1>4, <1>5, AdvanceTower DEF TypeOK, TowerSited, SitedIn

-----------------------------------------------------------------------------
(* The steps a gesture leaves, and the stacks they go on.                  *)

(* The ledger never moves or forgets a build.                              *)
Grows(led, now) ==
    \A i \in Id : led[i] # None => now[i] # None /\ now[i].site = led[i].site

LEMMA GoodStepsKept ==
    ASSUME NEW stack, NEW led, NEW now, Grows(led, now), GoodSteps(stack, led)
    PROVE  GoodSteps(stack, now)
<1> SUFFICES ASSUME NEW m \in DOMAIN stack
             PROVE  StepSited(stack[m], now) /\ StepApart(stack[m], now)
  BY DEF GoodSteps
<1> DEFINE step == stack[m]
<1>1. StepSited(step, led) /\ StepApart(step, led)
  BY DEF GoodSteps
<1> HIDE DEF step
<1>2. \A i \in Id : Named(step, i) => led[i] # None /\ now[i] # None
                                      /\ now[i].site = led[i].site
  BY <1>1 DEF StepSited, SitedIn, Grows
<1>3. StepSited(step, now)
  BY <1>1, <1>2 DEF StepSited, SitedIn
<1>4. StepApart(step, now)
  BY <1>1, <1>2 DEF StepApart, Stays
<1> QED
  BY <1>3, <1>4 DEF step

LEMMA PushedGood ==
    ASSUME NEW stack \in Seq(Step), NEW step \in Step, NEW led,
           GoodSteps(stack, led), StepSited(step, led), StepApart(step, led)
    PROVE  GoodSteps(Pushed(stack, step), led)
<1>1. CASE Len(stack) < UndoCap
  <2>1. Pushed(stack, step) = Append(stack, step)
    BY <1>1 DEF Pushed
  <2>2. \A m \in DOMAIN Append(stack, step) :
          Append(stack, step)[m] = step \/ (m \in DOMAIN stack /\ Append(stack, step)[m] = stack[m])
    OBVIOUS
  <2> QED
    BY <2>1, <2>2 DEF GoodSteps
<1>2. CASE ~(Len(stack) < UndoCap)
  <2>1. stack # <<>> /\ Len(stack) \in Nat \ {0}
    BY <1>2, NumberAssumption
  <2> DEFINE old == Tail(stack)
  <2>2. /\ old \in Seq(Step)
        /\ \A m \in DOMAIN old : m + 1 \in DOMAIN stack /\ old[m] = stack[m + 1]
    BY <2>1
  <2>3. Pushed(stack, step) = Append(old, step)
    BY <1>2 DEF Pushed
  <2> HIDE DEF old
  <2>4. \A m \in DOMAIN Append(old, step) :
          Append(old, step)[m] = step \/ (m \in DOMAIN old /\ Append(old, step)[m] = old[m])
    BY <2>2
  <2> QED
    BY <2>2, <2>3, <2>4 DEF GoodSteps
<1> QED
  BY <1>1, <1>2

(* An image wants the item the gesture touched, and leaves it standing     *)
(* only if the gesture found it.                                           *)
LEMMA ImageOfWants ==
    ASSUME NEW seen \in Touch, NEW now \in Item \cup {None}, ImageOf(seen, now) # None
    PROVE  /\ ImageOf(seen, now).want = seen.item
           /\ ImageOf(seen, now).do # "takeOut" => seen.how = "was"
<1>1. ImageOf(seen, now) = IF IsShaft(seen.item) THEN ShaftImage(seen, now)
                           ELSE UnitImage(seen, now)
  BY FactAssumption DEF ImageOf
<1> QED
  BY <1>1 DEF UnitImage, ShaftImage

LEMMA StepOfGood ==
    ASSUME Inv, journal.open
    PROVE  StepSited(StepOf(journal), ledger) /\ StepApart(StepOf(journal), ledger)
<1> DEFINE step == StepOf(journal)
<1>1. ASSUME NEW i \in Id, Named(step, i)
      PROVE  /\ ledger[i] # None /\ Want(step, i).site = ledger[i].site
             /\ Stays(step, i) => WasFound(journal, tower, i)
  <2> DEFINE seen == journal.touched[i]
  <2>1. step.images[i] = ImageOf(seen, tower[i])
    BY DEF StepOf
  <2>2. seen # None
    BY <1>1, <2>1 DEF Named, ImageOf
  <2>3. seen \in Touch /\ tower[i] \in Item \cup {None}
    BY <2>2 DEF Inv, TypeOK, Journal
  <2>4. ImageOf(seen, tower[i]) # None
    BY <1>1, <2>1 DEF Named
  <2> HIDE DEF step
  <2>5. Want(step, i) = seen.item /\ (Stays(step, i) => seen.how = "was")
    BY <2>1, <2>3, <2>4, ImageOfWants DEF Want, Stays, Does, Named
  <2>6. ledger[i] # None /\ seen.item.site = ledger[i].site
    BY <2>2 DEF Inv, JournalSited, SitedIn
  <2> QED
    BY <2>2, <2>5, <2>6 DEF WasFound
<1> HIDE DEF step
<1>2. StepSited(step, ledger)
  BY <1>1 DEF StepSited, SitedIn
<1>3. StepApart(step, ledger)
  BY <1>1 DEF StepApart, Stays, Inv, FoundApart
<1> QED
  BY <1>2, <1>3 DEF step

(* Closing a gesture keeps both stacks good, and together within one.      *)
LEMMA CommittedGood ==
    ASSUME Inv
    PROVE  /\ UndoCommitted \in Seq(Step) /\ RedoCommitted \in Seq(Step)
           /\ GoodSteps(UndoCommitted, ledger) /\ GoodSteps(RedoCommitted, ledger)
           /\ Len(UndoCommitted) + Len(RedoCommitted) <= UndoCap
<1>1. undo \in Seq(Step) /\ redo \in Seq(Step) /\ Len(undo) + Len(redo) <= UndoCap
  BY DEF Inv, TypeOK, TrailBounded
<1>2. CASE ~Kept
  BY <1>1, <1>2 DEF UndoCommitted, RedoCommitted, Inv
<1>3. CASE Kept
  <2>1. journal.open /\ StepOf(journal) \in Step
    BY <1>3, StepOfType DEF Kept, Inv
  <2>2. GoodSteps(Pushed(undo, StepOf(journal)), ledger)
    BY <1>1, <2>1, StepOfGood, PushedGood DEF Inv
  <2>3. Pushed(undo, StepOf(journal)) \in Seq(Step)
        /\ Len(Pushed(undo, StepOf(journal))) <= UndoCap
    <3>1. Len(undo) \in Nat /\ Len(redo) \in Nat /\ UndoCap \in Nat
      BY <1>1, NumberAssumption
    <3>2. Len(undo) <= UndoCap
      BY <1>1, <3>1
    <3>3. /\ Pushed(undo, StepOf(journal)) \in Seq(Step)
          /\ Len(Pushed(undo, StepOf(journal))) = IF Len(undo) < UndoCap THEN Len(undo) + 1
                                                  ELSE Len(undo)
      BY <1>1, <2>1, PushedType
    <3> QED
      BY <3>1, <3>2, <3>3
  <2>4. <<>> \in Seq(Step) /\ Len(<<>>) = 0 /\ GoodSteps(<<>>, ledger)
    BY DEF GoodSteps
  <2>5. UndoCommitted = Pushed(undo, StepOf(journal)) /\ RedoCommitted = <<>>
    BY <1>3 DEF UndoCommitted, RedoCommitted
  <2>6. Len(Pushed(undo, StepOf(journal))) \in Nat
    BY <2>3
  <2>7. Len(UndoCommitted) + Len(RedoCommitted) <= UndoCap
    BY <2>3, <2>4, <2>5, <2>6, NumberAssumption
  <2> QED
    BY <2>2, <2>3, <2>4, <2>5, <2>7
<1> QED
  BY <1>2, <1>3

(* What is under the newest step of a good stack is good.                  *)
LEMMA NewestGood ==
    ASSUME NEW stack \in Seq(Step), stack # <<>>, NEW led, GoodSteps(stack, led)
    PROVE  /\ StepSited(Newest(stack), led) /\ StepApart(Newest(stack), led)
           /\ GoodSteps(Older(stack), led)
<1>1. Len(stack) \in DOMAIN stack
  OBVIOUS
<1>2. Older(stack) \in Seq(Step)
      /\ \A m \in DOMAIN Older(stack) : m \in DOMAIN stack /\ Older(stack)[m] = stack[m]
  BY NewestType
<1> QED
  BY <1>1, <1>2 DEF GoodSteps, Newest

-----------------------------------------------------------------------------
(* Every step keeps the invariant.                                         *)

(* The tower as it starts.                                                 *)
LEMMA InitInv == Init => Inv
<1> SUFFICES ASSUME Init PROVE Inv
  OBVIOUS
<1>1. Len(Begun) \in Nat /\ Len(Begun) <= MaxId /\ MaxId \in Nat
      /\ DOMAIN Begun = 1..Len(Begun)
  BY GeometryAssumption, NumberAssumption
<1>2. \A i \in Id : i <= Len(Begun) =>
         /\ i \in DOMAIN Begun /\ Begun[i] \in Site
         /\ tower[i] = Placed(Begun[i]) /\ tower[i].site = Begun[i]
         /\ tower[i] # None
         /\ ledger[i].site = Begun[i] /\ ledger[i] # None
  <2> SUFFICES ASSUME NEW i \in Id, i <= Len(Begun)
               PROVE  /\ i \in DOMAIN Begun /\ Begun[i] \in Site
                      /\ tower[i] = Placed(Begun[i]) /\ tower[i].site = Begun[i]
                      /\ tower[i] # None
                      /\ ledger[i].site = Begun[i] /\ ledger[i] # None
    OBVIOUS
  <2>1. i \in DOMAIN Begun /\ Begun[i] \in Site
    BY <1>1, GeometryAssumption DEF Id
  <2>2. tower[i] = Placed(Begun[i])
    BY DEF Init, StartTower
  <2>3. ledger[i] = [site |-> Begun[i], used |-> 1, sale |-> None]
    BY DEF Init, StartLedger
  <2>4. ledger[i] \in Entry
    BY <2>1, <2>3 DEF Entry
  <2> QED
    BY <2>1, <2>2, <2>3, <2>4, PlacedType, FactAssumption
<1>3. \A i \in Id : ~(i <= Len(Begun)) => tower[i] = None /\ ledger[i] = None
  BY DEF Init, StartTower, StartLedger
<1>4. \A i \in Id : i >= nextId => ledger[i] = None
  BY <1>1, <1>3 DEF Init, Id
<1>5. TowerSited(tower, ledger)
  BY <1>2, <1>3 DEF TowerSited, SitedIn
<1>6. JournalSited(journal, ledger) /\ FoundApart(journal, tower, ledger)
  BY DEF Init, NoJournal, JournalSited, FoundApart
<1>7. GoodSteps(undo, ledger) /\ GoodSteps(redo, ledger) /\ TrailBounded
  BY NumberAssumption DEF Init, GoodSteps, TrailBounded
<1>8. NoOverlap
  BY <1>2, <1>3, GeometryAssumption DEF NoOverlap, Standing
<1>9. NothingHangs
  <2> SUFFICES ASSUME NEW i \in Standing(tower), NEW f \in Rests[tower[i].site]
               PROVE  HeldAt(tower, f)
    BY DEF NothingHangs
  <2>1. i \in DOMAIN Begun /\ tower[i].site = Begun[i]
    BY <1>2, <1>3 DEF Standing
  <2>2. PICK n \in DOMAIN Begun : Begun[n] = f
    BY <2>1, GeometryAssumption
  <2>3. n \in Id /\ n <= Len(Begun)
    BY <1>1 DEF Id
  <2> QED
    BY <1>2, <2>2, <2>3 DEF HeldAt, Standing
<1> QED
  BY <1>4, <1>5, <1>6, <1>7, <1>8, <1>9, InitType DEF Inv, TowerStands

LEMMA AdoptInv == Adopt => Inv'
<1>1. Adopt => Init'
  BY DEF Adopt, Init
<1> QED
  BY <1>1, InitInv, PTL

(* A gesture opened or closed leaves the tower be.                         *)
LEMMA CloseInv == Inv /\ (Capture \/ Commit) => Inv'
<1> SUFFICES ASSUME Inv, Capture \/ Commit PROVE Inv'
  OBVIOUS
<1>1. /\ undo' = UndoCommitted /\ redo' = RedoCommitted
      /\ UNCHANGED <<world, ledger, outside>>
      /\ journal' = OpenJournal \/ journal' = NoJournal
  BY DEF Capture, Commit
<1>2. journal' \in Journal /\ journal'.touched = [i \in Id |-> None]
  <2>1. NoJournal \in Journal /\ NoJournal.touched = [i \in Id |-> None]
    BY NumberAssumption DEF NoJournal, Journal
  <2>2. hours \in 0..MaxHour
    BY DEF Inv, TypeOK
  <2>3. OpenJournal \in Journal /\ OpenJournal.touched = NoJournal.touched
    BY <2>1, <2>2 DEF OpenJournal, Journal
  <2> QED
    BY <1>1, <2>1, <2>3
<1>3. TypeOK'
  BY <1>1, <1>2, CommittedType DEF Inv, TypeOK, world
<1>4. JournalSited(journal', ledger')
  BY <1>2 DEF JournalSited
<1>5. FoundApart(journal', tower', ledger')
  <2> SUFFICES ASSUME NEW i \in Id, NEW k \in Id, WasFound(journal', tower', i),
                      WasFound(journal', tower', k), ledger'[i].site = ledger'[k].site
               PROVE  i = k
    BY DEF FoundApart
  <2>1. tower' = tower /\ ledger' = ledger
    BY <1>1 DEF world
  <2>2. tower[i] # None /\ tower[k] # None
    BY <1>2, <2>1 DEF WasFound
  <2>3. tower[i].site = tower[k].site
    BY <2>1, <2>2 DEF Inv, TowerSited, SitedIn
  <2> QED
    BY <2>2, <2>3 DEF Inv, TowerStands, NoOverlap, Standing
<1>6. /\ GoodSteps(undo', ledger') /\ GoodSteps(redo', ledger')
      /\ TrailBounded'
  BY <1>1, CommittedGood DEF TrailBounded
<1>7. TowerStands'
  BY <1>1 DEF Inv, TowerStands, NoOverlap, NothingHangs, Standing, HeldAt, world
<1> QED
  BY <1>1, <1>3, <1>4, <1>5, <1>6, <1>7 DEF Inv, world

(* A note about item i: it leaves the others, holds an item of i's place,  *)
(* and never makes an added item one the gesture found.                    *)
Notes(j, n, i, led) ==
    /\ n \in Journal /\ n.open = j.open
    /\ \A k \in Id \ {i} : n.touched[k] = j.touched[k]
    /\ n.touched[i] # None => SitedIn(i, n.touched[i].item, led)
    /\ n.open => /\ n.touched[i] # None
                 /\ n.touched[i].how = "was" =>
                       j.touched[i] = None \/ j.touched[i].how = "was"

LEMMA NoteEditNotes ==
    ASSUME NEW j \in Journal, NEW i \in Id, NEW x \in Item, NEW led,
           JournalSited(j, led), SitedIn(i, x, led)
    PROVE  Notes(j, NoteEdit(j, i, x), i, led)
<1>1. NoteEdit(j, i, x) \in Journal
  BY NoteEditType
<1>2. CASE ~j.open
  BY <1>1, <1>2 DEF NoteEdit, Notes, JournalSited
<1>3. CASE j.open /\ j.touched[i] = None
  <2>1. NoteEdit(j, i, x) = [j EXCEPT !.touched[i] = [how |-> "was", item |-> x]]
    BY <1>3 DEF NoteEdit
  <2>2. /\ NoteEdit(j, i, x).open = j.open
        /\ NoteEdit(j, i, x).touched[i] = [how |-> "was", item |-> x]
        /\ \A k \in Id \ {i} : NoteEdit(j, i, x).touched[k] = j.touched[k]
    BY <2>1 DEF Journal
  <2>3. [how |-> "was", item |-> x] # None
    BY FactAssumption DEF Touch
  <2> QED
    BY <1>1, <1>3, <2>2, <2>3 DEF Notes, SitedIn
<1>4. CASE j.open /\ j.touched[i] # None
  <2>1. NoteEdit(j, i, x).open = j.open /\ NoteEdit(j, i, x).touched = j.touched
    BY <1>4 DEF NoteEdit, NoteBought, Journal
  <2> QED
    BY <1>1, <1>4, <2>1 DEF Notes, JournalSited
<1> QED
  BY <1>2, <1>3, <1>4

LEMMA NoteOutNotes ==
    ASSUME NEW j \in Journal, NEW i \in Id, NEW x \in Item, NEW led,
           JournalSited(j, led), SitedIn(i, x, led)
    PROVE  Notes(j, NoteOut(j, i, x), i, led)
<1> DEFINE seen == j.touched[i]
           n    == NoteOut(j, i, x)
<1>1. n \in Journal
  BY NoteOutType
<1>2. CASE ~j.open
  BY <1>1, <1>2 DEF NoteOut, Notes, JournalSited
<1>3. CASE j.open /\ seen = None
  <2>1. n = [j EXCEPT !.touched[i] = [how |-> "was", item |-> x]]
    BY <1>3 DEF NoteOut
  <2>2. /\ n.open = j.open /\ n.touched[i] = [how |-> "was", item |-> x]
        /\ \A k \in Id \ {i} : n.touched[k] = j.touched[k]
    BY <2>1 DEF Journal
  <2>3. [how |-> "was", item |-> x] # None
    BY FactAssumption DEF Touch
  <2> QED
    BY <1>1, <1>3, <2>2, <2>3 DEF Notes, SitedIn
<1>4. CASE j.open /\ seen # None
  <2>1. /\ seen \in Touch /\ seen.item \in Item /\ seen.how \in {"was", "added", "addedAndUsed"}
        /\ SitedIn(i, seen.item, led)
    BY <1>4 DEF Journal, Touch, JournalSited
  <2>2. CASE seen.how = "was"
    <3> DEFINE b == IF IsShaft(x) THEN NoteBought(j, seen.item, x) ELSE j
               t == [seen EXCEPT !.item = Leaving(x, seen.item)]
    <3>1. b \in Journal /\ b.touched = j.touched /\ b.open = j.open
      BY NoteBoughtType DEF NoteBought, Journal
    <3>2. Leaving(x, seen.item) \in Item /\ Leaving(x, seen.item).site = x.site
      BY <2>1, LeavingType DEF Leaving, Item
    <3>3. n = [b EXCEPT !.touched[i].item = Leaving(x, seen.item)]
      BY <1>4, <2>2 DEF NoteOut
    <3> HIDE DEF b, n
    <3>4. n.open = j.open /\ n.touched = [j.touched EXCEPT ![i] = t]
      BY <3>1, <3>3 DEF Journal
    <3>5. t \in Touch /\ t.how = "was" /\ t.item = Leaving(x, seen.item) /\ t # None
      BY <2>1, <2>2, <3>2, FactAssumption DEF Touch
    <3> HIDE DEF t
    <3>6. n.touched[i] = t /\ \A k \in Id \ {i} : n.touched[k] = j.touched[k]
      BY <3>4 DEF Journal
    <3> QED
      BY <1>1, <2>2, <3>2, <3>4, <3>5, <3>6 DEF Notes, SitedIn, n
  <2>3. CASE seen.how = "added" /\ ~IsShaft(x)
    <3> DEFINE u == IF UseOf(x) = UseOf(seen.item) THEN seen
                    ELSE [how |-> "addedAndUsed", item |-> x]
    <3>1. n = [j EXCEPT !.touched[i] = u, !.tookOwn = @ \/ IsFloor(x)]
      BY <1>4, <2>3 DEF NoteOut
    <3>2. u \in Touch /\ u # None /\ SitedIn(i, u.item, led) /\ u.how # "was"
      BY <2>1, <2>3, FactAssumption DEF Touch, SitedIn
    <3> HIDE DEF u, n
    <3>3. /\ n.open = j.open /\ n.touched[i] = u
          /\ \A k \in Id \ {i} : n.touched[k] = j.touched[k]
      BY <3>1 DEF Journal
    <3> QED
      BY <1>1, <3>2, <3>3 DEF Notes, n
  <2>4. CASE seen.how = "addedAndUsed" \/ (seen.how = "added" /\ IsShaft(x))
    <3>1. n.open = j.open /\ n.touched = j.touched
      BY <1>4, <2>4 DEF NoteOut, Journal
    <3> QED
      BY <1>1, <1>4, <2>1, <3>1 DEF Notes
  <2> QED
    BY <2>1, <2>2, <2>3, <2>4
<1> QED
  BY <1>2, <1>3, <1>4

(* A command that notes item i and then changes or removes it keeps what   *)
(* the journal says true.                                                  *)
LEMMA EditedNotes ==
    ASSUME Inv, NEW i \in Id, tower[i] # None, NEW x, NEW amount, NEW n,
           Notes(journal, n, i, ledger), Edited(i, x, n, amount)
    PROVE  JournalSited(journal', ledger') /\ FoundApart(journal', tower', ledger')
<1>1. /\ journal'.open = n.open /\ journal'.touched = n.touched
      /\ ledger' = ledger
      /\ \A k \in Id \ {i} : tower'[k] = tower[k]
  BY DEF Edited, Paid, Notes, Journal, Inv, TypeOK
<1>2. JournalSited(journal', ledger')
  BY <1>1 DEF JournalSited, Notes, Inv
<1>3. ASSUME NEW k \in Id, n.open, WasFound(journal', tower', k)
      PROVE  WasFound(journal, tower, k)
  BY <1>1, <1>3 DEF WasFound, Notes
<1>4. FoundApart(journal', tower', ledger')
  BY <1>1, <1>3 DEF FoundApart, Notes, Inv
<1> QED
  BY <1>2, <1>4

(* What the change of one item keeps, wherever it leaves the item or takes *)
(* it out with nothing standing on it.                                     *)
LEMMA EditedInv ==
    ASSUME Inv, NEW i \in Id, tower[i] # None, NEW x \in Item \cup {None},
           NEW amount \in Int, NEW n, Notes(journal, n, i, ledger),
           Edited(i, x, n, amount), x # None => x.site = tower[i].site,
           x = None => \A k \in Standing(tower) : tower[i].site \notin Rests[tower[k].site]
    PROVE  Inv'
<1>1. /\ tower' = [tower EXCEPT ![i] = x]
      /\ UNCHANGED <<nextId, undo, redo, ledger>>
  BY DEF Edited
<1>2. TypeOK'
  BY EditedType DEF Notes, Inv
<1>3. \A k \in Id : /\ k # i => tower'[k] = tower[k]
                    /\ k = i => tower'[k] = x
  BY <1>1 DEF Inv, TypeOK
<1>4. \A k \in Id : tower'[k] # None => tower[k] # None /\ tower'[k].site = tower[k].site
  BY <1>3
<1>5. TowerSited(tower', ledger')
  BY <1>1, <1>4 DEF TowerSited, SitedIn, Inv
<1>6. NoOverlap'
  BY <1>4 DEF NoOverlap, Standing, Inv, TowerStands
<1>7. NothingHangs'
  <2> SUFFICES ASSUME NEW k \in Id, tower'[k] # None, NEW f \in Rests[tower'[k].site]
               PROVE  \E m \in Id : tower'[m] # None /\ tower'[m].site = f
    BY DEF NothingHangs, Standing, HeldAt
  <2>1. tower[k] # None /\ f \in Rests[tower[k].site]
    BY <1>4
  <2>2. PICK m \in Id : tower[m] # None /\ tower[m].site = f
    BY <2>1 DEF Inv, TowerStands, NothingHangs, Standing, HeldAt
  <2>3. m = i => x # None
    BY <2>1, <2>2 DEF Standing
  <2> QED
    BY <1>3, <2>2, <2>3
<1>8. JournalSited(journal', ledger') /\ FoundApart(journal', tower', ledger')
  BY EditedNotes
<1> QED
  BY <1>1, <1>2, <1>5, <1>6, <1>7, <1>8 DEF Inv, TowerStands, TrailBounded

LEMMA SellInv ==
    ASSUME Inv, NEW i \in Id, Sell(i)
    PROVE  Inv'
<1>1. tower[i] \in Item /\ SitedIn(i, tower[i], ledger)
  BY DEF Sell, Inv, TypeOK, TowerSited
<1>2. Notes(journal, NoteOut(journal, i, tower[i]), i, ledger)
  BY <1>1, NoteOutNotes DEF Inv, TypeOK
<1>3. PICK amount \in Int : Edited(i, None, NoteOut(journal, i, tower[i]), amount)
  <2>1. KindOf(tower[i]) \in Kinds
    BY <1>1, GeometryAssumption DEF KindOf, Item
  <2>2. Refund(KindOf(tower[i])) \in Int
    BY <2>1, NumbersType
  <2> QED
    BY <2>2 DEF Sell
<1> QED
  BY <1>2, <1>3, EditedInv DEF Sell

LEMMA EditInv ==
    ASSUME Inv, NEW i \in Id, AddCar(i) \/ RemoveCar(i) \/ Reprice(i) \/ Rename(i)
    PROVE  Inv'
<1>1. tower[i] \in Item /\ SitedIn(i, tower[i], ledger) /\ tower[i] # None
  BY DEF AddCar, RemoveCar, Reprice, Rename, Inv, TypeOK, TowerSited
<1> DEFINE n == NoteEdit(journal, i, tower[i])
<1>2. Notes(journal, n, i, ledger)
  BY <1>1, NoteEditNotes DEF Inv, TypeOK
<1>3. \E x \in Item : \E amount \in Int :
         x.site = tower[i].site /\ Edited(i, x, n, amount)
  <2>1. CarPrice \in Nat /\ -CarPrice \in Int /\ CarRefund \in Int
    BY NumberAssumption, NumbersType
  <2>2. CASE AddCar(i)
    <3> DEFINE x == [tower[i] EXCEPT !.cars = @ + 1]
    <3>1. tower[i].cars + 1 \in 0..MaxCars
      <4>1. tower[i].cars \in 0..MaxCars /\ tower[i].cars < MaxCars
        BY <1>1, <2>2 DEF AddCar, Item
      <4> QED
        BY <4>1, NumberAssumption
    <3>3. x \in Item /\ x.site = tower[i].site
      BY <1>1, <3>1 DEF Item
    <3>2. Edited(i, x, n, -CarPrice)
      BY <2>2 DEF AddCar
    <3> QED
      BY <2>1, <3>2, <3>3
  <2>3. CASE RemoveCar(i)
    <3> DEFINE x == [tower[i] EXCEPT !.cars = @ - 1]
    <3>1. tower[i].cars - 1 \in 0..MaxCars
      <4>1. tower[i].cars \in 0..MaxCars /\ tower[i].cars > 1
        BY <1>1, <2>3 DEF RemoveCar, Item
      <4> QED
        BY <4>1, NumberAssumption
    <3>3. x \in Item /\ x.site = tower[i].site
      BY <1>1, <3>1 DEF Item
    <3>2. Edited(i, x, n, CarRefund)
      BY <2>3 DEF RemoveCar
    <3> QED
      BY <2>1, <3>2, <3>3
  <2>4. CASE Reprice(i)
    <3>1. PICK rent \in Rents : Edited(i, [tower[i] EXCEPT !.rent = rent], n, 0)
      BY <2>4 DEF Reprice
    <3> DEFINE x == [tower[i] EXCEPT !.rent = rent]
    <3>2. x \in Item /\ x.site = tower[i].site
      BY <1>1 DEF Item
    <3>3. Edited(i, x, n, 0) /\ 0 \in Int
      BY <3>1
    <3> HIDE DEF x, n
    <3> QED
      BY <3>2, <3>3
  <2>5. CASE Rename(i)
    <3>1. PICK name \in Names : Edited(i, [tower[i] EXCEPT !.name = name], n, 0)
      BY <2>5 DEF Rename
    <3> DEFINE x == [tower[i] EXCEPT !.name = name]
    <3>2. x \in Item /\ x.site = tower[i].site
      BY <1>1 DEF Item
    <3>3. Edited(i, x, n, 0) /\ 0 \in Int
      BY <3>1
    <3> HIDE DEF x, n
    <3> QED
      BY <3>2, <3>3
  <2> QED
    BY <2>2, <2>3, <2>4, <2>5
<1>4. PICK x \in Item, amount \in Int : x.site = tower[i].site /\ Edited(i, x, n, amount)
  BY <1>3
<1>5. x # None
  BY FactAssumption
<1> HIDE DEF n
<1> QED
  BY <1>1, <1>2, <1>4, <1>5, EditedInv

(* Whatever the gesture found was built, so it keeps its place as the      *)
(* ledger grows.                                                           *)
LEMMA FoundBuilt ==
    ASSUME Inv, NEW i \in Id, WasFound(journal, tower, i)
    PROVE  ledger[i] # None
  BY DEF WasFound, Inv, TowerSited, JournalSited, SitedIn

(* A build takes ids of its own, on places nothing holds.                  *)
LEMMA BuildInv ==
    ASSUME Inv, NEW s \in Site, Build(s)
    PROVE  Inv'
<1> DEFINE n == Cardinality(Missing(s))
           cost == Price[Kind[s]] + n * Price["floor"]
<1>1. /\ TypeOK /\ nextId + n <= MaxId /\ nextId' = nextId + n + 1
      /\ UNCHANGED <<undo, redo>> /\ ~HeldAt(tower, s)
      /\ \A f \in Missing(s) : \A g \in Rests[f] : HeldAt(tower, g)
  BY DEF Build, Inv
<1>2. PICK at \in Layouts(s) :
        /\ tower' = [i \in Id |-> IF Added(at)[i] = None THEN tower[i] ELSE Added(at)[i]]
        /\ journal' = [NoteIn(Paid(journal, -cost), Added(at))
                         EXCEPT !.searched = @ \/ (journal.open /\ Searches(s))]
        /\ ledger' = [i \in Id |->
              IF Added(at)[i] = None THEN ledger[i]
              ELSE [site |-> PlaceOf(at, i), sale |-> None,
                    used |-> IF Searches(PlaceOf(at, i)) THEN 1 ELSE 0]]
  BY Zenon DEF Build
<1>3. /\ n \in Nat /\ DOMAIN at = Missing(s) \cup {s}
      /\ \A p \in DOMAIN at :
            /\ at[p] \in Id /\ at[p] >= nextId /\ at[p] <= nextId + n
            /\ PlaceOf(at, at[p]) = p
            /\ Added(at)[at[p]] = Placed(p) /\ Placed(p) # None /\ Placed(p).site = p
      /\ \A i \in Id : Added(at)[i] = None \/ \E p \in DOMAIN at : at[p] = i
  BY <1>1, BuildIds, PlacedType
<1>4. TypeOK'
  BY BuildType DEF Inv
<1>5. \A p \in DOMAIN at : ~HeldAt(tower, p)
  BY <1>1, <1>3 DEF Missing
<1> DEFINE New(i, p) == p \in DOMAIN at /\ at[p] = i
<1>6. ASSUME NEW i \in Id, Added(at)[i] = None
      PROVE  tower'[i] = tower[i] /\ ledger'[i] = ledger[i]
  BY <1>2, <1>6
<1>7. ASSUME NEW i \in Id, NEW p, New(i, p)
      PROVE  /\ i >= nextId /\ i <= nextId + n /\ Added(at)[i] # None
             /\ tower'[i] = Placed(p) /\ tower'[i].site = p /\ tower'[i] # None
             /\ ledger'[i] # None /\ ledger'[i].site = p
             /\ tower[i] = None /\ journal.touched[i] = None /\ ledger[i] = None
  <2>1. /\ i >= nextId /\ i <= nextId + n /\ PlaceOf(at, i) = p
        /\ Added(at)[i] = Placed(p) /\ Placed(p) # None /\ Placed(p).site = p
    BY <1>3, <1>7
  <2>2. tower'[i] = Placed(p)
    BY <1>2, <2>1
  <2>3. ledger'[i] = [site |-> p, sale |-> None,
                      used |-> IF Searches(p) THEN 1 ELSE 0]
    BY <1>2, <2>1
  <2>4. ledger'[i] # None
    <3>1. p \in Site
      BY <1>1, <1>7, BuildIds
    <3>2. ledger'[i] \in Entry
      BY <2>3, <3>1 DEF Entry
    <3> QED
      BY <3>2, FactAssumption
  <2>5. ledger[i] = None
    BY <2>1 DEF Inv
  <2>6. tower[i] = None /\ journal.touched[i] = None
    BY <2>5 DEF Inv, TowerSited, JournalSited, SitedIn
  <2> QED
    BY <2>1, <2>2, <2>3, <2>4, <2>5, <2>6
<1>8. \A i \in Id : Added(at)[i] = None \/ \E p : New(i, p)
  BY <1>3
<1>9. Grows(ledger, ledger')
  BY <1>6, <1>7, <1>8 DEF Grows
<1>10. \A i \in Id : i >= nextId' => ledger'[i] = None
  <2> SUFFICES ASSUME NEW i \in Id, i >= nextId' PROVE ledger'[i] = None
    OBVIOUS
  <2>1. nextId \in Nat /\ i \in Int /\ i > nextId + n /\ i >= nextId
    BY <1>1, <1>3 DEF Id, TypeOK
  <2>2. ~\E p : New(i, p)
    BY <1>3, <1>7, <2>1
  <2>3. ledger'[i] = ledger[i]
    BY <1>6, <1>8, <2>2
  <2> QED
    BY <2>1, <2>3 DEF Inv
<1>11. TowerSited(tower', ledger')
  <2> SUFFICES ASSUME NEW i \in Id, tower'[i] # None
               PROVE  SitedIn(i, tower'[i], ledger')
    BY DEF TowerSited
  <2>1. CASE Added(at)[i] = None
    BY <1>6, <2>1 DEF Inv, TowerSited, SitedIn
  <2>2. ASSUME NEW p, New(i, p) PROVE SitedIn(i, tower'[i], ledger')
    BY <1>7, <2>2 DEF SitedIn
  <2> QED
    BY <1>8, <2>1, <2>2
<1>12. /\ journal'.open = journal.open
       /\ \A i \in Id : journal'.touched[i] =
             IF journal.open /\ Added(at)[i] # None
             THEN [how |-> "added", item |-> Added(at)[i]] ELSE journal.touched[i]
  BY <1>1, <1>2 DEF NoteIn, Paid, Journal, TypeOK
<1>13. JournalSited(journal', ledger')
  <2> SUFFICES ASSUME NEW i \in Id, journal'.touched[i] # None
               PROVE  SitedIn(i, journal'.touched[i].item, ledger')
    BY DEF JournalSited
  <2>1. CASE Added(at)[i] = None \/ ~journal.open
    <3>1. journal'.touched[i] = journal.touched[i]
      BY <1>12, <2>1
    <3>2. SitedIn(i, journal.touched[i].item, ledger)
      BY <3>1 DEF Inv, JournalSited
    <3> QED
      BY <1>9, <3>1, <3>2 DEF SitedIn, Grows
  <2>2. ASSUME NEW p, New(i, p), journal.open
        PROVE  SitedIn(i, journal'.touched[i].item, ledger')
    <3>1. journal'.touched[i].item = Placed(p)
      <4>1. Added(at)[i] # None /\ Added(at)[i] = Placed(p)
        BY <1>3, <1>7, <2>2
      <4>2. journal'.touched[i] = [how |-> "added", item |-> Placed(p)]
        BY <1>12, <2>2, <4>1
      <4> QED
        BY <4>2
    <3> QED
      BY <1>7, <2>2, <3>1 DEF SitedIn
  <2> QED
    BY <1>8, <2>1, <2>2
<1>14. FoundApart(journal', tower', ledger')
  <2>1. ASSUME NEW i \in Id, journal'.open, WasFound(journal', tower', i)
        PROVE  WasFound(journal, tower, i) /\ ledger'[i].site = ledger[i].site
    <3>1. CASE Added(at)[i] = None
      <4>1. WasFound(journal, tower, i)
        BY <1>6, <1>12, <2>1, <3>1 DEF WasFound
      <4> QED
        BY <1>6, <3>1, <4>1
    <3>2. CASE Added(at)[i] # None
      <4>1. journal'.touched[i] = [how |-> "added", item |-> Added(at)[i]]
        BY <1>12, <2>1, <3>2
      <4>2. journal'.touched[i].how = "added"
        BY <4>1
      <4>3. \E p : New(i, p)
        BY <1>8, <3>2
      <4>4. journal'.touched[i] # None
        <5>1. Added(at)[i] \in Item
          BY <1>1, <3>2, AddedType
        <5> QED
          BY <4>1, <5>1, FactAssumption DEF Touch
      <4> QED
        BY <2>1, <4>2, <4>4 DEF WasFound
    <3> QED
      BY <3>1, <3>2
  <2> QED
    BY <1>12, <2>1 DEF FoundApart, Inv
<1>15. NoOverlap'
  <2> SUFFICES ASSUME NEW i \in Id, NEW k \in Id, tower'[i] # None, tower'[k] # None,
                      tower'[i].site = tower'[k].site
               PROVE  i = k
    BY DEF NoOverlap, Standing
  <2>1. ASSUME NEW a \in Id, NEW b \in Id, NEW p, New(a, p), Added(at)[b] = None,
               tower'[b] # None
        PROVE  tower'[a].site # tower'[b].site
    BY <1>5, <1>6, <1>7, <2>1 DEF HeldAt, Standing
  <2>2. CASE Added(at)[i] = None /\ Added(at)[k] = None
    BY <1>6, <2>2 DEF Inv, TowerStands, NoOverlap, Standing
  <2>3. ASSUME NEW p, NEW q, New(i, p), New(k, q) PROVE i = k
    BY <1>7, <2>3
  <2> QED
    BY <1>8, <2>1, <2>2, <2>3
<1>16. NothingHangs'
  <2> SUFFICES ASSUME NEW i \in Id, tower'[i] # None, NEW f \in Rests[tower'[i].site]
               PROVE  \E m \in Id : tower'[m] # None /\ tower'[m].site = f
    BY DEF NothingHangs, Standing, HeldAt
  <2>1. HeldAt(tower, f) => \E m \in Id : tower'[m] # None /\ tower'[m].site = f
    <3> SUFFICES ASSUME NEW m \in Id, tower[m] # None, tower[m].site = f
                 PROVE  tower'[m] # None /\ tower'[m].site = f
      BY DEF HeldAt, Standing
    <3>1. Added(at)[m] = None
      BY <1>7, <1>8
    <3> QED
      BY <1>6, <3>1
  <2>2. CASE Added(at)[i] = None
    BY <1>6, <2>1, <2>2 DEF Inv, TowerStands, NothingHangs, Standing
  <2>3. ASSUME NEW p, New(i, p)
        PROVE  HeldAt(tower, f) \/ f \in Missing(s)
    <3>1. f \in Rests[p] /\ p \in Missing(s) \cup {s}
      BY <1>3, <1>7, <2>3
    <3> QED
      BY <1>1, <3>1 DEF Missing
  <2>4. f \in Missing(s) => at[f] \in Id /\ tower'[at[f]] # None /\ tower'[at[f]].site = f
    BY <1>3, <1>7
  <2> QED
    BY <1>8, <2>1, <2>2, <2>3, <2>4
<1>17. GoodSteps(undo', ledger') /\ GoodSteps(redo', ledger') /\ TrailBounded'
  BY <1>1, <1>9, GoodStepsKept DEF Inv, TrailBounded
<1> QED
  BY <1>4, <1>10, <1>11, <1>13, <1>14, <1>15, <1>16, <1>17 DEF Inv, TowerStands

(* Time moves no item and forgets no build.                                *)
LEMMA AdvanceInv ==
    ASSUME Inv, Advance
    PROVE  Inv'
<1>1. UNCHANGED <<nextId, journal, undo, redo>>
      /\ \A i \in Id : tower'[i] = None => ledger'[i] = ledger[i]
  BY Zenon DEF Advance
<1>2. TypeOK' /\ TowerSited(tower', ledger')
  BY AdvanceType DEF Inv
<1>3. \A i \in Id : /\ (tower'[i] = None) = (tower[i] = None)
                    /\ tower[i] # None => tower'[i].site = tower[i].site
  BY AdvanceTower DEF Inv
<1>4. Grows(ledger, ledger') /\ \A i \in Id : ledger[i] = None => ledger'[i] = None
  BY <1>1, <1>2, <1>3 DEF Grows, TowerSited, SitedIn, Inv
<1>5. JournalSited(journal', ledger')
  BY <1>1, <1>4 DEF JournalSited, SitedIn, Grows, Inv
<1>6. FoundApart(journal', tower', ledger')
  <2>1. ASSUME NEW i \in Id, WasFound(journal', tower', i)
        PROVE  WasFound(journal, tower, i) /\ ledger'[i].site = ledger[i].site
    <3>1. WasFound(journal, tower, i)
      BY <1>1, <1>3, <2>1 DEF WasFound
    <3> QED
      BY <1>4, <3>1, FoundBuilt DEF Grows
  <2> QED
    BY <1>1, <2>1 DEF FoundApart, Inv
<1>7. TowerStands'
  <2>1. NoOverlap'
    BY <1>3 DEF NoOverlap, Standing, Inv, TowerStands
  <2>2. NothingHangs'
    BY <1>3 DEF NothingHangs, HeldAt, Standing, Inv, TowerStands
  <2> QED
    BY <2>1, <2>2 DEF TowerStands
<1>8. GoodSteps(undo', ledger') /\ GoodSteps(redo', ledger') /\ TrailBounded'
  BY <1>1, <1>4, GoodStepsKept DEF Inv, TrailBounded
<1> QED
  BY <1>1, <1>2, <1>4, <1>5, <1>6, <1>7, <1>8 DEF Inv

(* What a step that applies makes of an item it names, and of one it does  *)
(* not.                                                                    *)
LEMMA AfterStepSites ==
    ASSUME Inv, NEW step \in Step, StepSited(step, ledger), Applies(step), NEW i \in Id
    PROVE  /\ ~Named(step, i) => AfterStep(step)[i] = tower[i]
           /\ Does(step, i, "takeOut") => tower[i] # None /\ AfterStep(step)[i] = None
           /\ Does(step, i, "putBack") =>
                 tower[i] = None /\ AfterStep(step)[i] = Want(step, i)
           /\ Does(step, i, "restore") =>
                 tower[i] # None /\ AfterStep(step)[i].site = tower[i].site
           /\ Named(step, i) => \/ Does(step, i, "takeOut") \/ Does(step, i, "putBack")
                                \/ Does(step, i, "restore")
           /\ AfterStep(step)[i] # None => SitedIn(i, AfterStep(step)[i], ledger)
<1>1. CASE ~Named(step, i)
  BY <1>1 DEF AfterStep, Named, Does, Inv, TowerSited
<1>2. CASE Named(step, i)
  <2>1. /\ step.images[i] \in Image
        /\ step.images[i].do \in {"takeOut", "putBack", "restore"}
    BY <1>2 DEF Step, Named, Image
  <2>2. (tower[i] = None) = Does(step, i, "putBack")
    BY <1>2, AppliesExpected DEF Expected
  <2>3. tower[i] # None => SitedIn(i, tower[i], ledger) /\ tower[i] \in Item
    BY DEF Inv, TowerSited, TypeOK
  <2>4. SitedIn(i, Want(step, i), ledger) /\ step.images[i] # None
    BY <1>2 DEF StepSited, Named
  <2>5. /\ Does(step, i, "takeOut") = (step.images[i].do = "takeOut")
        /\ Does(step, i, "putBack") = (step.images[i].do = "putBack")
        /\ Does(step, i, "restore") = (step.images[i].do = "restore")
    BY <2>4 DEF Does
  <2>6. AfterStep(step)[i] =
          IF step.images[i].do = "takeOut" THEN None
          ELSE IF step.images[i].do = "putBack" THEN Want(step, i)
          ELSE Restored(tower[i], Want(step, i), Left(step, i))
    BY <1>2, <2>1, <2>5 DEF AfterStep
  <2>7. tower[i] # None =>
          Restored(tower[i], Want(step, i), Left(step, i)).site = tower[i].site
    BY <2>3 DEF Restored, Item
  <2>8. CASE step.images[i].do = "takeOut"
    BY <1>2, <2>2, <2>5, <2>6, <2>8
  <2>9. CASE step.images[i].do = "putBack"
    BY <1>2, <2>2, <2>4, <2>5, <2>6, <2>9
  <2>10. CASE step.images[i].do = "restore"
    BY <1>2, <2>2, <2>3, <2>5, <2>6, <2>7, <2>10 DEF SitedIn
  <2> QED
    BY <2>1, <2>8, <2>9, <2>10
<1> QED
  BY <1>1, <1>2

(* A step that applies leaves every item apart from the others.            *)
LEMMA AfterStepApart ==
    ASSUME Inv, NEW step \in Step, StepSited(step, ledger), StepApart(step, ledger),
           Applies(step),
           NEW i \in Id, NEW k \in Id,
           AfterStep(step)[i] # None, AfterStep(step)[k] # None,
           AfterStep(step)[i].site = AfterStep(step)[k].site
    PROVE  i = k
<1>1. ASSUME NEW m \in Id, AfterStep(step)[m] # None
      PROVE  /\ ~Does(step, m, "takeOut")
             /\ tower[m] # None \/ Does(step, m, "putBack")
             /\ Does(step, m, "putBack") => Named(step, m) /\ tower[m] = None
             /\ SitedIn(m, AfterStep(step)[m], ledger)
             /\ tower[m] # None => tower[m].site = ledger[m].site
             /\ Named(step, m) => Want(step, m).site = ledger[m].site
  BY <1>1, AfterStepSites DEF Inv, TowerSited, StepSited, SitedIn, Does, Named
<1>2. ledger[i].site = ledger[k].site
  BY <1>1 DEF SitedIn
<1>3. CASE tower[i] # None /\ tower[k] # None
  BY <1>1, <1>2, <1>3 DEF Inv, TowerStands, NoOverlap, Standing
<1>4. CASE Named(step, i) /\ Named(step, k)
  BY <1>1, <1>2, <1>4 DEF StepApart, Stays
<1>5. ASSUME NEW a \in Id, NEW b \in Id, AfterStep(step)[a] # None,
             AfterStep(step)[b] # None, ledger[a].site = ledger[b].site,
             Does(step, a, "putBack"), tower[b] # None, ~Named(step, b)
      PROVE  FALSE
  <2>1. HasRoom(step, a)
    BY <1>5, AppliesExpected DEF Barred, Does, Named
  <2>2. tower[b].site = Want(step, a).site
    BY <1>1, <1>5
  <2>3. Named(step, b)
    BY <1>5, <2>1, <2>2 DEF HasRoom, Standing, Does, Named
  <2> QED
    BY <1>5, <2>3
<1> QED
  BY <1>1, <1>2, <1>3, <1>4, <1>5

(* A step that applies leaves every item the floor it stands on.           *)
LEMMA AfterStepGrounded ==
    ASSUME Inv, NEW step \in Step, StepSited(step, ledger), Applies(step),
           NEW i \in Id, AfterStep(step)[i] # None, NEW f \in Rests[AfterStep(step)[i].site]
    PROVE  HeldAt(AfterStep(step), f)
<1>1. /\ \/ Does(step, i, "putBack") \/ Does(step, i, "restore") \/ ~Named(step, i)
      /\ Does(step, i, "putBack") \/ tower[i] # None
      /\ SitedIn(i, AfterStep(step)[i], ledger)
      /\ tower[i] # None => SitedIn(i, tower[i], ledger)
      /\ Named(step, i) => SitedIn(i, Want(step, i), ledger)
      /\ f \in Rests[ledger[i].site]
  BY AfterStepSites DEF StepSited, Inv, TowerSited, SitedIn
<1>2. Kind[f] = "floor"
  <2>1. ledger[i].site \in Site
    BY <1>1 DEF SitedIn, Inv, TypeOK, Entry
  <2> QED
    BY <1>1, <2>1, GeometryAssumption
<1>3. ASSUME Holds(step, f) PROVE HeldAt(AfterStep(step), f)
  <2>1. PICK k \in Id : \/ Does(step, k, "putBack") /\ Want(step, k).site = f
                        \/ /\ tower[k] # None /\ tower[k].site = f
                           /\ ~Does(step, k, "takeOut")
    BY <1>3 DEF Holds
  <2>2. SitedIn(k, tower[k], ledger) \/ tower[k] = None
    BY DEF Inv, TowerSited
  <2>3. AfterStep(step)[k] # None /\ AfterStep(step)[k].site = f
    <3>1. CASE Does(step, k, "putBack") /\ Want(step, k).site = f
      <4>1. Want(step, k) \in Item
        BY <3>1 DEF Step, Does, Want, Image
      <4> QED
        BY <3>1, <4>1, AfterStepSites, FactAssumption
    <3>2. CASE tower[k] # None /\ tower[k].site = f /\ ~Does(step, k, "takeOut")
      <4>1. ~Does(step, k, "putBack")
        BY <3>2, AfterStepSites
      <4>2. CASE ~Named(step, k)
        BY <3>2, <4>2, AfterStepSites
      <4>3. CASE Does(step, k, "restore")
        <5>1. AfterStep(step)[k] \in Item
          <6>1. Want(step, k) \in Item /\ Left(step, k) \in Item /\ tower[k] \in Item
            BY <3>2, <4>3 DEF Step, Does, Want, Left, Image, Inv, TypeOK
          <6>2. Restored(tower[k], Want(step, k), Left(step, k)) \in Item
            BY <6>1 DEF Restored, Item
          <6> QED
            BY <4>3, <6>2 DEF AfterStep, Does, Named
        <5> QED
          BY <3>2, <4>3, <5>1, AfterStepSites, FactAssumption
      <4> QED
        BY <3>2, <4>1, <4>2, <4>3, AfterStepSites
    <3> QED
      BY <2>1, <3>1, <3>2
  <2> QED
    BY <2>3 DEF HeldAt, Standing
<1>4. CASE Does(step, i, "putBack") \/ (Does(step, i, "restore") /\ OfShaft(step, i))
  <2>1. HasRoom(step, i)
    BY <1>4, AppliesExpected DEF Barred, Does, Named
  <2>2. Holds(step, f)
    <3>1. Named(step, i)
      BY <1>4 DEF Does, Named
    <3> QED
      BY <1>1, <2>1, <3>1 DEF HasRoom, Grounded, SitedIn
  <2> QED
    BY <1>3, <2>2
<1>5. CASE ~Named(step, i) \/ (Does(step, i, "restore") /\ ~OfShaft(step, i))
  <2>1. /\ tower[i] # None /\ ~Does(step, i, "takeOut")
        /\ tower[i].site = ledger[i].site
        /\ IsShaft(tower[i]) => ~Named(step, i)
    <3>1. ~Does(step, i, "putBack") /\ ~Does(step, i, "takeOut")
      BY <1>5 DEF Does, Named
    <3>2. tower[i] # None /\ tower[i].site = ledger[i].site
      BY <1>1, <3>1 DEF SitedIn
    <3>3. Named(step, i) => ~OfShaft(step, i) /\ Want(step, i).site = tower[i].site
      BY <1>1, <1>5, <3>2 DEF SitedIn
    <3>4. IsShaft(tower[i]) => ~Named(step, i)
      BY <3>3 DEF OfShaft, IsShaft, KindOf
    <3> QED
      BY <3>1, <3>2, <3>4
  <2>2. PICK m \in Id : tower[m] # None /\ tower[m].site = f
    BY <1>1, <2>1 DEF Inv, TowerStands, NothingHangs, Standing, HeldAt
  <2>3. CASE ~Does(step, m, "takeOut")
    BY <1>3, <2>2, <2>3 DEF Holds
  <2>4. CASE Does(step, m, "takeOut")
    <3>1. Named(step, m) /\ SitedIn(m, Want(step, m), ledger) /\ tower[m].site = ledger[m].site
      BY <2>2, <2>4 DEF Does, Named, StepSited, Inv, TowerSited, SitedIn
    <3>2. IsFloor(tower[m]) /\ ~OfShaft(step, m)
      BY <1>2, <2>2, <3>1 DEF IsFloor, OfShaft, IsShaft, KindOf, SitedIn
    <3>3. ~Hangs(step, m)
      <4>1. Expected(step, m) /\ ~Barred(step, m)
        BY <3>1, AppliesExpected
      <4> QED
        BY <2>4, <3>2, <4>1 DEF Barred
    <3>4. f \in Rests[tower[i].site]
      BY <1>1, <2>1
    <3>5. Laid(step, f)
      <4>1. i \in Standing(tower) /\ tower[m].site \in Rests[tower[i].site]
        BY <2>1, <2>2, <3>4 DEF Standing
      <4>2. IF IsShaft(tower[i]) THEN ~Named(step, i) ELSE ~Does(step, i, "takeOut")
        BY <2>1
      <4> QED
        BY <2>2, <3>3, <4>1, <4>2 DEF Hangs
    <3> QED
      BY <1>3, <3>5 DEF Laid, Holds
  <2> QED
    BY <2>3, <2>4
<1> QED
  BY <1>1, <1>4, <1>5

(* The opposite of a step that applies is as good as the step.             *)
LEMMA OppositeGood ==
    ASSUME Inv, NEW step \in Step, StepSited(step, ledger), Applies(step)
    PROVE  StepSited(Opposite(step), ledger) /\ StepApart(Opposite(step), ledger)
<1> DEFINE back == Opposite(step)
<1>1. \A i \in Id : back.images[i] = BackImage(step, i)
  BY DEF Opposite
<1> HIDE DEF back
<1>2. ASSUME NEW i \in Id, Named(back, i)
      PROVE  /\ Named(step, i)
             /\ Does(step, i, "putBack") => /\ Want(back, i) = Want(step, i)
                                            /\ Does(back, i, "takeOut")
             /\ ~Does(step, i, "putBack") => Want(back, i) = tower[i] /\ tower[i] # None
  <2>1. Named(step, i)
    BY <1>1, <1>2 DEF Named, BackImage
  <2>2. step.images[i] \in Image /\ step.images[i].do \in {"takeOut", "putBack", "restore"}
    BY <2>1 DEF Step, Named, Image
  <2>3. (tower[i] = None) = Does(step, i, "putBack")
    BY <2>1, AppliesExpected DEF Expected
  <2>4. /\ BackImage(step, i).want = IF step.images[i].do = "putBack"
                                     THEN Want(step, i) ELSE tower[i]
        /\ step.images[i].do = "putBack" => BackImage(step, i).do = "takeOut"
    BY <2>1, <2>2 DEF BackImage, Image, Want
  <2> QED
    BY <1>1, <1>2, <2>1, <2>3, <2>4 DEF Does, Named, Want
<1>3. StepSited(back, ledger)
  BY <1>2 DEF StepSited, Inv, TowerSited
<1>4. \A i \in Id : Stays(back, i) => tower[i] # None /\ tower[i].site = ledger[i].site
  BY <1>2 DEF Stays, Inv, TowerSited, SitedIn
<1>5. StepApart(back, ledger)
  BY <1>4 DEF StepApart, Inv, TowerStands, NoOverlap, Standing
<1> QED
  BY <1>3, <1>5 DEF back

(* With the journal off the tower, the invariant is about the rest.        *)
LEMMA OffTower ==
    ASSUME Inv, journal' = NoJournal, UNCHANGED <<nextId, ledger>>, TypeOK',
           TowerSited(tower', ledger), TowerStands',
           GoodSteps(undo', ledger), GoodSteps(redo', ledger), TrailBounded'
    PROVE  Inv'
<1>1. JournalSited(journal', ledger') /\ FoundApart(journal', tower', ledger')
  BY DEF NoJournal, JournalSited, FoundApart
<1> QED
  BY <1>1 DEF Inv

(* A step taken: it leaves one stack, `from`, and its opposite goes on the *)
(* other, `onto`.                                                          *)
LEMMA TakenInv ==
    ASSUME Inv, NEW from \in Seq(Step), NEW onto \in Seq(Step), from # <<>>,
           GoodSteps(from, ledger), GoodSteps(onto, ledger),
           Len(from) + Len(onto) <= UndoCap,
           Applies(Newest(from)), Take(Newest(from)), journal' = NoJournal,
           \/ undo' = Older(from) /\ redo' = Pushed(onto, Opposite(Newest(from)))
           \/ redo' = Older(from) /\ undo' = Pushed(onto, Opposite(Newest(from)))
    PROVE  Inv'
<1> DEFINE step == Newest(from)
<1>1. /\ step \in Step /\ StepSited(step, ledger) /\ StepApart(step, ledger)
      /\ Older(from) \in Seq(Step) /\ Len(Older(from)) = Len(from) - 1
      /\ GoodSteps(Older(from), ledger)
  BY NewestType, NewestGood
<1>2. /\ Applies(step) /\ Take(step)
      /\ \/ undo' = Older(from) /\ redo' = Pushed(onto, Opposite(step))
         \/ redo' = Older(from) /\ undo' = Pushed(onto, Opposite(step))
  OBVIOUS
<1> HIDE DEF step
<1>3. Opposite(step) \in Step
  BY <1>1, <1>2, OppositeType DEF Inv
<1>4. /\ Pushed(onto, Opposite(step)) \in Seq(Step)
      /\ Len(Pushed(onto, Opposite(step))) <= Len(onto) + 1
      /\ Len(Pushed(onto, Opposite(step))) \in Nat
  <2>1. Len(onto) \in Nat
    OBVIOUS
  <2>2. /\ Pushed(onto, Opposite(step)) \in Seq(Step)
        /\ Len(Pushed(onto, Opposite(step))) = IF Len(onto) < UndoCap THEN Len(onto) + 1
                                               ELSE Len(onto)
    BY <1>3, PushedType
  <2> QED
    BY <2>1, <2>2
<1>5. GoodSteps(Pushed(onto, Opposite(step)), ledger)
  BY <1>1, <1>2, <1>3, OppositeGood, PushedGood
<1>6. TrailBounded'
  <2>1. Len(from) \in Nat /\ Len(onto) \in Nat /\ UndoCap \in Nat
    BY NumberAssumption
  <2>2. Len(Older(from)) + Len(Pushed(onto, Opposite(step))) <= UndoCap
    BY <1>1, <1>4, <2>1
  <2>3. Len(Older(from)) \in Nat
    BY <1>1
  <2> DEFINE a == Len(Older(from))
             b == Len(Pushed(onto, Opposite(step)))
  <2>4. a + b <= UndoCap /\ b + a <= UndoCap
    <3>1. a \in Nat /\ b \in Nat
      BY <1>4, <2>3
    <3> QED BY <2>1, <2>2, <3>1
  <2>5. \/ undo' = Older(from) /\ redo' = Pushed(onto, Opposite(step))
        \/ undo' = Pushed(onto, Opposite(step)) /\ redo' = Older(from)
    BY <1>2
  <2>6. Len(undo') + Len(redo') <= UndoCap
    BY <2>4, <2>5
  <2> QED
    BY <2>6 DEF TrailBounded
<1>7. tower' = AfterStep(step) /\ UNCHANGED <<nextId, hours, dug, treasuresFound, ledger, outside>>
      /\ money' = money + step.money
  BY <1>2 DEF Take
<1>8. TypeOK'
  <2>1. tower' \in [Id -> Item \cup {None}]
    BY <1>1, <1>2, <1>7, AfterStepType DEF Inv
  <2>2. money' \in Int
    BY <1>1, <1>7 DEF Inv, TypeOK, Step
  <2>3. journal' \in Journal
    BY NumberAssumption DEF NoJournal, Journal
  <2> QED
    BY <1>1, <1>2, <1>4, <1>7, <2>1, <2>2, <2>3 DEF Inv, TypeOK
<1>9. TowerSited(tower', ledger)
  BY <1>1, <1>2, <1>7, AfterStepSites DEF TowerSited
<1>10. NoOverlap'
  BY <1>1, <1>2, <1>7, AfterStepApart DEF NoOverlap, Standing
<1>11. NothingHangs'
  BY <1>1, <1>2, <1>7, AfterStepGrounded DEF NothingHangs, Standing
<1> QED
  BY <1>1, <1>2, <1>5, <1>6, <1>7, <1>8, <1>9, <1>10, <1>11, OffTower DEF TowerStands

(* A step refused: the world stays, and steps may be dropped.              *)
LEMMA RefusedInv ==
    ASSUME Inv, journal' = NoJournal, UNCHANGED <<world, ledger, outside>>,
           undo' \in Seq(Step), redo' \in Seq(Step),
           GoodSteps(undo', ledger), GoodSteps(redo', ledger), TrailBounded'
    PROVE  Inv'
<1>1. journal' \in Journal
  BY NumberAssumption DEF NoJournal, Journal
<1>2. TypeOK'
  BY <1>1 DEF Inv, TypeOK, world
<1>3. TowerSited(tower', ledger) /\ TowerStands'
  BY DEF Inv, TowerStands, NoOverlap, NothingHangs, HeldAt, Standing, TowerSited, world
<1> QED
  BY <1>2, <1>3, OffTower DEF world

LEMMA UndoRedoInv ==
    ASSUME Inv, Undo \/ Redo
    PROVE  Inv'
<1> DEFINE U == UndoCommitted
           R == RedoCommitted
<1>1. /\ U \in Seq(Step) /\ R \in Seq(Step)
      /\ GoodSteps(U, ledger) /\ GoodSteps(R, ledger)
      /\ Len(U) \in Nat /\ Len(R) \in Nat /\ Len(U) + Len(R) <= UndoCap
  BY CommittedGood
<1>2. journal' = NoJournal
  BY DEF Undo, Redo
<1>3. CASE Undo
  <2>1. U # <<>> /\ Older(U) \in Seq(Step) /\ Len(Older(U)) = Len(U) - 1
        /\ GoodSteps(Older(U), ledger)
    BY <1>1, <1>3, NewestType, NewestGood DEF Undo
  <2>2. CASE /\ Applies(Newest(U)) /\ Take(Newest(U))
             /\ undo' = Older(U) /\ redo' = Pushed(R, Opposite(Newest(U)))
    <3> HIDE DEF U, R
    <3> QED
      BY <1>1, <1>2, <2>1, <2>2, TakenInv
  <2>3. CASE undo' \in {U, Older(U)} /\ redo' = R /\ UNCHANGED <<world, ledger, outside>>
    <3> HIDE DEF U, R
    <3>1. /\ undo' \in Seq(Step) /\ GoodSteps(undo', ledger)
          /\ redo' \in Seq(Step) /\ GoodSteps(redo', ledger)
          /\ Len(undo') <= Len(U) /\ Len(undo') \in Nat
      BY <1>1, <2>1, <2>3
    <3>2. TrailBounded'
      BY <1>1, <2>3, <3>1, NumberAssumption DEF TrailBounded
    <3> QED
      BY <1>2, <2>3, <3>1, <3>2, RefusedInv
  <2> QED
    BY <1>3, <2>2, <2>3 DEF Undo
<1>4. CASE Redo
  <2>1. R # <<>> /\ Older(R) \in Seq(Step) /\ Len(Older(R)) = Len(R) - 1
        /\ GoodSteps(Older(R), ledger)
    BY <1>1, <1>4, NewestType, NewestGood DEF Redo
  <2>2. CASE /\ Applies(Newest(R)) /\ Take(Newest(R))
             /\ redo' = Older(R) /\ undo' = Pushed(U, Opposite(Newest(R)))
    <3>1. Len(R) + Len(U) <= UndoCap
      BY <1>1
    <3> HIDE DEF U, R
    <3> QED
      BY <1>1, <1>2, <2>1, <2>2, <3>1, TakenInv
  <2>3. CASE redo' \in {R, <<>>} /\ undo' = U /\ UNCHANGED <<world, ledger, outside>>
    <3> HIDE DEF U, R
    <3>1. /\ redo' \in Seq(Step) /\ GoodSteps(redo', ledger)
          /\ undo' \in Seq(Step) /\ GoodSteps(undo', ledger)
          /\ Len(redo') <= Len(R) /\ Len(redo') \in Nat
      <4>1. <<>> \in Seq(Step) /\ Len(<<>>) = 0 /\ GoodSteps(<<>>, ledger)
        BY DEF GoodSteps
      <4>2. CASE redo' = R
        BY <1>1, <2>3, <4>2
      <4>3. CASE redo' = <<>>
        BY <1>1, <2>3, <4>1, <4>3
      <4> QED
        BY <2>3, <4>2, <4>3
    <3>2. TrailBounded'
      BY <1>1, <2>3, <3>1, NumberAssumption DEF TrailBounded
    <3> QED
      BY <1>2, <2>3, <3>1, <3>2, RefusedInv
  <2> QED
    BY <1>4, <2>2, <2>3 DEF Redo
<1> QED
  BY <1>3, <1>4

LEMMA StutterInv == Inv /\ UNCHANGED vars => Inv'
<1> SUFFICES ASSUME Inv, UNCHANGED vars PROVE Inv'
  OBVIOUS
<1>1. TypeOK'
  BY DEF vars, Inv, TypeOK
<1>2. TowerStands' /\ TrailBounded'
  BY DEF vars, Inv, TowerStands, NoOverlap, NothingHangs, HeldAt, Standing, TrailBounded
<1> QED
  BY <1>1, <1>2 DEF vars, Inv

-----------------------------------------------------------------------------
(* The theorems.                                                           *)

(* The invariant holds in every reachable state: an id names one build for *)
(* good, so whatever the journal and the trails remember, they remember    *)
(* of the build they name (Tower::next_id never goes back).                *)
THEOREM Invariant == Spec => []Inv
<1>1. Init => Inv
  BY InitInv
<1>2. Inv /\ [Next]_vars => Inv'
  <2> SUFFICES ASSUME Inv, [Next]_vars PROVE Inv'
    OBVIOUS
  <2>1. CASE Capture \/ Commit
    BY <2>1, CloseInv
  <2>2. CASE \E s \in Site : Build(s)
    BY <2>2, BuildInv
  <2>3. CASE \E i \in Id : Sell(i) \/ AddCar(i) \/ RemoveCar(i) \/ Reprice(i) \/ Rename(i)
    BY <2>3, SellInv, EditInv
  <2>4. CASE Advance
    BY <2>4, AdvanceInv
  <2>5. CASE Undo \/ Redo
    BY <2>5, UndoRedoInv
  <2>6. CASE Adopt
    BY <2>6, AdoptInv
  <2>7. CASE UNCHANGED vars
    BY <2>7, StutterInv
  <2> QED
    BY <2>1, <2>2, <2>3, <2>4, <2>5, <2>6, <2>7 DEF Next
<1> QED
  BY <1>1, <1>2, PTL DEF Spec

(* Every variable keeps its type.                                          *)
THEOREM TypeCorrect == Spec => []TypeOK
<1>1. Inv => TypeOK
  BY DEF Inv
<1> QED
  BY <1>1, Invariant, PTL

(* Undo and redo never stand one unit or shaft on another, or leave one    *)
(* without its floor, whatever lot, gestures and time between them         *)
(* (check_undo_step, Ground).                                              *)
THEOREM TowerAlwaysStands == Spec => []TowerStands
<1>1. Inv => TowerStands
  BY DEF Inv
<1> QED
  BY <1>1, Invariant, PTL

(* The two trails together never hold more than UNDO_CAP steps, so moving  *)
(* along them drops none (UndoHistory::push_undo, push_redo).              *)
THEOREM TrailsFit == Spec => []TrailBounded
<1>1. Inv => TrailBounded
  BY DEF Inv
<1> QED
  BY <1>1, Invariant, PTL

-----------------------------------------------------------------------------
(* A step and its opposite.                                                *)

\* An image and the image that reverses it.
LEMMA BackFacts ==
    ASSUME Inv, NEW step \in Step, StepSited(step, ledger), Applies(step), NEW i \in Id
    PROVE  LET back == Opposite(step) IN
           /\ ~Named(step, i) => ~Named(back, i)
           /\ Does(step, i, "takeOut") =>
                 /\ Does(back, i, "putBack") /\ ~Does(back, i, "takeOut")
                 /\ ~Does(back, i, "restore")
                 /\ Want(back, i) = tower[i] /\ Left(back, i) = tower[i]
           /\ Does(step, i, "putBack") =>
                 /\ Does(back, i, "takeOut") /\ ~Does(back, i, "putBack")
                 /\ ~Does(back, i, "restore")
                 /\ Want(back, i) = Want(step, i) /\ Left(back, i) = Want(step, i)
           /\ Does(step, i, "restore") =>
                 /\ Does(back, i, "restore") /\ ~Does(back, i, "takeOut")
                 /\ ~Does(back, i, "putBack")
                 /\ Want(back, i) = tower[i] /\ Left(back, i) = AfterStep(step)[i]
<1> DEFINE back == Opposite(step)
           image == step.images[i]
<1>1. back.images[i] = BackImage(step, i) /\ Opposite(step) \in Step
  BY OppositeType DEF Opposite, Inv
<1>2. CASE ~Named(step, i)
  <2>1. BackImage(step, i) = None
    BY <1>2 DEF BackImage
  <2> QED BY <1>1, <1>2, <2>1 DEF Named, Does
<1>3. CASE Named(step, i)
  <2>1. image \in Image /\ image.do \in {"takeOut", "putBack", "restore"} /\ image # None
    BY <1>3 DEF Step, Named, Image
  <2>2. BackImage(step, i) =
          IF image.do = "takeOut"
          THEN [image EXCEPT !.do = "putBack", !.want = tower[i], !.left = tower[i]]
          ELSE IF image.do = "putBack"
          THEN [image EXCEPT !.do = "takeOut", !.left = image.want]
          ELSE [image EXCEPT !.want = tower[i], !.left = AfterStep(step)[i],
                             !.built = IF OfShaft(step, i) THEN ~@ ELSE @]
    BY <1>3, <2>1 DEF BackImage
  <2>3. back.images[i] \in Image \cup {None}
    BY <1>1 DEF Step
  <2> HIDE DEF image
  <2>4. BackImage(step, i) # None
    <3>1. DOMAIN image = {"do", "want", "left", "built"}
      BY <2>1 DEF Image
    <3>2. tower[i] \in Item \cup {None} /\ AfterStep(step)[i] \in Item \cup {None}
      BY AfterStepType DEF Inv, TypeOK
    <3>3. (tower[i] = None) = (image.do = "putBack")
      BY <1>3, AppliesExpected DEF Expected, Does, Named, image
    <3>4. image.do = "restore" => AfterStep(step)[i] \in Item
      <4> HAVE image.do = "restore"
      <4>1. tower[i] \in Item /\ Want(step, i) \in Item /\ Left(step, i) \in Item
        BY <2>1, <3>2, <3>3 DEF Want, Left, Image, image
      <4>2. Restored(tower[i], Want(step, i), Left(step, i)) \in Item
        BY <4>1 DEF Restored, Item
      <4> QED BY <1>3, <4>2 DEF AfterStep, Does, image
    <3>5. BackImage(step, i) \in Image
      BY <2>1, <2>2, <3>2, <3>3, <3>4 DEF Image
    <3> QED BY <3>5, FactAssumption
  <2>5. /\ Does(step, i, "takeOut") = (image.do = "takeOut")
        /\ Does(step, i, "putBack") = (image.do = "putBack")
        /\ Does(step, i, "restore") = (image.do = "restore")
        /\ Want(step, i) = image.want
    BY <2>1 DEF Does, Want, image
  <2>6. \A do : Does(back, i, do) = (BackImage(step, i).do = do)
    BY <1>1, <2>4 DEF Does
  <2>7. Want(back, i) = BackImage(step, i).want /\ Left(back, i) = BackImage(step, i).left
    BY <1>1 DEF Want, Left
  <2>8. CASE image.do = "takeOut"
    <3>1. BackImage(step, i).do = "putBack" /\ BackImage(step, i).want = tower[i]
          /\ BackImage(step, i).left = tower[i]
      BY <2>1, <2>2, <2>8 DEF Image
    <3> QED BY <1>3, <2>5, <2>6, <2>7, <2>8, <3>1
  <2>9. CASE image.do = "putBack"
    <3>1. BackImage(step, i).do = "takeOut" /\ BackImage(step, i).want = image.want
          /\ BackImage(step, i).left = image.want
      BY <2>1, <2>2, <2>9 DEF Image
    <3> QED BY <1>3, <2>5, <2>6, <2>7, <2>9, <3>1
  <2>10. CASE image.do = "restore"
    <3>1. BackImage(step, i).do = "restore" /\ BackImage(step, i).want = tower[i]
          /\ BackImage(step, i).left = AfterStep(step)[i]
      BY <2>1, <2>2, <2>10 DEF Image
    <3> QED BY <1>3, <2>5, <2>6, <2>7, <2>10, <3>1
  <2> QED BY <2>1, <2>8, <2>9, <2>10
<1> QED BY <1>2, <1>3

\* Facts put back and put back again are as they were.
LEMMA RestoredTwice ==
    ASSUME NEW now \in Item, NEW want \in Item, NEW left \in Item
    PROVE  LET then == Restored(now, want, left) IN
           then \in Item /\ Restored(then, now, then) = now
<1> DEFINE then == Restored(now, want, left)
           again == Restored(then, now, then)
           Facts == {"site", "use", "sold", "rent", "name", "cars", "rides"}
<1>1. /\ then \in Item /\ DOMAIN now = Facts
      /\ then.site = now.site /\ then.use = now.use /\ then.sold = now.sold
      /\ then.rides = now.rides
  BY DEF Restored, Item
<1> HIDE DEF then
<1>2. again = [then EXCEPT !.rent = now.rent, !.name = now.name, !.cars = now.cars]
  <2>1. (IF PutsBack(now.rent, then.rent, then.rent) THEN now.rent ELSE then.rent) = now.rent
        /\ (IF PutsBack(now.name, then.name, then.name) THEN now.name ELSE then.name) = now.name
    BY DEF PutsBack
  <2> QED BY <1>1, <2>1 DEF Restored, Item
<1> HIDE DEF again
<1>3. /\ DOMAIN again = Facts /\ again.site = now.site /\ again.use = now.use
      /\ again.sold = now.sold /\ again.rent = now.rent /\ again.name = now.name
      /\ again.cars = now.cars /\ again.rides = now.rides
  BY <1>1, <1>2 DEF Item
<1>4. again = [f \in Facts |-> again[f]] /\ now = [f \in Facts |-> now[f]]
  <2>1. again = [f \in DOMAIN again |-> again[f]]
    BY <1>1, <1>2 DEF Item
  <2>2. now = [f \in DOMAIN now |-> now[f]]
    BY DEF Item
  <2> QED BY <1>1, <1>3, <2>1, <2>2
<1>5. \A f \in Facts : again[f] = now[f]
  BY <1>3
<1>6. again = now
  BY <1>4, <1>5
<1> QED BY <1>1, <1>6 DEF then, again

\* How the tower a step leaves, and the images that reverse the step,
\* stand to the tower it met.
LEMMA Reversed ==
    ASSUME Inv, Inv', NEW step \in Step, StepSited(step, ledger), Applies(step),
           tower' = AfterStep(step), NEW back, back = Opposite(step), NEW i \in Id
    PROVE  /\ tower[i] # None => tower[i] \in Item /\ tower[i].site = ledger[i].site
           /\ tower'[i] # None => tower'[i] \in Item /\ tower'[i].site = ledger[i].site
           /\ \/ Does(back, i, "putBack") /\ tower[i] # None /\ tower'[i] = None
              \/ Does(back, i, "takeOut") /\ tower[i] = None /\ tower'[i] # None
              \/ Does(back, i, "restore") /\ tower[i] # None /\ tower'[i] # None
              \/ ~Named(back, i) /\ tower'[i] = tower[i]
           /\ Does(back, i, "putBack") =>
                 /\ Does(step, i, "takeOut") /\ ~Does(back, i, "takeOut")
                 /\ ~Does(back, i, "restore") /\ Named(back, i)
                 /\ Want(back, i) = tower[i] /\ Left(back, i) = tower[i]
           /\ Does(back, i, "takeOut") =>
                 /\ Does(step, i, "putBack") /\ ~Does(back, i, "putBack")
                 /\ ~Does(back, i, "restore") /\ Named(back, i)
                 /\ Want(back, i) = tower'[i] /\ Left(back, i) = tower'[i]
                 /\ Want(step, i) = tower'[i]
           /\ Does(back, i, "restore") =>
                 /\ Does(step, i, "restore") /\ ~Does(back, i, "putBack")
                 /\ ~Does(back, i, "takeOut") /\ Named(back, i)
                 /\ Want(back, i) = tower[i] /\ Left(back, i) = tower'[i]
                 /\ tower'[i] = Restored(tower[i], Want(step, i), Left(step, i))
<1>1. /\ tower[i] # None => tower[i] \in Item /\ tower[i].site = ledger[i].site
      /\ tower[i] \in Item \cup {None} /\ tower'[i] \in Item \cup {None}
  BY DEF Inv, TypeOK, TowerSited, SitedIn
<1>2. tower'[i] # None => tower'[i] \in Item /\ tower'[i].site = ledger[i].site
  BY <1>1, AfterStepSites DEF SitedIn
<1>3. /\ Named(step, i) => \/ Does(step, i, "takeOut") \/ Does(step, i, "putBack")
                           \/ Does(step, i, "restore")
      /\ ~Named(back, i) \/ Named(back, i)
      /\ \A do : Does(back, i, do) => Named(back, i)
      /\ \A do : Does(step, i, do) => Named(step, i)
  BY AfterStepSites DEF Does, Named
<1>4. CASE ~Named(step, i)
  <2>1. ~Named(back, i) /\ tower'[i] = tower[i]
    BY <1>4, BackFacts, AfterStepSites
  <2> QED BY <1>1, <1>2, <1>3, <2>1
<1>5. CASE Does(step, i, "takeOut")
  <2>1. /\ Does(back, i, "putBack") /\ ~Does(back, i, "takeOut")
        /\ ~Does(back, i, "restore")
        /\ Want(back, i) = tower[i] /\ Left(back, i) = tower[i]
        /\ tower[i] # None /\ tower'[i] = None
    BY <1>5, BackFacts, AfterStepSites
  <2> QED BY <1>1, <1>2, <1>3, <1>5, <2>1
<1>6. CASE Does(step, i, "putBack")
  <2>1. /\ Does(back, i, "takeOut") /\ ~Does(back, i, "putBack")
        /\ ~Does(back, i, "restore")
        /\ Want(back, i) = Want(step, i) /\ Left(back, i) = Want(step, i)
        /\ tower[i] = None /\ tower'[i] = Want(step, i)
    BY <1>6, BackFacts, AfterStepSites
  <2>2. Want(step, i) \in Item
    BY <1>6 DEF Step, Does, Want, Image
  <2>3. Want(step, i) # None
    BY <2>2, FactAssumption
  <2> QED BY <1>1, <1>2, <1>3, <1>6, <2>1, <2>3
<1>7. CASE Does(step, i, "restore")
  <2>1. /\ Does(back, i, "restore") /\ ~Does(back, i, "takeOut")
        /\ ~Does(back, i, "putBack")
        /\ Want(back, i) = tower[i] /\ Left(back, i) = tower'[i]
        /\ tower[i] # None
    BY <1>7, BackFacts, AfterStepSites
  <2>2. tower'[i] = Restored(tower[i], Want(step, i), Left(step, i))
    BY <1>7 DEF AfterStep, Does, Named
  <2>3. Want(step, i) \in Item /\ Left(step, i) \in Item
    BY <1>7 DEF Step, Does, Want, Left, Image
  <2>4. tower'[i] \in Item
    BY <1>1, <2>1, <2>2, <2>3, RestoredTwice
  <2>5. tower'[i] # None
    BY <2>4, FactAssumption
  <2> QED BY <1>1, <1>2, <1>3, <1>7, <2>1, <2>2, <2>5
<1> QED BY <1>3, <1>4, <1>5, <1>6, <1>7

\* Where an item stood before the step, the floor it needs is there once
\* the step is reversed.
LEMMA GroundedBack ==
    ASSUME Inv, Inv', NEW step \in Step, StepSited(step, ledger), Applies(step),
           tower' = AfterStep(step), NEW back, back = Opposite(step),
           NEW i \in Standing(tower), NEW x, x = tower[i]
    PROVE  Grounded(back, x)'
<1> SUFFICES ASSUME NEW f \in Rests[tower[i].site]
             PROVE  Holds(back, f)'
  <2>1. \A f \in Rests[x.site] : Holds(back, f)'
    OBVIOUS
  <2> QED BY <2>1 DEF Grounded
<1>1. PICK k \in Standing(tower) : tower[k].site = f
  BY DEF Inv, TowerStands, NothingHangs, HeldAt
<1>2. k \in Id /\ tower[k] # None
  BY <1>1 DEF Standing
<1>3. CASE Does(back, k, "putBack")
  <2>1. Want(back, k) = tower[k]
    BY <1>2, <1>3, Reversed
  <2> QED BY <1>1, <1>2, <1>3, <2>1 DEF Holds
<1>4. CASE ~Does(back, k, "putBack")
  <2>1. tower'[k] # None /\ ~Does(back, k, "takeOut") /\ tower'[k].site = tower[k].site
    <3>1. tower'[k] # None /\ (Does(back, k, "restore") \/ ~Named(back, k))
      BY <1>2, <1>4, Reversed
    <3>2. ~Does(back, k, "takeOut")
      BY <1>2, <3>1, Reversed DEF Does, Named
    <3> QED BY <1>2, <3>1, <3>2, Reversed
  <2> QED BY <1>1, <1>2, <2>1 DEF Holds
<1> QED BY <1>3, <1>4

\* Nothing bars the opposite step, and it gives back the tower.
LEMMA Reverses ==
    ASSUME Inv, Inv', NEW step \in Step, StepSited(step, ledger), Applies(step),
           tower' = AfterStep(step), UNCHANGED <<hours, ledger>>,
           NEW back, back = Opposite(step)
    PROVE  ~Lasting(back)' /\ AfterStep(back)' = tower
<1>1. back.searched = FALSE /\ back.usedInGesture = FALSE /\ back.hour = hours
      /\ back.held = [k \in Kinds |-> Count(tower', k)]
  BY DEF Opposite
<1>2. ASSUME NEW i \in Id, Named(back, i) PROVE Expected(back, i)'
  <2>1. (tower'[i] = None) = Does(back, i, "putBack")
    BY <1>2, Reversed DEF Does
  <2>2. tower'[i] # None => Left(back, i) = tower'[i]
    BY <1>2, Reversed
  <2> QED BY <2>1, <2>2 DEF Expected
<1>3. ASSUME NEW i \in Id, Does(back, i, "takeOut"), OfShaft(back, i)
      PROVE  ~UsedShaft(back, i)'
  <2>1. Left(back, i) = tower'[i]
    BY <1>3, Reversed
  <2> QED BY <1>1, <2>1 DEF UsedShaft
<1>4. ASSUME NEW i \in Id, Does(back, i, "takeOut"), ~OfShaft(back, i)
      PROVE  ~UsedUnit(back, i)' /\ ~(IsFloor(tower'[i]) /\ Hangs(back, i)')
  <2>1. /\ Left(back, i) = tower'[i] /\ Want(back, i) = tower'[i]
        /\ Does(step, i, "putBack") /\ Want(step, i) = tower'[i]
        /\ tower'[i] # None /\ tower'[i].site = ledger[i].site
        /\ tower[i] = None
    BY <1>4, Reversed, AfterStepSites
  <2>2. ~UsedUnit(back, i)'
    BY <1>1, <2>1 DEF UsedUnit
  <2>3. ASSUME Hangs(back, i)' PROVE FALSE
    <3>1. PICK k \in Standing(tower') :
            /\ tower'[i].site \in Rests[tower'[k].site]
            /\ IF IsShaft(tower'[k]) THEN ~Named(back, k) ELSE ~Does(back, k, "takeOut")
      BY <2>3 DEF Hangs
    <3>2. k \in Id /\ tower'[k] # None /\ ~Does(back, k, "takeOut")
      <4>1. k \in Id /\ tower'[k] # None
        BY <3>1 DEF Standing
      <4>2. Does(back, k, "takeOut") => Named(back, k)
        BY DEF Does, Named
      <4> QED BY <3>1, <4>1, <4>2
    <3>3. tower[k] # None /\ tower[k].site = tower'[k].site
      BY <3>2, Reversed
    <3>4. PICK m \in Standing(tower) : tower[m].site = tower'[i].site
      BY <3>1, <3>2, <3>3 DEF Inv, TowerStands, NothingHangs, HeldAt, Standing
    <3>5. HasRoom(step, i) /\ ~OfShaft(step, i)
      <4>1. ~Barred(step, i) /\ Expected(step, i)
        BY <2>1, AppliesExpected DEF Does, Named
      <4>2. ~OfShaft(step, i)
        BY <1>4, <2>1 DEF OfShaft
      <4> QED BY <2>1, <4>1, <4>2 DEF Barred
    <3>6. Does(step, m, "takeOut")
      BY <2>1, <3>4, <3>5 DEF HasRoom
    <3>7. m \in Id /\ Does(back, m, "putBack") /\ Want(back, m) = tower[m]
      BY <3>4, <3>6, BackFacts DEF Standing
    <3>8. Laid(back, tower'[i].site)
      BY <3>4, <3>7 DEF Laid
    <3> QED BY <2>3, <3>8 DEF Hangs
  <2> QED BY <2>2, <2>3
<1>5. ASSUME NEW i \in Id, \/ Does(back, i, "putBack")
                           \/ Does(back, i, "restore") /\ OfShaft(back, i)
      PROVE  HasRoom(back, i)'
  <2> DEFINE x == Want(back, i)
  <2>1. /\ i \in Standing(tower) /\ Want(back, i) = tower[i] /\ Named(back, i)
        /\ tower[i].site = ledger[i].site
        /\ Does(back, i, "putBack") => tower'[i] = None
        /\ tower'[i] # None => tower'[i].site = ledger[i].site
    BY <1>5, Reversed DEF Standing
  <2>2. Grounded(back, x)'
    <3> HIDE DEF x
    <3>1. ASSUME NEW y, y = tower[i] PROVE Grounded(back, y)'
      BY <2>1, <3>1, GroundedBack
    <3>2. x = tower[i]
      BY <2>1 DEF x
    <3> QED BY <3>1, <3>2
  <2>3. ASSUME NEW k \in Standing(tower'), tower'[k].site = tower[i].site
        PROVE  IF OfShaft(back, i) THEN Named(back, k) ELSE Does(back, k, "takeOut")
    <3>1. k \in Id /\ tower'[k] # None
      BY <2>3 DEF Standing
    <3>2. CASE tower[k] = None
      <4>1. Does(back, k, "takeOut") /\ Named(back, k)
        BY <3>1, <3>2, Reversed
      <4> QED BY <4>1
    <3>3. CASE tower[k] # None
      <4>1. tower[k].site = tower[i].site /\ k \in Standing(tower)
        BY <2>3, <3>1, <3>3, Reversed DEF Standing
      <4>2. k = i
        <5>1. NoOverlap
          BY DEF Inv, TowerStands
        <5> QED BY <2>1, <4>1, <5>1 DEF NoOverlap
      <4>3. Does(back, i, "restore") /\ OfShaft(back, i)
        <5>1. tower'[i] # None
          BY <3>1, <4>2
        <5> QED BY <1>5, <2>1, <5>1
      <4> QED BY <2>1, <4>2, <4>3
    <3> QED BY <3>2, <3>3
  <2> QED BY <2>1, <2>2, <2>3 DEF HasRoom
<1>6. ASSUME NEW i \in Id, Does(back, i, "restore"), OfShaft(back, i)
      PROVE  ~UsedShaft(back, i)'
  <2>1. Left(back, i) = tower'[i]
    BY <1>6, Reversed
  <2> QED BY <1>1, <2>1 DEF UsedShaft
<1>7. ASSUME NEW i \in Id, Does(back, i, "restore"), ~OfShaft(back, i)
      PROVE  ~RepricesSold(back, i)'
  <2>1. /\ Want(back, i) = tower[i] /\ Left(back, i) = tower'[i]
        /\ Does(step, i, "restore") /\ tower[i] \in Item
        /\ tower'[i] = Restored(tower[i], Want(step, i), Left(step, i))
        /\ tower[i].site = ledger[i].site /\ tower'[i].site = ledger[i].site
    BY <1>7, Reversed
  <2>2. ~OfShaft(step, i) /\ Named(step, i)
    BY <1>7, <2>1 DEF OfShaft, IsShaft, KindOf, StepSited, SitedIn, Does, Named
  <2>3. ~RepricesSold(step, i)
    <3>1. ~Barred(step, i) /\ Expected(step, i)
      BY <2>2, AppliesExpected
    <3> QED BY <2>1, <2>2, <3>1 DEF Barred
  <2>4. /\ tower'[i].sold = tower[i].sold
        /\ tower'[i].rent = IF PutsBack(Want(step, i).rent, Left(step, i).rent, tower[i].rent)
                            THEN Want(step, i).rent ELSE tower[i].rent
    BY <2>1 DEF Restored, Item
  <2>5. CASE PutsBack(Want(step, i).rent, Left(step, i).rent, tower[i].rent)
    <3>1. ~(KindOf(tower[i]) = "condo" /\ tower[i].sold)
      BY <2>3, <2>5 DEF RepricesSold
    <3> QED BY <2>1, <2>4, <3>1 DEF RepricesSold, KindOf
  <2>6. CASE ~PutsBack(Want(step, i).rent, Left(step, i).rent, tower[i].rent)
    BY <2>1, <2>4, <2>6 DEF RepricesSold, PutsBack
  <2> QED BY <2>5, <2>6
<1>8. ASSUME NEW i \in Id, Named(back, i) PROVE ~Barred(back, i)'
  BY <1>2, <1>3, <1>4, <1>5, <1>6, <1>7, <1>8 DEF Barred
<1>9. WithinCaps(back)'
  <2>1. \A k \in Kinds : Count(tower', k) \in Nat /\ back.held[k] = Count(tower', k)
    <3> SUFFICES ASSUME NEW k \in Kinds
                 PROVE  Count(tower', k) \in Nat /\ back.held[k] = Count(tower', k)
      OBVIOUS
    <3>1. tower' \in [Id -> Item \cup {None}]
      BY DEF Inv, TypeOK
    <3>2. Count(tower', k) \in 0..MaxId
      BY <3>1, CountType
    <3> QED BY <1>1, <3>2, NumberAssumption
  <2> QED BY <2>1 DEF WithinCaps
<1>10. ~Lasting(back)'
  BY <1>1, <1>8, <1>9 DEF Lasting
<1>11. ASSUME NEW i \in Id PROVE AfterStep(back)'[i] = tower[i]
  <2>1. CASE Does(back, i, "restore")
    <3>1. /\ Want(back, i) = tower[i] /\ Left(back, i) = tower'[i]
          /\ Does(step, i, "restore") /\ tower[i] \in Item /\ Named(back, i)
          /\ ~Does(back, i, "takeOut") /\ ~Does(back, i, "putBack")
          /\ tower'[i] = Restored(tower[i], Want(step, i), Left(step, i))
      BY <2>1, Reversed
    <3>2. Want(step, i) \in Item /\ Left(step, i) \in Item
      BY <3>1 DEF Step, Does, Want, Left, Image
    <3>3. Restored(tower'[i], Want(back, i), Left(back, i)) = tower[i]
      BY <3>1, <3>2, RestoredTwice
    <3> QED BY <3>1, <3>3 DEF AfterStep
  <2>2. CASE Does(back, i, "takeOut")
    <3>1. Named(back, i) /\ tower[i] = None
      BY <2>2, Reversed
    <3> QED BY <2>2, <3>1 DEF AfterStep, Does
  <2>3. CASE Does(back, i, "putBack")
    <3>1. Named(back, i) /\ Want(back, i) = tower[i]
      BY <2>3, Reversed
    <3> QED BY <2>3, <3>1 DEF AfterStep, Does
  <2>4. CASE ~Named(back, i)
    <3>1. tower'[i] = tower[i]
      BY <2>4, Reversed DEF Does, Named
    <3> QED BY <2>4, <3>1 DEF AfterStep
  <2> QED BY <2>1, <2>2, <2>3, <2>4, Reversed
<1>12. AfterStep(back)' = tower
  <2>1. DOMAIN tower = Id /\ tower = [i \in Id |-> tower[i]]
    BY DEF Inv, TypeOK
  <2>2. AfterStep(back)' = [i \in Id |-> AfterStep(back)'[i]]
    BY DEF AfterStep
  <2> QED BY <1>11, <2>1, <2>2
<1> QED BY <1>10, <1>12

\* The step pushed last is the newest.
LEMMA PushedNewest ==
    ASSUME NEW stack \in Seq(Step), NEW step \in Step
    PROVE  Newest(Pushed(stack, step)) = step
<1>1. CASE Len(stack) < UndoCap
  BY <1>1 DEF Pushed, Newest
<1>2. CASE ~(Len(stack) < UndoCap)
  <2>1. stack # <<>>
    BY <1>2, NumberAssumption
  <2>2. Tail(stack) \in Seq(Step)
    BY <2>1
  <2> DEFINE rest == Tail(stack)
  <2> HIDE DEF rest
  <2>3. Newest(Append(rest, step)) = step
    BY <2>2 DEF Newest, rest
  <2> QED BY <1>2, <2>3 DEF Pushed, rest
<1> QED BY <1>1, <1>2

\* A step taken leaves its opposite ready, and the opposite gives back the
\* tower and the balance.
LEMMA TakenReverses ==
    ASSUME Inv, Inv', NEW step \in Step, StepSited(step, ledger), Applies(step), Take(step),
           NEW onto \in Seq(Step)
    PROVE  /\ redo' = Pushed(onto, Opposite(step)) => TakesBack(redo)
           /\ undo' = Pushed(onto, Opposite(step)) => TakesBack(undo)
<1>1. /\ tower' = AfterStep(step) /\ UNCHANGED <<hours, ledger>>
      /\ money' = money + step.money
  BY DEF Take
<1>2. \A back : back = Opposite(step) => ~Lasting(back)' /\ AfterStep(back)' = tower
  BY <1>1, Reverses
<1>3. Newest(Pushed(onto, Opposite(step))) = Opposite(step)
  BY OppositeType, PushedNewest DEF Inv
<1>4. money' + Opposite(step).money = money
  <2>1. money \in Int /\ step.money \in Int
    BY DEF Inv, TypeOK, Step
  <2> QED BY <1>1, <2>1 DEF Opposite
<1>5. ASSUME redo' = Pushed(onto, Opposite(step)) PROVE TakesBack(redo)
  <2>1. Newest(redo)' = Opposite(step)
    BY <1>3, <1>5 DEF Newest
  <2>2. ~Lasting(Newest(redo))' /\ AfterStep(Newest(redo))' = tower
    BY <1>2, <2>1
  <2>3. (money + Newest(redo).money)' = money
    BY <1>4, <2>1
  <2> QED BY <2>2, <2>3 DEF TakesBack
<1>6. ASSUME undo' = Pushed(onto, Opposite(step)) PROVE TakesBack(undo)
  <2>1. Newest(undo)' = Opposite(step)
    BY <1>3, <1>6 DEF Newest
  <2>2. ~Lasting(Newest(undo))' /\ AfterStep(Newest(undo))' = tower
    BY <1>2, <2>1
  <2>3. (money + Newest(undo).money)' = money
    BY <1>4, <2>1
  <2> QED BY <2>2, <2>3 DEF TakesBack
<1> QED BY <1>5, <1>6

(* Directly after an undo or a redo applied, nothing bars the way back for *)
(* good, and it leads to the very tower and balance it came from, whatever *)
(* the lot and the edits before it (apply_undo_step answers the step that  *)
(* reverses it).                                                           *)
THEOREM StepsTakeBack == Spec => StepReverses
<1> DEFINE A == /\ Undo /\ redo' # RedoCommitted => TakesBack(redo)
                /\ Redo /\ undo' # UndoCommitted => TakesBack(undo)
<1>1. ASSUME Inv, Inv', Undo, redo' # RedoCommitted PROVE TakesBack(redo)
  <2> DEFINE step == Newest(UndoCommitted)
  <2>1. step \in Step /\ StepSited(step, ledger)
    BY <1>1, CommittedGood, NewestType, NewestGood DEF Undo
  <2>2. Applies(step) /\ Take(step) /\ redo' = Pushed(RedoCommitted, Opposite(step))
    BY <1>1 DEF Undo
  <2>3. RedoCommitted \in Seq(Step)
    BY <1>1, CommittedGood
  <2> HIDE DEF step
  <2> QED BY <1>1, <2>1, <2>2, <2>3, TakenReverses
<1>2. ASSUME Inv, Inv', Redo, undo' # UndoCommitted PROVE TakesBack(undo)
  <2> DEFINE step == Newest(RedoCommitted)
  <2>1. step \in Step /\ StepSited(step, ledger)
    BY <1>2, CommittedGood, NewestType, NewestGood DEF Redo
  <2>2. Applies(step) /\ Take(step) /\ undo' = Pushed(UndoCommitted, Opposite(step))
    BY <1>2 DEF Redo
  <2>3. UndoCommitted \in Seq(Step)
    BY <1>2, CommittedGood
  <2> HIDE DEF step
  <2> QED BY <1>2, <2>1, <2>2, <2>3, TakenReverses
<1>3. Inv /\ Inv' => [A]_vars
  BY <1>1, <1>2
<1>4. Spec => [][A]_vars
  <2> HIDE DEF A
  <2> QED BY <1>3, Invariant, PTL
<1> QED BY <1>4 DEF StepReverses

-----------------------------------------------------------------------------
(* The build caps.                                                         *)

(* The items of a kind that stand, that the open gesture found, and that a *)
(* step puts back or takes out.                                            *)
Of(t, k)          == {i \in Standing(t) : KindOf(t[i]) = k}
Found(j, t, led, k) == {i \in Id : WasFound(j, t, i) /\ Kind[led[i].site] = k}
Doing(step, do, k) == {i \in Id : Does(step, i, do) /\ KindOf(Want(step, i)) = k}

(* Taken from the tower it was made on, a step keeps the caps.             *)
StepCapped(step) ==
    \A k \in Kinds : step.held[k] + Cardinality(Doing(step, "putBack", k))
                       <= Limit(k) + Cardinality(Doing(step, "takeOut", k))
Capped(stack) == \A m \in DOMAIN stack : StepCapped(stack[m])

(* The tower, the tower the gesture began with, and every step keep them.  *)
CapInv ==
    /\ CapsKept
    /\ journal.open =>
          \A k \in Kinds : Cardinality(Found(journal, tower, ledger, k)) <= Limit(k)
    /\ Capped(undo) /\ Capped(redo)

\* The limit is the cap, or more.
LEMMA LimitFacts ==
    ASSUME NEW k \in Kinds
    PROVE  /\ Limit(k) \in Nat /\ KindCap[k] \in Nat /\ KindCap[k] <= Limit(k)
           /\ Count(StartTower, k) <= Limit(k)
<1> DEFINE C == Count(StartTower, k)
<1>1. C \in Nat
  <2>1. IsFiniteSet(Id)
    BY FS_Interval, NumberAssumption DEF Id
  <2> DEFINE A == {i \in Standing(StartTower) : KindOf(StartTower[i]) = k}
  <2>2. A \subseteq Id
    BY DEF Standing
  <2> HIDE DEF A
  <2>3. IsFiniteSet(A)
    BY <2>1, <2>2, FS_Subset
  <2>4. Cardinality(A) \in Nat
    BY <2>3, FS_CardinalityType
  <2> QED BY <2>4 DEF A, Count
<1>2. KindCap[k] \in Nat
  BY NumberAssumption
<1>3. Limit(k) = IF C > KindCap[k] THEN C ELSE KindCap[k]
  BY DEF Limit
<1> HIDE DEF C
<1>4. Limit(k) \in Nat /\ KindCap[k] <= Limit(k) /\ C <= Limit(k)
  BY <1>1, <1>2, <1>3
<1> QED BY <1>2, <1>4 DEF C

\* Sizes of sets of ids.
LEMMA Counting ==
    ASSUME NEW A \in SUBSET Id, NEW B \in SUBSET Id
    PROVE  /\ Cardinality(A) \in Nat
           /\ A \subseteq B => Cardinality(A) <= Cardinality(B)
           /\ Cardinality(A \cup B) <= Cardinality(A) + Cardinality(B)
           /\ A \cap B = {} => Cardinality(A \cup B) = Cardinality(A) + Cardinality(B)
<1>1. IsFiniteSet(Id)
  BY FS_Interval, NumberAssumption DEF Id
<1>2. IsFiniteSet(A) /\ IsFiniteSet(B)
  BY <1>1, FS_Subset
<1>3. /\ Cardinality(A) \in Nat /\ Cardinality(B) \in Nat
  BY <1>2, FS_CardinalityType
<1>4. Cardinality(A \cap B) \in Nat
  <2>1. IsFiniteSet(A \cap B)
    BY <1>2, FS_Subset
  <2> QED BY <2>1, FS_CardinalityType
<1>5. Cardinality(A \cup B) = Cardinality(A) + Cardinality(B) - Cardinality(A \cap B)
  BY <1>2, FS_Union
<1>6. A \subseteq B => Cardinality(A) <= Cardinality(B)
  BY <1>2, FS_Subset
<1>7. A \cap B = {} => Cardinality(A \cap B) = 0
  BY FS_EmptySet
<1> QED BY <1>3, <1>4, <1>5, <1>6, <1>7

\* What the stacks hold once a step is pushed, or the newest taken off.
LEMMA PushedHolds ==
    ASSUME NEW stack \in Seq(Step), NEW step \in Step,
           NEW m \in DOMAIN Pushed(stack, step)
    PROVE  Pushed(stack, step)[m] = step
             \/ \E n \in DOMAIN stack : Pushed(stack, step)[m] = stack[n]
<1>1. CASE Len(stack) < UndoCap
  BY <1>1 DEF Pushed
<1>2. CASE ~(Len(stack) < UndoCap)
  <2>1. stack # <<>>
    BY <1>2, NumberAssumption
  <2> DEFINE rest == Tail(stack)
  <2>2. /\ rest \in Seq(Step) /\ Len(rest) = Len(stack) - 1
        /\ \A n \in DOMAIN rest : n + 1 \in DOMAIN stack /\ rest[n] = stack[n + 1]
    BY <2>1
  <2> HIDE DEF rest
  <2>3. m \in DOMAIN Append(rest, step) /\ Pushed(stack, step) = Append(rest, step)
    BY <1>2 DEF Pushed, rest
  <2>4. Append(rest, step)[m] = step
          \/ (m \in DOMAIN rest /\ Append(rest, step)[m] = rest[m])
    BY <2>2, <2>3
  <2> QED BY <2>2, <2>3, <2>4
<1> QED BY <1>1, <1>2

LEMMA PushedCapped ==
    ASSUME NEW stack \in Seq(Step), NEW step \in Step, Capped(stack), StepCapped(step)
    PROVE  Capped(Pushed(stack, step))
  BY PushedHolds DEF Capped

LEMMA NewestCapped ==
    ASSUME NEW stack \in Seq(Step), stack # <<>>, Capped(stack)
    PROVE  StepCapped(Newest(stack)) /\ Capped(Older(stack))
<1>1. Len(stack) \in DOMAIN stack
  OBVIOUS
<1> QED BY <1>1, NewestType DEF Capped, Newest

\* A step changes the number of items of a kind by what it puts back and
\* takes out.
LEMMA AfterStepCount ==
    ASSUME Inv, NEW step \in Step, StepSited(step, ledger), Applies(step), NEW k \in Kinds
    PROVE  /\ Count(AfterStep(step), k) + Cardinality(Doing(step, "takeOut", k))
                = Count(tower, k) + Cardinality(Doing(step, "putBack", k))
           /\ Adds(step, k) = Cardinality(Doing(step, "putBack", k))
                              - Cardinality(Doing(step, "takeOut", k))
<1> DEFINE P == Doing(step, "putBack", k)
           T == Doing(step, "takeOut", k)
           S == Of(tower, k)
           N == Of(AfterStep(step), k)
<1>1. ASSUME NEW i \in Id
      PROVE  /\ i \in P => i \notin T /\ i \notin S /\ i \in N
             /\ i \in T => i \in S /\ i \notin N
             /\ i \notin P /\ i \notin T => (i \in N <=> i \in S)
  <2>1. /\ Named(step, i) => KindOf(Want(step, i)) = Kind[ledger[i].site]
        /\ tower[i] # None => KindOf(tower[i]) = Kind[ledger[i].site]
        /\ AfterStep(step)[i] # None => KindOf(AfterStep(step)[i]) = Kind[ledger[i].site]
    BY AfterStepSites DEF Inv, TowerSited, StepSited, SitedIn, KindOf
  <2>2. /\ i \in P <=> Does(step, i, "putBack") /\ KindOf(Want(step, i)) = k
        /\ i \in T <=> Does(step, i, "takeOut") /\ KindOf(Want(step, i)) = k
        /\ i \in S <=> tower[i] # None /\ KindOf(tower[i]) = k
        /\ i \in N <=> AfterStep(step)[i] # None /\ KindOf(AfterStep(step)[i]) = k
    BY DEF Doing, Of, Standing
  <2>3. CASE ~Named(step, i)
    <3>1. AfterStep(step)[i] = tower[i] /\ i \notin P /\ i \notin T
      BY <2>2, <2>3, AfterStepSites DEF Does, Named
    <3> QED BY <2>2, <3>1
  <2>4. CASE Does(step, i, "putBack")
    <3>1. /\ tower[i] = None /\ AfterStep(step)[i] = Want(step, i)
          /\ ~Does(step, i, "takeOut") /\ Named(step, i)
      BY <2>4, AfterStepSites DEF Does, Named
    <3>2. Want(step, i) # None
      <4>1. Want(step, i) \in Item
        BY <2>4 DEF Step, Does, Want, Image
      <4> QED BY <4>1, FactAssumption
    <3> QED BY <2>1, <2>2, <2>4, <3>1, <3>2
  <2>5. CASE Does(step, i, "takeOut")
    <3>1. /\ tower[i] # None /\ AfterStep(step)[i] = None
          /\ ~Does(step, i, "putBack") /\ Named(step, i)
      BY <2>5, AfterStepSites DEF Does, Named
    <3> QED BY <2>1, <2>2, <2>5, <3>1
  <2>6. CASE Does(step, i, "restore")
    <3>1. /\ tower[i] # None /\ ~Does(step, i, "putBack") /\ ~Does(step, i, "takeOut")
      BY <2>6, AfterStepSites DEF Does
    <3>2. AfterStep(step)[i] # None
      <4>1. Want(step, i) \in Item /\ Left(step, i) \in Item /\ tower[i] \in Item
        BY <2>6, <3>1 DEF Step, Does, Want, Left, Image, Inv, TypeOK
      <4>2. Restored(tower[i], Want(step, i), Left(step, i)) \in Item
        BY <4>1, RestoredTwice
      <4>3. AfterStep(step)[i] = Restored(tower[i], Want(step, i), Left(step, i))
        BY <2>6 DEF AfterStep, Does, Named
      <4> QED BY <4>2, <4>3, FactAssumption
    <3> QED BY <2>1, <2>2, <3>1, <3>2
  <2> QED BY <2>3, <2>4, <2>5, <2>6, AfterStepSites
<1>2. P \in SUBSET Id /\ T \in SUBSET Id /\ S \in SUBSET Id /\ N \in SUBSET Id
  BY DEF Doing, Of, Standing
<1> HIDE DEF P, T, S, N
<1>3. N \cup T = S \cup P /\ N \cap T = {} /\ S \cap P = {} /\ T \subseteq S
  BY <1>1, <1>2
<1>4. /\ Cardinality(N \cup T) = Cardinality(N) + Cardinality(T)
      /\ Cardinality(S \cup P) = Cardinality(S) + Cardinality(P)
  BY <1>2, <1>3, Counting
<1>5. /\ Count(AfterStep(step), k) = Cardinality(N) /\ Count(tower, k) = Cardinality(S)
  BY DEF Count, N, S, Of
<1>6. Adds(step, k) = Cardinality(P) - Cardinality(T)
  <2>1. {i \in Standing(tower) : Does(step, i, "takeOut") /\ KindOf(tower[i]) = k} = T
    <3>1. \A i \in T : i \in Standing(tower) /\ Does(step, i, "takeOut") /\ KindOf(tower[i]) = k
      BY <1>2, <1>3 DEF S, T, Of, Doing
    <3>2. ASSUME NEW i \in Standing(tower), Does(step, i, "takeOut"), KindOf(tower[i]) = k
          PROVE  i \in T
      BY <3>2 DEF T, Doing, Standing, Inv, TowerSited, StepSited, SitedIn, KindOf, Does, Named
    <3> QED BY <3>1, <3>2
  <2> QED BY <2>1 DEF Adds, P, Doing
<1> QED BY <1>3, <1>4, <1>5, <1>6 DEF P, T

\* A step that applies keeps the caps, and its opposite does.
LEMMA AppliedCapped ==
    ASSUME Inv, CapsKept, NEW step \in Step, StepSited(step, ledger), Applies(step),
           StepCapped(step)
    PROVE  /\ \A k \in Kinds : Count(AfterStep(step), k) <= Limit(k)
           /\ StepCapped(Opposite(step))
<1> SUFFICES ASSUME NEW k \in Kinds
             PROVE  /\ Count(AfterStep(step), k) <= Limit(k)
                    /\ Opposite(step).held[k] + Cardinality(Doing(Opposite(step), "putBack", k))
                         <= Limit(k) + Cardinality(Doing(Opposite(step), "takeOut", k))
  BY DEF StepCapped
<1> DEFINE P == Cardinality(Doing(step, "putBack", k))
           T == Cardinality(Doing(step, "takeOut", k))
           C == Count(tower, k)
           N == Count(AfterStep(step), k)
<1>1. P \in Nat /\ T \in Nat
  BY Counting DEF Doing
<1>2. N + T = C + P /\ Adds(step, k) = P - T
  BY AfterStepCount
<1>3. /\ C \in Nat /\ N \in Nat /\ step.held[k] \in Nat
      /\ Limit(k) \in Nat /\ KindCap[k] \in Nat /\ KindCap[k] <= Limit(k)
  <2>1. tower \in [Id -> Item \cup {None}] /\ AfterStep(step) \in [Id -> Item \cup {None}]
    BY AfterStepType DEF Inv, TypeOK
  <2>2. C \in 0..MaxId /\ N \in 0..MaxId
    BY <2>1, CountType
  <2>3. step.held[k] \in 0..MaxId
    BY DEF Step
  <2> QED BY <2>2, <2>3, LimitFacts, NumberAssumption
<1>4. C <= Limit(k) /\ step.held[k] + P <= Limit(k) + T
  BY DEF CapsKept, StepCapped
<1>5. Adds(step, k) > 0 => C + Adds(step, k) <= KindCap[k] \/ C <= step.held[k]
  BY DEF Applies, Lasting, WithinCaps
<1>6. Opposite(step).held[k] = N
  BY DEF Opposite
<1>7. /\ Doing(Opposite(step), "putBack", k) = Doing(step, "takeOut", k)
      /\ Doing(Opposite(step), "takeOut", k) = Doing(step, "putBack", k)
  <2>1. ASSUME NEW i \in Id
        PROVE  /\ Does(Opposite(step), i, "putBack") = Does(step, i, "takeOut")
               /\ Does(Opposite(step), i, "takeOut") = Does(step, i, "putBack")
               /\ Named(step, i) => KindOf(Want(Opposite(step), i)) = KindOf(Want(step, i))
    <3>1. Does(step, i, "takeOut") \/ Does(step, i, "putBack") \/ Does(step, i, "restore")
            \/ ~Named(step, i)
      BY AfterStepSites
    <3>2. tower[i] # None => KindOf(tower[i]) = Kind[ledger[i].site]
      BY DEF Inv, TowerSited, SitedIn, KindOf
    <3>3. Named(step, i) => KindOf(Want(step, i)) = Kind[ledger[i].site]
      BY DEF StepSited, SitedIn, KindOf
    <3>4. \A do : Does(Opposite(step), i, do) \in BOOLEAN /\ Does(step, i, do) \in BOOLEAN
      BY DEF Does
    <3>5. CASE ~Named(step, i)
      BY <3>4, <3>5, BackFacts DEF Does, Named
    <3>6. CASE Does(step, i, "takeOut")
      <4>1. tower[i] # None /\ ~Does(step, i, "putBack")
        BY <3>6, AfterStepSites DEF Does
      <4> QED BY <3>2, <3>3, <3>4, <3>6, <4>1, BackFacts
    <3>7. CASE Does(step, i, "putBack")
      <4>1. ~Does(step, i, "takeOut")
        BY <3>7 DEF Does
      <4> QED BY <3>4, <3>7, <4>1, BackFacts
    <3>8. CASE Does(step, i, "restore")
      <4>1. tower[i] # None /\ ~Does(step, i, "putBack") /\ ~Does(step, i, "takeOut")
        BY <3>8, AfterStepSites DEF Does
      <4> QED BY <3>2, <3>3, <3>4, <3>8, <4>1, BackFacts
    <3> QED BY <3>1, <3>5, <3>6, <3>7, <3>8
  <2>2. \A i \in Id : \A do : Does(step, i, do) => Named(step, i)
    BY DEF Does, Named
  <2> QED BY <2>1, <2>2 DEF Doing
<1> HIDE DEF P, T, C, N
<1>8. N <= Limit(k)
  BY <1>1, <1>2, <1>3, <1>4, <1>5
<1>9. N + T <= Limit(k) + P
  BY <1>1, <1>2, <1>3, <1>4
<1> QED BY <1>6, <1>7, <1>8, <1>9 DEF N, P, T

\* A gesture's step puts back what the gesture found and took out.
LEMMA PutBackOf ==
    ASSUME NEW seen \in Touch, NEW now \in Item \cup {None}, ImageOf(seen, now) # None,
           ImageOf(seen, now).do = "putBack"
    PROVE  seen.how = "was" /\ now = None
<1>1. ImageOf(seen, now) = IF IsShaft(seen.item) THEN ShaftImage(seen, now)
                           ELSE UnitImage(seen, now)
  BY FactAssumption DEF ImageOf
<1>2. CASE IsShaft(seen.item)
  BY <1>1, <1>2 DEF ShaftImage
<1>3. CASE ~IsShaft(seen.item)
  BY <1>1, <1>3 DEF UnitImage
<1> QED BY <1>2, <1>3

\* The step a gesture closes into keeps the caps the gesture began within.
LEMMA StepOfCapped ==
    ASSUME Inv, CapInv, journal.open
    PROVE  StepCapped(StepOf(journal))
<1> DEFINE step == StepOf(journal)
<1> SUFFICES ASSUME NEW k \in Kinds
             PROVE  step.held[k] + Cardinality(Doing(step, "putBack", k))
                      <= Limit(k) + Cardinality(Doing(step, "takeOut", k))
  BY DEF StepCapped
<1> DEFINE P == Doing(step, "putBack", k)
           T == Doing(step, "takeOut", k)
           S == Of(tower, k)
           F == Found(journal, tower, ledger, k)
<1>1. P \in SUBSET Id /\ T \in SUBSET Id /\ S \in SUBSET Id /\ F \in SUBSET Id
  BY DEF Doing, Of, Standing, Found
<1>2. ASSUME NEW i \in Id
      PROVE  (i \in S => i \notin P) /\ (i \in S \cup P => i \in F \cup T)
  <2> DEFINE seen == journal.touched[i]
             image == ImageOf(seen, tower[i])
  <2>1. /\ step.images[i] = image /\ seen \in Touch \cup {None}
        /\ tower[i] \in Item \cup {None}
    BY DEF StepOf, Inv, TypeOK, Journal
  <2>2. /\ Does(step, i, "putBack") = (image # None /\ image.do = "putBack")
        /\ Does(step, i, "takeOut") = (image # None /\ image.do = "takeOut")
        /\ Want(step, i) = image.want
    BY <2>1 DEF Does, Want
  <2>3. tower[i] # None => KindOf(tower[i]) = Kind[ledger[i].site]
    BY DEF Inv, TowerSited, SitedIn, KindOf
  <2>4. CASE seen = None
    <3>1. image = None
      BY <2>4 DEF ImageOf
    <3>2. i \in S => i \in F
      BY <2>3, <2>4 DEF Of, Standing, Found, WasFound
    <3> QED BY <2>2, <3>1, <3>2 DEF Doing
  <2>5. CASE seen # None
    <3>1. /\ seen \in Touch /\ seen.item \in Item /\ seen.how \in {"was", "added", "addedAndUsed"}
          /\ KindOf(seen.item) = Kind[ledger[i].site]
      BY <2>1, <2>5 DEF Touch, Inv, JournalSited, SitedIn, KindOf
    <3>2. image # None => KindOf(image.want) = Kind[ledger[i].site]
      BY <2>1, <3>1, ImageOfWants
    <3>3. image # None /\ image.do = "putBack" => seen.how = "was" /\ tower[i] = None
      BY <2>1, <3>1, PutBackOf
    <3>4. seen.how # "was" /\ tower[i] # None => image # None /\ image.do = "takeOut"
      <4> HAVE seen.how # "was" /\ tower[i] # None
      <4>1. image = IF IsShaft(seen.item) THEN ShaftImage(seen, tower[i])
                    ELSE UnitImage(seen, tower[i])
        BY <2>5 DEF ImageOf
      <4>2. image \in Image \cup {None}
        BY <2>1, ImageOfType
      <4>3. [tower[i] EXCEPT !.rides = 0] \in Item
        BY <2>1, NumberAssumption DEF Item
      <4>4. \A r \in [do : {"takeOut", "putBack", "restore"}, want : Item, left : Item,
                      built : BOOLEAN] : r # None
        BY FactAssumption DEF Image
      <4> HIDE DEF image
      <4>5. CASE IsShaft(seen.item)
        BY <3>1, <4>1, <4>3, <4>4, <4>5 DEF ShaftImage
      <4>6. CASE ~IsShaft(seen.item)
        BY <3>1, <4>1, <4>4, <4>6 DEF UnitImage
      <4> QED BY <4>5, <4>6
    <3>5. i \in F <=> seen.how = "was" /\ Kind[ledger[i].site] = k
      BY <2>5 DEF Found, WasFound
    <3>6. i \in S <=> tower[i] # None /\ Kind[ledger[i].site] = k
      BY <2>3 DEF Of, Standing
    <3>7. /\ i \in P <=> image # None /\ image.do = "putBack" /\ Kind[ledger[i].site] = k
          /\ i \in T <=> image # None /\ image.do = "takeOut" /\ Kind[ledger[i].site] = k
      BY <2>2, <3>2 DEF Doing
    <3> HIDE DEF image, P, T, S, F
    <3> QED BY <3>1, <3>3, <3>4, <3>5, <3>6, <3>7
  <2> QED BY <2>4, <2>5
<1>3. Cardinality(F) <= Limit(k) /\ Limit(k) \in Nat
  BY LimitFacts DEF CapInv
<1>4. step.held[k] = Cardinality(S)
  BY DEF StepOf, Count, Of
<1> HIDE DEF step, P, T, S, F
<1>5. S \cap P = {} /\ S \cup P \subseteq F \cup T
  BY <1>1, <1>2
<1>6. /\ Cardinality(S \cup P) = Cardinality(S) + Cardinality(P)
      /\ Cardinality(F \cup T) <= Cardinality(F) + Cardinality(T)
      /\ Cardinality(F) \in Nat /\ Cardinality(T) \in Nat
      /\ Cardinality(S) \in Nat /\ Cardinality(P) \in Nat
  BY <1>1, <1>5, Counting
<1>7. Cardinality(S \cup P) <= Cardinality(F \cup T) /\ Cardinality(F \cup T) \in Nat
  <2>1. S \cup P \in SUBSET Id /\ F \cup T \in SUBSET Id
    BY <1>1
  <2> QED BY <1>5, <2>1, Counting
<1>8. Cardinality(S) + Cardinality(P) <= Limit(k) + Cardinality(T)
  BY <1>3, <1>6, <1>7
<1> QED BY <1>4, <1>8 DEF P, T

-----------------------------------------------------------------------------
(* What each action leaves, for the proofs below.                          *)

\* An edit command notes the item it changes, and changes no other.
LEMMA EditShape ==
    ASSUME Inv, NEW i \in Id,
           Sell(i) \/ AddCar(i) \/ RemoveCar(i) \/ Reprice(i) \/ Rename(i)
    PROVE  /\ UNCHANGED <<nextId, hours, dug, treasuresFound, undo, redo, ledger, outside>>
           /\ tower[i] \in Item
           /\ \A k \in Id : k # i => /\ tower'[k] = tower[k]
                                     /\ journal'.touched[k] = journal.touched[k]
           /\ journal'.open = journal.open
           /\ journal.open => /\ journal'.touched[i] # None
                              /\ journal'.touched[i].how = "was" =>
                                    \/ journal.touched[i] = None
                                    \/ journal.touched[i].how = "was"
<1>1. tower[i] \in Item /\ tower[i] # None /\ SitedIn(i, tower[i], ledger)
  BY DEF Sell, AddCar, RemoveCar, Reprice, Rename, Inv, TypeOK, TowerSited
<1>2. /\ Notes(journal, NoteOut(journal, i, tower[i]), i, ledger)
      /\ Notes(journal, NoteEdit(journal, i, tower[i]), i, ledger)
  BY <1>1, NoteOutNotes, NoteEditNotes DEF Inv, TypeOK
<1>3. PICK n : /\ Notes(journal, n, i, ledger)
               /\ \E x, amount : Edited(i, x, n, amount)
  BY <1>2 DEF Sell, AddCar, RemoveCar, Reprice, Rename
<1>4. PICK x, amount : Edited(i, x, n, amount)
  BY <1>3
<1>5. /\ journal'.open = n.open /\ journal'.touched = n.touched
      /\ UNCHANGED <<nextId, hours, dug, treasuresFound, undo, redo, ledger, outside>>
      /\ \A k \in Id \ {i} : tower'[k] = tower[k]
  BY <1>3, <1>4 DEF Edited, Paid, Notes, Journal, Inv, TypeOK
<1> QED BY <1>1, <1>3, <1>5 DEF Notes

\* A build adds items under ids that were nowhere: floor, and one item at
\* the place built.
LEMMA BuildShape ==
    ASSUME Inv, NEW s \in Site, Build(s)
    PROVE  /\ UNCHANGED <<hours, undo, redo>> /\ journal'.open = journal.open
           /\ Count(tower, Kind[s]) < KindCap[Kind[s]]
           /\ \A i \in Id :
                 \/ /\ tower'[i] = tower[i] /\ ledger'[i] = ledger[i]
                    /\ journal'.touched[i] = journal.touched[i]
                 \/ /\ tower[i] = None /\ ledger[i] = None /\ journal.touched[i] = None
                    /\ tower'[i] \in Item /\ ~tower'[i].sold
                    /\ KindOf(tower'[i]) = "floor" \/ tower'[i].site = s
                    /\ journal.open =>
                          journal'.touched[i] = [how |-> "added", item |-> tower'[i]]
<1> DEFINE cost == Price[Kind[s]] + Cardinality(Missing(s)) * Price["floor"]
<1>1. /\ TypeOK /\ nextId + Cardinality(Missing(s)) <= MaxId
      /\ UNCHANGED <<hours, undo, redo>> /\ Count(tower, Kind[s]) < KindCap[Kind[s]]
  BY DEF Build, Inv
<1>2. PICK at \in Layouts(s) :
        /\ tower' = [i \in Id |-> IF Added(at)[i] = None THEN tower[i] ELSE Added(at)[i]]
        /\ journal' = [NoteIn(Paid(journal, -cost), Added(at))
                         EXCEPT !.searched = @ \/ (journal.open /\ Searches(s))]
        /\ ledger' = [i \in Id |->
              IF Added(at)[i] = None THEN ledger[i]
              ELSE [site |-> PlaceOf(at, i), sale |-> None,
                    used |-> IF Searches(PlaceOf(at, i)) THEN 1 ELSE 0]]
  BY Zenon DEF Build
<1>3. /\ DOMAIN at = Missing(s) \cup {s}
      /\ \A p \in DOMAIN at :
            /\ at[p] \in Id /\ at[p] >= nextId /\ p \in Site
            /\ Added(at)[at[p]] = Placed(p) /\ Placed(p) # None
      /\ \A i \in Id : Added(at)[i] = None \/ \E p \in DOMAIN at : at[p] = i
  BY <1>1, BuildIds
<1>4. /\ journal'.open = journal.open
      /\ \A i \in Id : journal'.touched[i] =
             IF journal.open /\ Added(at)[i] # None
             THEN [how |-> "added", item |-> Added(at)[i]] ELSE journal.touched[i]
  BY <1>1, <1>2 DEF NoteIn, Paid, Journal, TypeOK
<1>5. ASSUME NEW i \in Id, Added(at)[i] # None
      PROVE  /\ tower[i] = None /\ ledger[i] = None /\ journal.touched[i] = None
             /\ tower'[i] \in Item /\ ~tower'[i].sold
             /\ KindOf(tower'[i]) = "floor" \/ tower'[i].site = s
             /\ journal.open =>
                   journal'.touched[i] = [how |-> "added", item |-> tower'[i]]
  <2>1. PICK p \in DOMAIN at : at[p] = i
    BY <1>3, <1>5
  <2>2. tower'[i] = Placed(p) /\ tower'[i] = Added(at)[i]
    BY <1>2, <1>3, <1>5, <2>1
  <2>3. tower'[i] \in Item /\ tower'[i].site = p /\ ~tower'[i].sold
    BY <1>3, <2>2, PlacedType DEF Placed
  <2>4. ledger[i] = None
    BY <1>3, <2>1 DEF Inv
  <2>5. tower[i] = None /\ journal.touched[i] = None
    BY <2>4 DEF Inv, TowerSited, JournalSited, SitedIn
  <2>6. Kind[p] = "floor" \/ p = s
    <3>1. p \in Missing(s) => p \in Rests[s]
      BY DEF Missing
    <3> QED BY <1>3, <3>1, GeometryAssumption
  <2> QED BY <1>4, <1>5, <2>2, <2>3, <2>4, <2>5, <2>6 DEF KindOf
<1>6. ASSUME NEW i \in Id, Added(at)[i] = None
      PROVE  /\ tower'[i] = tower[i] /\ ledger'[i] = ledger[i]
             /\ journal'.touched[i] = journal.touched[i]
  BY <1>2, <1>4, <1>6
<1> QED BY <1>1, <1>4, <1>5, <1>6

\* An advance moves items where they stand, and leaves what a gesture or a
\* step holds.
LEMMA AdvanceShape ==
    ASSUME Inv, Advance
    PROVE  /\ UNCHANGED <<nextId, dug, treasuresFound, journal, undo, redo>>
           /\ \A i \in Id :
                 /\ (tower'[i] = None) = (tower[i] = None)
                 /\ tower[i] # None => tower'[i].site = tower[i].site
                 /\ ledger[i] # None => ledger'[i].site = ledger[i].site
                 /\ tower[i] = None => ledger'[i] = ledger[i]
<1>1. UNCHANGED <<nextId, dug, treasuresFound, journal, undo, redo>>
      /\ \A i \in Id : tower'[i] = None => ledger'[i] = ledger[i]
  BY Zenon DEF Advance
<1>2. \A i \in Id : /\ (tower'[i] = None) = (tower[i] = None)
                    /\ tower[i] # None => tower'[i].site = tower[i].site
  BY AdvanceTower DEF Inv
<1>3. TowerSited(tower', ledger')
  BY AdvanceType DEF Inv
<1> QED BY <1>1, <1>2, <1>3 DEF TowerSited, SitedIn, Inv

\* Closing a gesture, with an undo or redo after it or not, leaves the step
\* it closes into on the undo stack, and so do the stacks an undo or redo
\* starts from.
LEMMA CommittedHolds ==
    ASSUME Inv
    PROVE  /\ UndoCommitted \in Seq(Step) /\ RedoCommitted \in Seq(Step)
           /\ \/ /\ Kept /\ journal.open /\ StepOf(journal) \in Step
                 /\ UndoCommitted = Pushed(undo, StepOf(journal)) /\ RedoCommitted = <<>>
              \/ ~Kept /\ UndoCommitted = undo /\ RedoCommitted = redo
<1>1. StepOf(journal) \in Step
  BY StepOfType DEF Inv
<1> QED BY <1>1, CommittedType DEF Inv, UndoCommitted, RedoCommitted, Kept

-----------------------------------------------------------------------------
(* The caps are kept by every action.                                      *)

\* Fewer items, and fewer found.
LEMMA FewerCapped ==
    ASSUME Inv, CapInv, CapsKept', Capped(undo'), Capped(redo'),
           journal'.open => journal.open,
           journal'.open => \A i \in Id : WasFound(journal', tower', i) =>
                               WasFound(journal, tower, i) /\ ledger'[i].site = ledger[i].site
    PROVE  CapInv'
<1> SUFFICES ASSUME journal'.open, NEW k \in Kinds
             PROVE  Cardinality(Found(journal', tower', ledger', k)) <= Limit(k)
  BY DEF CapInv
<1> DEFINE A == Found(journal', tower', ledger', k)
           B == Found(journal, tower, ledger, k)
<1>1. A \in SUBSET Id /\ B \in SUBSET Id /\ A \subseteq B
  BY DEF Found
<1>2. Cardinality(B) <= Limit(k) /\ Limit(k) \in Nat
  BY LimitFacts DEF CapInv
<1> HIDE DEF A, B
<1>3. Cardinality(A) <= Cardinality(B) /\ Cardinality(A) \in Nat /\ Cardinality(B) \in Nat
  BY <1>1, Counting
<1>4. Cardinality(A) <= Limit(k)
  BY <1>2, <1>3
<1> QED BY <1>4 DEF A

\* A tower with no other items of a kind has no more of them.
LEMMA FewerCount ==
    ASSUME NEW t, NEW u, NEW k, Of(u, k) \subseteq Of(t, k)
    PROVE  Count(u, k) <= Count(t, k) /\ Count(u, k) \in Nat /\ Count(t, k) \in Nat
<1>1. Of(u, k) \in SUBSET Id /\ Of(t, k) \in SUBSET Id
  BY DEF Of, Standing
<1>2. Count(u, k) = Cardinality(Of(u, k)) /\ Count(t, k) = Cardinality(Of(t, k))
  BY DEF Count, Of
<1> QED BY <1>1, <1>2, Counting

LEMMA FewerKept ==
    ASSUME CapsKept, \A i \in Id : tower'[i] # None =>
                        tower[i] # None /\ tower'[i].site = tower[i].site
    PROVE  CapsKept'
<1> SUFFICES ASSUME NEW k \in Kinds PROVE Count(tower', k) <= Limit(k)
  BY DEF CapsKept
<1>1. Of(tower', k) \subseteq Of(tower, k)
  BY DEF Of, Standing, KindOf
<1>2. Count(tower', k) <= Count(tower, k) /\ Count(tower', k) \in Nat /\ Count(tower, k) \in Nat
  BY <1>1, FewerCount
<1>3. Count(tower, k) <= Limit(k) /\ Limit(k) \in Nat
  BY LimitFacts DEF CapsKept
<1> QED BY <1>2, <1>3

LEMMA InitCaps == Init => CapInv
<1> SUFFICES ASSUME Init PROVE CapInv
  OBVIOUS
<1>1. Inv
  BY InitInv
<1>2. CapsKept
  <2>1. tower = StartTower
    BY DEF Init
  <2> QED BY <2>1, LimitFacts DEF CapsKept
<1>3. ~journal.open /\ undo = <<>> /\ redo = <<>>
  BY DEF Init, NoJournal
<1> QED BY <1>2, <1>3 DEF CapInv, Capped

LEMMA AdoptCaps == Adopt => CapInv'
<1>1. Adopt => Init'
  BY DEF Adopt, Init
<1>2. Init' => CapInv'
  BY InitCaps, PTL
<1> QED BY <1>1, <1>2

LEMMA CommittedCapped ==
    ASSUME Inv, CapInv
    PROVE  Capped(UndoCommitted) /\ Capped(RedoCommitted)
<1>1. CASE Kept
  <2>1. StepCapped(StepOf(journal)) /\ undo \in Seq(Step) /\ Capped(undo)
    BY <1>1, StepOfCapped DEF Kept, Inv, TypeOK, CapInv
  <2>2. StepOf(journal) \in Step /\ UndoCommitted = Pushed(undo, StepOf(journal))
        /\ RedoCommitted = <<>>
    BY <1>1, CommittedHolds
  <2>3. Capped(Pushed(undo, StepOf(journal)))
    BY <2>1, <2>2, PushedCapped
  <2> QED BY <2>2, <2>3 DEF Capped
<1>2. CASE ~Kept
  BY <1>2, CommittedHolds DEF CapInv
<1> QED BY <1>1, <1>2

LEMMA CloseCaps ==
    ASSUME Inv, CapInv, Capture \/ Commit
    PROVE  CapInv'
<1>1. /\ undo' = UndoCommitted /\ redo' = RedoCommitted
      /\ tower' = tower /\ ledger' = ledger
      /\ journal' = OpenJournal \/ journal' = NoJournal
  BY DEF Capture, Commit, world
<1>2. CapsKept'
  BY <1>1 DEF CapInv, CapsKept
<1>3. \A i \in Id : WasFound(journal', tower', i) => tower[i] # None
  <2>1. NoJournal.touched = [i \in Id |-> None] /\ OpenJournal.touched = NoJournal.touched
    BY DEF NoJournal, OpenJournal
  <2> QED BY <1>1, <2>1 DEF WasFound
<1>4. ASSUME NEW k \in Kinds
      PROVE  Cardinality(Found(journal', tower', ledger', k)) <= Limit(k)
  <2> DEFINE A == Found(journal', tower', ledger', k)
  <2>1. A \subseteq Of(tower, k)
    BY <1>1, <1>3 DEF Found, Of, Standing, Inv, TowerSited, SitedIn, KindOf
  <2>2. A \in SUBSET Id /\ Of(tower, k) \in SUBSET Id
    BY DEF Found, Of, Standing
  <2>3. Cardinality(Of(tower, k)) <= Limit(k) /\ Limit(k) \in Nat
    BY LimitFacts DEF CapInv, CapsKept, Count, Of
  <2> HIDE DEF A
  <2>4. Cardinality(A) <= Cardinality(Of(tower, k)) /\ Cardinality(A) \in Nat
        /\ Cardinality(Of(tower, k)) \in Nat
    BY <2>1, <2>2, Counting
  <2>5. Cardinality(A) <= Limit(k)
    BY <2>3, <2>4
  <2> QED BY <2>5 DEF A
<1> QED BY <1>1, <1>2, <1>4, CommittedCapped DEF CapInv

LEMMA EditCaps ==
    ASSUME Inv, Inv', CapInv, NEW i \in Id,
           Sell(i) \/ AddCar(i) \/ RemoveCar(i) \/ Reprice(i) \/ Rename(i)
    PROVE  CapInv'
<1>1. /\ UNCHANGED <<undo, redo, ledger>> /\ journal'.open = journal.open
      /\ tower[i] \in Item /\ tower[i] # None
      /\ \A k \in Id : k # i => /\ tower'[k] = tower[k]
                                /\ journal'.touched[k] = journal.touched[k]
      /\ journal.open => /\ journal'.touched[i] # None
                         /\ journal'.touched[i].how = "was" =>
                               journal.touched[i] = None \/ journal.touched[i].how = "was"
  BY EditShape, FactAssumption
<1>2. \A k \in Id : tower'[k] # None => tower[k] # None /\ tower'[k].site = tower[k].site
  BY <1>1 DEF Inv, TowerSited, SitedIn
<1>3. CapsKept'
  BY <1>2, FewerKept DEF CapInv
<1>4. \A k \in Id : journal'.open /\ WasFound(journal', tower', k) =>
                       WasFound(journal, tower, k) /\ ledger'[k].site = ledger[k].site
  BY <1>1 DEF WasFound
<1> QED BY <1>1, <1>3, <1>4, FewerCapped DEF CapInv

LEMMA BuildCaps ==
    ASSUME Inv, Inv', CapInv, NEW s \in Site, Build(s)
    PROVE  CapInv'
<1> DEFINE Old(i) == /\ tower'[i] = tower[i] /\ ledger'[i] = ledger[i]
                     /\ journal'.touched[i] = journal.touched[i]
           New(i) == /\ tower[i] = None /\ ledger[i] = None /\ tower'[i] \in Item
                     /\ KindOf(tower'[i]) = "floor" \/ tower'[i].site = s
                     /\ journal.open =>
                           journal'.touched[i] = [how |-> "added", item |-> tower'[i]]
<1>1. /\ UNCHANGED <<undo, redo>> /\ journal'.open = journal.open
      /\ Count(tower, Kind[s]) < KindCap[Kind[s]]
      /\ \A i \in Id : Old(i) \/ New(i)
  BY BuildShape
<1>2. \A i \in Id : journal'.open /\ WasFound(journal', tower', i) =>
                       WasFound(journal, tower, i) /\ ledger'[i].site = ledger[i].site
  <2> SUFFICES ASSUME NEW i \in Id, journal'.open, WasFound(journal', tower', i)
               PROVE  Old(i)
    BY DEF WasFound
  <2> SUFFICES ASSUME New(i) PROVE FALSE
    BY <1>1
  <2>1. journal'.touched[i] = [how |-> "added", item |-> tower'[i]]
    BY <1>1
  <2>2. journal'.touched[i].how = "added" /\ journal'.touched[i] \in Touch
    BY <2>1 DEF Touch
  <2> QED BY <2>2, FactAssumption DEF WasFound
<1>3. CapsKept'
  <2> SUFFICES ASSUME NEW k \in Kinds PROVE Count(tower', k) <= Limit(k)
    BY DEF CapsKept
  <2>1. /\ Limit(k) \in Nat /\ KindCap[k] \in Nat /\ KindCap[k] <= Limit(k)
        /\ Count(tower, k) <= Limit(k) /\ MaxId \in Nat
    BY LimitFacts, NumberAssumption DEF CapInv, CapsKept
  <2>2. tower \in [Id -> Item \cup {None}] /\ tower' \in [Id -> Item \cup {None}]
    BY DEF Inv, TypeOK
  <2>3. Count(tower, k) \in 0..MaxId /\ Count(tower', k) \in 0..MaxId
    BY <2>2, CountType
  <2>4. CASE k = "floor"
    BY <2>1, <2>3, <2>4, CapAssumption
  <2>5. CASE k # "floor" /\ ~\E i \in Id : New(i) /\ KindOf(tower'[i]) = k
    <3>1. Of(tower', k) \subseteq Of(tower, k)
      BY <1>1, <2>5 DEF Of, Standing
    <3> QED BY <2>1, <3>1, FewerCount
  <2>6. ASSUME k # "floor", NEW i \in Id, New(i), KindOf(tower'[i]) = k
        PROVE  Count(tower', k) <= Limit(k)
    <3>1. tower'[i].site = s /\ k = Kind[s]
      BY <2>6 DEF KindOf
    <3>2. Of(tower', k) \subseteq Of(tower, k) \cup {i}
      <4> SUFFICES ASSUME NEW m \in Id, tower'[m] # None, KindOf(tower'[m]) = k, m # i
                   PROVE  m \in Of(tower, k)
        BY DEF Of, Standing
      <4>1. NoOverlap' /\ tower'[i] # None
        BY <2>6, FactAssumption DEF Inv, TowerStands
      <4>2. tower'[m].site # s
        BY <3>1, <4>1 DEF NoOverlap, Standing
      <4>3. Old(m)
        BY <1>1, <2>6, <4>2
      <4> QED BY <4>3 DEF Of, Standing
    <3> DEFINE A == Of(tower', k)
               B == Of(tower, k)
    <3>3. A \in SUBSET Id /\ B \in SUBSET Id /\ {i} \in SUBSET Id
      BY DEF Of, Standing
    <3>4. Count(tower', k) = Cardinality(A) /\ Count(tower, k) = Cardinality(B)
      BY DEF Count, Of
    <3>5. A \subseteq B \cup {i}
      BY <3>2
    <3>6. Count(tower, k) < KindCap[k]
      BY <1>1, <3>1
    <3> HIDE DEF A, B
    <3>7. B \cup {i} \in SUBSET Id
      BY <3>3
    <3>8. /\ Cardinality(A) <= Cardinality(B \cup {i})
          /\ Cardinality(B \cup {i}) <= Cardinality(B) + Cardinality({i})
          /\ Cardinality(A) \in Nat /\ Cardinality(B) \in Nat /\ Cardinality(B \cup {i}) \in Nat
      BY <3>3, <3>5, <3>7, Counting
    <3>9. Cardinality({i}) = 1
      BY FS_Singleton
    <3> QED BY <2>1, <3>4, <3>6, <3>8, <3>9
  <2> QED BY <2>4, <2>5, <2>6
<1> HIDE DEF Old, New
<1> QED BY <1>1, <1>2, <1>3, FewerCapped DEF CapInv

LEMMA AdvanceCaps ==
    ASSUME Inv, CapInv, Advance
    PROVE  CapInv'
<1>1. /\ UNCHANGED <<journal, undo, redo>>
      /\ \A i \in Id : /\ (tower'[i] = None) = (tower[i] = None)
                       /\ tower[i] # None => tower'[i].site = tower[i].site
                       /\ ledger[i] # None => ledger'[i].site = ledger[i].site
  BY AdvanceShape
<1>2. CapsKept'
  BY <1>1, FewerKept DEF CapInv
<1>3. \A i \in Id : WasFound(journal', tower', i) => WasFound(journal, tower, i)
  BY <1>1 DEF WasFound
<1>4. \A i \in Id : WasFound(journal, tower, i) => ledger'[i].site = ledger[i].site
  BY <1>1, FoundBuilt
<1> QED BY <1>1, <1>2, <1>3, <1>4, FewerCapped DEF CapInv

\* An undo or a redo closes the gesture, and either takes the newest step of
\* one stack and leaves its opposite on the other, or leaves the world be.
LEMMA UndoRedoShape ==
    ASSUME Inv, Undo \/ Redo
    PROVE  /\ journal' = NoJournal /\ UNCHANGED <<nextId, hours, dug, treasuresFound, ledger, outside>>
           /\ \/ \E step \in Step :
                    /\ StepSited(step, ledger) /\ Applies(step) /\ Take(step)
                    /\ \/ /\ UndoCommitted # <<>> /\ step = Newest(UndoCommitted)
                          /\ undo' = Older(UndoCommitted)
                          /\ redo' = Pushed(RedoCommitted, Opposite(step))
                       \/ /\ RedoCommitted # <<>> /\ step = Newest(RedoCommitted)
                          /\ redo' = Older(RedoCommitted)
                          /\ undo' = Pushed(UndoCommitted, Opposite(step))
              \/ /\ UNCHANGED <<tower, money>>
                 /\ \/ undo' = UndoCommitted
                    \/ UndoCommitted # <<>> /\ undo' = Older(UndoCommitted)
                 /\ redo' = RedoCommitted \/ redo' = <<>>
<1>1. CASE Undo
  <2>1. UndoCommitted # <<>> /\ journal' = NoJournal
    BY <1>1 DEF Undo
  <2>2. Newest(UndoCommitted) \in Step /\ StepSited(Newest(UndoCommitted), ledger)
    BY <2>1, CommittedGood, NewestType, NewestGood
  <2> QED BY <1>1, <2>1, <2>2 DEF Undo, Take, world
<1>2. CASE Redo
  <2>1. RedoCommitted # <<>> /\ journal' = NoJournal
    BY <1>2 DEF Redo
  <2>2. Newest(RedoCommitted) \in Step /\ StepSited(Newest(RedoCommitted), ledger)
    BY <2>1, CommittedGood, NewestType, NewestGood
  <2> QED BY <1>2, <2>1, <2>2 DEF Redo, Take, world
<1> QED BY <1>1, <1>2

LEMMA UndoRedoCaps ==
    ASSUME Inv, CapInv, Undo \/ Redo
    PROVE  CapInv'
<1> DEFINE U == UndoCommitted
           R == RedoCommitted
<1>1. /\ U \in Seq(Step) /\ R \in Seq(Step) /\ Capped(U) /\ Capped(R) /\ Capped(<<>>)
      /\ U # <<>> => StepCapped(Newest(U)) /\ Capped(Older(U))
      /\ R # <<>> => StepCapped(Newest(R)) /\ Capped(Older(R))
  <2>1. U \in Seq(Step) /\ R \in Seq(Step) /\ Capped(U) /\ Capped(R)
    BY CommittedHolds, CommittedCapped
  <2>2. Capped(<<>>)
    BY DEF Capped
  <2> HIDE DEF U, R
  <2> QED BY <2>1, <2>2, NewestCapped
<1>2. journal' = NoJournal /\ ~journal'.open
  BY UndoRedoShape DEF NoJournal
<1>3. CASE \E step \in Step :
              /\ StepSited(step, ledger) /\ Applies(step) /\ Take(step)
              /\ \/ /\ U # <<>> /\ step = Newest(U)
                    /\ undo' = Older(U) /\ redo' = Pushed(R, Opposite(step))
                 \/ /\ R # <<>> /\ step = Newest(R)
                    /\ redo' = Older(R) /\ undo' = Pushed(U, Opposite(step))
  <2>1. PICK step \in Step :
              /\ StepSited(step, ledger) /\ Applies(step) /\ Take(step)
              /\ \/ /\ U # <<>> /\ step = Newest(U)
                    /\ undo' = Older(U) /\ redo' = Pushed(R, Opposite(step))
                 \/ /\ R # <<>> /\ step = Newest(R)
                    /\ redo' = Older(R) /\ undo' = Pushed(U, Opposite(step))
    BY <1>3
  <2> HIDE DEF U, R
  <2>2. StepCapped(step)
    BY <1>1, <2>1
  <2>3. /\ \A k \in Kinds : Count(AfterStep(step), k) <= Limit(k)
        /\ StepCapped(Opposite(step)) /\ Opposite(step) \in Step
    BY <2>1, <2>2, AppliedCapped, OppositeType DEF CapInv, Inv
  <2>4. Capped(Pushed(R, Opposite(step))) /\ Capped(Pushed(U, Opposite(step)))
    BY <1>1, <2>3, PushedCapped
  <2>5. CapsKept'
    BY <2>1, <2>3 DEF CapsKept, Take
  <2> QED BY <1>1, <1>2, <2>1, <2>4, <2>5 DEF CapInv
<1>4. CASE /\ UNCHANGED <<tower, money>>
           /\ undo' = U \/ (U # <<>> /\ undo' = Older(U))
           /\ redo' = R \/ redo' = <<>>
  <2>1. CapsKept'
    BY <1>4 DEF CapsKept, CapInv
  <2> QED BY <1>1, <1>2, <1>4, <2>1 DEF CapInv
<1> QED BY <1>3, <1>4, UndoRedoShape

(* No order of edits, undos and redos, with time between them, leaves more *)
(* of a kind standing than its build cap, or than the tower began with if  *)
(* that was more: what a step adds was there when its gesture began, or    *)
(* when its opposite was taken (within_caps, build_cap).                   *)
THEOREM CapsAlwaysKept == Spec => []CapsKept
<1>1. Init => CapInv
  BY InitCaps
<1>2. Inv /\ Inv' /\ CapInv /\ [Next]_vars => CapInv'
  <2> SUFFICES ASSUME Inv, Inv', CapInv, [Next]_vars PROVE CapInv'
    OBVIOUS
  <2>1. CASE Capture \/ Commit
    BY <2>1, CloseCaps
  <2>2. CASE \E s \in Site : Build(s)
    BY <2>2, BuildCaps
  <2>3. CASE \E i \in Id : Sell(i) \/ AddCar(i) \/ RemoveCar(i) \/ Reprice(i) \/ Rename(i)
    BY <2>3, EditCaps
  <2>4. CASE Advance
    BY <2>4, AdvanceCaps
  <2>5. CASE Undo \/ Redo
    BY <2>5, UndoRedoCaps
  <2>6. CASE Adopt
    BY <2>6, AdoptCaps
  <2>7. CASE UNCHANGED vars
    BY <2>7 DEF vars, CapInv, CapsKept
  <2> QED BY <2>1, <2>2, <2>3, <2>4, <2>5, <2>6, <2>7 DEF Next
<1>3. CapInv => CapsKept
  BY DEF CapInv
<1> QED BY <1>1, <1>2, <1>3, Invariant, PTL DEF Spec

-----------------------------------------------------------------------------
(* The price of a sold condo.                                              *)

(* A sold condo in hand has the price it sold at.                          *)
SoldKept(x, entry) == KindOf(x) = "condo" /\ x.sold => x.rent = entry.sale

Puts(stack, i) == \E m \in DOMAIN stack : Does(stack[m], i, "putBack")
Once(stack, i) ==
    \A m, n \in DOMAIN stack :
        Does(stack[m], i, "putBack") /\ Does(stack[n], i, "putBack") => m = n
Priced(step, led) ==
    \A i \in Id : Does(step, i, "putBack") => SoldKept(Want(step, i), led[i])

(* Of what is gone, at most one step of the two stacks holds the item to   *)
(* put back, at the price it sold at; of what stands, none does.           *)
Held(a, b, t, led) ==
    /\ \A i \in Id : /\ t[i] # None => ~Puts(a, i) /\ ~Puts(b, i)
                     /\ Once(a, i) /\ Once(b, i) /\ ~(Puts(a, i) /\ Puts(b, i))
    /\ \A m \in DOMAIN a : Priced(a[m], led)
    /\ \A m \in DOMAIN b : Priced(b[m], led)

(* What the open gesture found and took out is in no step yet.             *)
Took(i) == /\ journal.open /\ tower[i] = None
           /\ journal.touched[i] # None /\ journal.touched[i].how = "was"

SoldInv ==
    /\ \A i \in Id : tower[i] # None => SoldKept(tower[i], ledger[i])
    /\ Held(undo, redo, tower, ledger)
    /\ \A i \in Id : Took(i) => /\ ~Puts(undo, i) /\ ~Puts(redo, i)
                                /\ SoldKept(journal.touched[i].item, ledger[i])

\* A stack pushed on is the stack, its oldest step perhaps dropped, with
\* the step on top.
LEMMA PushedAt ==
    ASSUME NEW stack \in Seq(Step), NEW step \in Step
    PROVE  /\ Pushed(stack, step) \in Seq(Step) /\ Len(Pushed(stack, step)) \in Nat \ {0}
           /\ Pushed(stack, step)[Len(Pushed(stack, step))] = step
           /\ \E off \in {0, 1} : \A m \in 1..Len(Pushed(stack, step)) - 1 :
                 m + off \in DOMAIN stack /\ Pushed(stack, step)[m] = stack[m + off]
<1> DEFINE p == Pushed(stack, step)
<1>1. CASE Len(stack) < UndoCap
  <2>1. p = Append(stack, step)
    BY <1>1 DEF Pushed
  <2>2. \A m \in 1..Len(p) - 1 : m + 0 \in DOMAIN stack /\ p[m] = stack[m + 0]
    BY <2>1
  <2> QED BY <2>1, <2>2
<1>2. CASE ~(Len(stack) < UndoCap)
  <2> DEFINE rest == Tail(stack)
  <2>1. stack # <<>>
    BY <1>2, NumberAssumption
  <2>2. /\ rest \in Seq(Step) /\ Len(rest) = Len(stack) - 1 /\ Len(stack) \in Nat \ {0}
        /\ \A m \in DOMAIN rest : rest[m] = stack[m + 1]
    BY <2>1
  <2>3. p = Append(rest, step)
    BY <1>2 DEF Pushed
  <2> HIDE DEF rest, p
  <2>4. /\ p \in Seq(Step) /\ Len(p) = Len(rest) + 1 /\ p[Len(p)] = step
        /\ \A m \in 1..Len(rest) : p[m] = rest[m]
    BY <2>2, <2>3
  <2>5. \A m \in 1..Len(p) - 1 : m + 1 \in DOMAIN stack /\ p[m] = stack[m + 1]
    <3> SUFFICES ASSUME NEW m \in 1..Len(p) - 1
                 PROVE  m + 1 \in DOMAIN stack /\ p[m] = stack[m + 1]
      OBVIOUS
    <3>1. m \in 1..Len(rest) /\ DOMAIN rest = 1..Len(rest) /\ DOMAIN stack = 1..Len(stack)
      BY <2>2, <2>4
    <3>2. m + 1 \in 1..Len(stack)
      BY <2>2, <3>1
    <3> QED BY <2>2, <2>4, <3>1, <3>2
  <2>6. Len(p) \in Nat \ {0}
    BY <2>2, <2>4
  <2> QED BY <2>4, <2>5, <2>6 DEF p
<1> QED BY <1>1, <1>2

LEMMA PushedOnce ==
    ASSUME NEW stack \in Seq(Step), NEW step \in Step, NEW i \in Id, Once(stack, i),
           Does(step, i, "putBack") => ~Puts(stack, i)
    PROVE  /\ Once(Pushed(stack, step), i)
           /\ Puts(Pushed(stack, step), i) => Puts(stack, i) \/ Does(step, i, "putBack")
<1> DEFINE p == Pushed(stack, step)
           n == Len(p)
<1>1. p \in Seq(Step) /\ n \in Nat \ {0} /\ p[n] = step
  BY PushedAt
<1>2. PICK off \in {0, 1} : \A m \in 1..n - 1 : m + off \in DOMAIN stack /\ p[m] = stack[m + off]
  BY PushedAt
<1>3. DOMAIN p = 1..n
  BY <1>1
<1> HIDE DEF p, n
<1>4. ASSUME NEW m \in 1..n PROVE m = n \/ m \in 1..n - 1
  BY <1>1
<1>5. Once(p, i)
  <2> SUFFICES ASSUME NEW a \in 1..n, NEW b \in 1..n, Does(p[a], i, "putBack"),
                      Does(p[b], i, "putBack")
               PROVE  a = b
    BY <1>3 DEF Once
  <2>1. ASSUME NEW c \in 1..n - 1, Does(p[c], i, "putBack") PROVE Puts(stack, i)
    BY <1>2, <2>1 DEF Puts
  <2>2. CASE a = n \/ b = n
    BY <1>1, <1>4, <2>1, <2>2
  <2>3. CASE a \in 1..n - 1 /\ b \in 1..n - 1
    <3>1. a + off = b + off
      BY <1>2, <2>3 DEF Once
    <3> QED BY <1>1, <2>3, <3>1
  <2> QED BY <1>4, <2>2, <2>3
<1>6. Puts(p, i) => Puts(stack, i) \/ Does(step, i, "putBack")
  BY <1>1, <1>2, <1>3, <1>4 DEF Puts
<1> QED BY <1>5, <1>6 DEF p

LEMMA NewestOnce ==
    ASSUME NEW stack \in Seq(Step), stack # <<>>, NEW i \in Id, Once(stack, i)
    PROVE  /\ Once(Older(stack), i) /\ (Puts(Older(stack), i) => Puts(stack, i))
           /\ Does(Newest(stack), i, "putBack") => Puts(stack, i) /\ ~Puts(Older(stack), i)
<1> DEFINE n == Len(stack)
           old == Older(stack)
<1>1. /\ n \in Nat \ {0} /\ n \in DOMAIN stack /\ Newest(stack) = stack[n]
      /\ old \in Seq(Step) /\ Len(old) = n - 1
      /\ \A m \in DOMAIN old : m \in DOMAIN stack /\ old[m] = stack[m]
  BY NewestType DEF Newest
<1>2. \A m \in DOMAIN old : m # n
  BY <1>1
<1> HIDE DEF n, old
<1>3. Once(old, i) /\ (Puts(old, i) => Puts(stack, i))
  BY <1>1 DEF Once, Puts
<1>4. Does(stack[n], i, "putBack") => Puts(stack, i) /\ ~Puts(old, i)
  BY <1>1, <1>2 DEF Once, Puts
<1> QED BY <1>1, <1>3, <1>4 DEF old

\* A stack without some of its steps, or with one more.
LEMMA PricedPushed ==
    ASSUME NEW stack \in Seq(Step), NEW step \in Step, NEW led, Priced(step, led),
           \A m \in DOMAIN stack : Priced(stack[m], led)
    PROVE  \A m \in DOMAIN Pushed(stack, step) : Priced(Pushed(stack, step)[m], led)
  BY PushedHolds

\* The stacks once the open gesture is closed.
LEMMA CommittedHeld ==
    ASSUME Inv, SoldInv
    PROVE  Held(UndoCommitted, RedoCommitted, tower, ledger)
<1>1. CASE ~Kept
  BY <1>1, CommittedHolds DEF SoldInv
<1>2. CASE Kept
  <2> DEFINE step == StepOf(journal)
  <2>1. /\ journal.open /\ step \in Step /\ undo \in Seq(Step)
        /\ UndoCommitted = Pushed(undo, step) /\ RedoCommitted = <<>>
    BY <1>2, CommittedHolds DEF Inv, TypeOK
  <2>2. ASSUME NEW i \in Id, Does(step, i, "putBack")
        PROVE  Took(i) /\ Want(step, i) = journal.touched[i].item
    <3> DEFINE seen == journal.touched[i]
               image == ImageOf(seen, tower[i])
    <3>1. step.images[i] = image /\ seen \in Touch \cup {None} /\ tower[i] \in Item \cup {None}
      BY DEF StepOf, Inv, TypeOK, Journal
    <3>2. image # None /\ image.do = "putBack" /\ Want(step, i) = image.want
      BY <2>2, <3>1 DEF Does, Want
    <3>3. seen # None
      BY <3>2 DEF ImageOf
    <3>4. seen.how = "was" /\ tower[i] = None /\ image.want = seen.item
      BY <3>1, <3>2, <3>3, PutBackOf, ImageOfWants
    <3> QED BY <2>1, <3>2, <3>3, <3>4 DEF Took
  <2> HIDE DEF step
  <2>3. ASSUME NEW i \in Id
        PROVE  /\ Once(Pushed(undo, step), i)
               /\ tower[i] # None => ~Puts(Pushed(undo, step), i)
    <3>1. Once(undo, i) /\ (Does(step, i, "putBack") => ~Puts(undo, i))
      BY <2>2 DEF SoldInv, Held
    <3>2. Does(step, i, "putBack") => tower[i] = None
      BY <2>2 DEF Took
    <3>3. tower[i] # None => ~Puts(undo, i)
      BY DEF SoldInv, Held
    <3> QED BY <2>1, <3>1, <3>2, <3>3, PushedOnce
  <2>4. Priced(step, ledger)
    BY <2>2 DEF Priced, SoldInv
  <2>5. \A m \in DOMAIN Pushed(undo, step) : Priced(Pushed(undo, step)[m], ledger)
    BY <2>1, <2>4, PricedPushed DEF SoldInv, Held
  <2>6. \A i \in Id : ~Puts(<<>>, i) /\ Once(<<>>, i)
    BY DEF Puts, Once
  <2> QED BY <2>1, <2>3, <2>5, <2>6 DEF Held
<1> QED BY <1>1, <1>2

\* A step taken: it leaves one stack, `from`, and its opposite goes on the
\* other, `onto`.
LEMMA TakenHeld ==
    ASSUME Inv, NEW from \in Seq(Step), NEW onto \in Seq(Step), from # <<>>,
           Held(from, onto, tower, ledger),
           \A i \in Id : tower[i] # None => SoldKept(tower[i], ledger[i]),
           NEW step \in Step, step = Newest(from), StepSited(step, ledger), Applies(step)
    PROVE  /\ Held(Older(from), Pushed(onto, Opposite(step)), AfterStep(step), ledger)
           /\ \A i \in Id : AfterStep(step)[i] # None =>
                 SoldKept(AfterStep(step)[i], ledger[i])
<1> DEFINE back == Opposite(step)
           old  == Older(from)
           new  == Pushed(onto, back)
           now  == AfterStep(step)
<1>1. back \in Step /\ Priced(step, ledger)
  <2>1. Len(from) \in DOMAIN from
    OBVIOUS
  <2> QED BY <2>1, OppositeType DEF Inv, Held, Newest
<1>2. ASSUME NEW i \in Id
      PROVE  /\ Does(back, i, "putBack") => /\ Does(step, i, "takeOut") /\ tower[i] # None
                                            /\ now[i] = None /\ Want(back, i) = tower[i]
             /\ now[i] # None => \/ tower[i] # None /\ ~Does(step, i, "takeOut")
                                 \/ Does(step, i, "putBack")
  <2>1. Does(step, i, "takeOut") \/ Does(step, i, "putBack") \/ Does(step, i, "restore")
          \/ ~Named(step, i)
    BY AfterStepSites
  <2> QED BY <2>1, BackFacts, AfterStepSites DEF Does, Named
<1>3. ASSUME NEW i \in Id
      PROVE  /\ now[i] # None => ~Puts(old, i) /\ ~Puts(new, i)
             /\ Once(old, i) /\ Once(new, i) /\ ~(Puts(old, i) /\ Puts(new, i))
  <2>1. /\ tower[i] # None => ~Puts(from, i) /\ ~Puts(onto, i)
        /\ Once(from, i) /\ Once(onto, i) /\ ~(Puts(from, i) /\ Puts(onto, i))
    BY DEF Held
  <2>2. /\ Once(old, i) /\ (Puts(old, i) => Puts(from, i))
        /\ Does(step, i, "putBack") => Puts(from, i) /\ ~Puts(old, i)
    BY <2>1, NewestOnce
  <2>3. /\ Once(new, i) /\ (Puts(new, i) => Puts(onto, i) \/ Does(back, i, "putBack"))
    BY <1>1, <1>2, <2>1, PushedOnce
  <2> QED BY <1>2, <2>1, <2>2, <2>3
<1>4. \A m \in DOMAIN old : Priced(old[m], ledger)
  BY NewestType DEF Held
<1>5. \A m \in DOMAIN new : Priced(new[m], ledger)
  <2>1. Priced(back, ledger)
    BY <1>2 DEF Priced
  <2> QED BY <1>1, <2>1, PricedPushed DEF Held
<1>6. ASSUME NEW i \in Id, now[i] # None PROVE SoldKept(now[i], ledger[i])
  <2>1. CASE Does(step, i, "putBack")
    <3>1. now[i] = Want(step, i)
      BY <2>1, AfterStepSites
    <3> QED BY <1>1, <2>1, <3>1 DEF Priced
  <2>2. CASE ~Named(step, i)
    BY <1>6, <2>2, AfterStepSites
  <2>3. CASE Does(step, i, "restore")
    <3>1. /\ now[i] = Restored(tower[i], Want(step, i), Left(step, i)) /\ Named(step, i)
          /\ tower[i] # None
      BY <2>3, AfterStepSites DEF AfterStep, Does, Named
    <3>2. tower[i] \in Item /\ Want(step, i).site = tower[i].site
      BY <3>1 DEF Inv, TypeOK, TowerSited, StepSited, SitedIn
    <3> DEFINE puts == PutsBack(Want(step, i).rent, Left(step, i).rent, tower[i].rent)
    <3>3. /\ KindOf(now[i]) = KindOf(tower[i]) /\ now[i].sold = tower[i].sold
          /\ now[i].rent = IF puts THEN Want(step, i).rent ELSE tower[i].rent
      BY <3>1, <3>2 DEF Restored, Item, KindOf
    <3>4. CASE KindOf(tower[i]) = "condo" /\ tower[i].sold
      <4>1. ~OfShaft(step, i)
        BY <3>2, <3>4 DEF OfShaft, IsShaft, KindOf
      <4>2. ~RepricesSold(step, i)
        <5>1. ~Barred(step, i) /\ Expected(step, i)
          BY <3>1, AppliesExpected
        <5> QED BY <2>3, <4>1, <5>1 DEF Barred
      <4>3. ~puts
        BY <3>4, <4>2 DEF RepricesSold
      <4> QED BY <3>1, <3>3, <4>3 DEF SoldKept
    <3>5. CASE ~(KindOf(tower[i]) = "condo" /\ tower[i].sold)
      BY <3>3, <3>5 DEF SoldKept
    <3> QED BY <3>4, <3>5
  <2>4. ~Does(step, i, "takeOut")
    BY <1>6, AfterStepSites
  <2> QED BY <2>1, <2>2, <2>3, <2>4, AfterStepSites
<1> QED BY <1>3, <1>4, <1>5, <1>6 DEF Held

\* With the gesture closed, only the stacks and the tower matter.
LEMMA UndoRedoSold ==
    ASSUME Inv, SoldInv, Undo \/ Redo
    PROVE  SoldInv'
<1> DEFINE U == UndoCommitted
           R == RedoCommitted
<1>1. /\ U \in Seq(Step) /\ R \in Seq(Step) /\ Held(U, R, tower, ledger)
      /\ Held(R, U, tower, ledger)
  <2>1. Held(U, R, tower, ledger)
    BY CommittedHeld
  <2>2. U \in Seq(Step) /\ R \in Seq(Step)
    BY CommittedHolds
  <2> QED BY <2>1, <2>2 DEF Held
<1>2. /\ ledger' = ledger /\ \A i \in Id : ~Took(i)'
      /\ \A i \in Id : tower[i] # None => SoldKept(tower[i], ledger[i])
  <2>1. journal' = NoJournal /\ ledger' = ledger
    BY UndoRedoShape
  <2>2. ~journal'.open
    BY <2>1 DEF NoJournal
  <2> QED BY <2>1, <2>2 DEF Took, SoldInv
<1>3. CASE \E step \in Step :
              /\ StepSited(step, ledger) /\ Applies(step) /\ Take(step)
              /\ \/ /\ U # <<>> /\ step = Newest(U)
                    /\ undo' = Older(U) /\ redo' = Pushed(R, Opposite(step))
                 \/ /\ R # <<>> /\ step = Newest(R)
                    /\ redo' = Older(R) /\ undo' = Pushed(U, Opposite(step))
  <2>1. PICK step \in Step :
              /\ StepSited(step, ledger) /\ Applies(step) /\ Take(step)
              /\ \/ /\ U # <<>> /\ step = Newest(U)
                    /\ undo' = Older(U) /\ redo' = Pushed(R, Opposite(step))
                 \/ /\ R # <<>> /\ step = Newest(R)
                    /\ redo' = Older(R) /\ undo' = Pushed(U, Opposite(step))
    BY <1>3
  <2> HIDE DEF U, R
  <2>2. tower' = AfterStep(step)
    BY <2>1 DEF Take
  <2>3. CASE U # <<>> /\ step = Newest(U) /\ undo' = Older(U)
             /\ redo' = Pushed(R, Opposite(step))
    <3>1. /\ Held(undo', redo', tower', ledger)
          /\ \A i \in Id : tower'[i] # None => SoldKept(tower'[i], ledger[i])
      BY <1>1, <1>2, <2>1, <2>2, <2>3, TakenHeld
    <3> QED BY <1>2, <3>1 DEF SoldInv
  <2>4. CASE R # <<>> /\ step = Newest(R) /\ redo' = Older(R)
             /\ undo' = Pushed(U, Opposite(step))
    <3>1. /\ Held(redo', undo', tower', ledger)
          /\ \A i \in Id : tower'[i] # None => SoldKept(tower'[i], ledger[i])
      BY <1>1, <1>2, <2>1, <2>2, <2>4, TakenHeld
    <3>2. Held(undo', redo', tower', ledger)
      BY <3>1 DEF Held
    <3> QED BY <1>2, <3>1, <3>2 DEF SoldInv
  <2> QED BY <2>1, <2>3, <2>4
<1>4. CASE /\ UNCHANGED <<tower, money>>
           /\ undo' = U \/ (U # <<>> /\ undo' = Older(U))
           /\ redo' = R \/ redo' = <<>>
  <2> HIDE DEF U, R
  <2>1. ASSUME NEW a \in {U, Older(U)}, a = U \/ U # <<>>, NEW b \in {R, <<>>}
        PROVE  Held(a, b, tower, ledger)
    <3>1. ASSUME NEW i \in Id
          PROVE  Once(a, i) /\ (Puts(a, i) => Puts(U, i))
      <4>1. CASE a = U
        BY <1>1, <4>1 DEF Held
      <4>2. CASE a = Older(U) /\ U # <<>>
        BY <1>1, <4>2, NewestOnce DEF Held
      <4> QED BY <2>1, <4>1, <4>2
    <3>2. \A m \in DOMAIN a : Priced(a[m], ledger)
      <4>1. CASE a = U
        BY <1>1, <4>1 DEF Held
      <4>2. CASE a = Older(U) /\ U # <<>>
        BY <1>1, <4>2, NewestType DEF Held
      <4> QED BY <2>1, <4>1, <4>2
    <3>3. /\ \A i \in Id : Once(b, i) /\ (Puts(b, i) => Puts(R, i))
          /\ \A m \in DOMAIN b : Priced(b[m], ledger)
      <4>1. CASE b = R
        BY <1>1, <4>1 DEF Held
      <4>2. CASE b = <<>>
        BY <4>2 DEF Once, Puts
      <4> QED BY <4>1, <4>2
    <3> QED BY <1>1, <3>1, <3>2, <3>3 DEF Held
  <2>2. Held(undo', redo', tower, ledger)
    BY <1>4, <2>1
  <2> QED BY <1>2, <1>4, <2>2 DEF SoldInv
<1> QED BY <1>3, <1>4, UndoRedoShape

\* A sold condo keeps its price in every edit, and leaves with it.
LEMMA EditSold ==
    ASSUME Inv, NEW i \in Id,
           Sell(i) \/ AddCar(i) \/ RemoveCar(i) \/ Reprice(i) \/ Rename(i)
    PROVE  \A entry :
             SoldKept(tower[i], entry) =>
               /\ tower'[i] # None => SoldKept(tower'[i], entry)
               /\ journal'.open /\ tower'[i] = None /\ journal'.touched[i].how = "was" =>
                     SoldKept(journal'.touched[i].item, entry)
<1> DEFINE x == tower[i]
<1>1. x \in Item /\ x # None
  BY EditShape, FactAssumption
<1>2. ASSUME NEW y, y.site = x.site, y.sold = x.sold, y.rent = x.rent \/ KindOf(x) # "condo"
                                                      \/ ~x.sold
      PROVE  \A entry : SoldKept(x, entry) => SoldKept(y, entry)
  BY <1>2 DEF SoldKept, KindOf
<1>3. CASE AddCar(i) \/ RemoveCar(i) \/ Reprice(i) \/ Rename(i)
  <2>1. \E y, n, amount : /\ Edited(i, y, n, amount) /\ y \in Item
                          /\ y.site = x.site /\ y.sold = x.sold
                          /\ y.rent = x.rent \/ KindOf(x) # "condo" \/ ~x.sold
    <3>1. CASE AddCar(i)
      <4> DEFINE y == [x EXCEPT !.cars = @ + 1]
      <4>1. y.site = x.site /\ y.sold = x.sold /\ y.rent = x.rent
        BY <1>1 DEF Item
      <4>2. y \in Item
        <5>1. x.cars \in 0..MaxCars /\ x.cars < MaxCars
          BY <1>1, <3>1 DEF AddCar, Item
        <5>2. x.cars + 1 \in 0..MaxCars
          BY <5>1, NumberAssumption
        <5> QED BY <1>1, <5>2 DEF Item
      <4>3. \E n, amount : Edited(i, y, n, amount)
        BY <3>1 DEF AddCar
      <4> HIDE DEF y
      <4> QED BY <4>1, <4>2, <4>3
    <3>2. CASE RemoveCar(i)
      <4> DEFINE y == [x EXCEPT !.cars = @ - 1]
      <4>1. y.site = x.site /\ y.sold = x.sold /\ y.rent = x.rent
        BY <1>1 DEF Item
      <4>2. y \in Item
        <5>1. x.cars \in 0..MaxCars /\ x.cars > 1
          BY <1>1, <3>2 DEF RemoveCar, Item
        <5>2. x.cars - 1 \in 0..MaxCars
          BY <5>1, NumberAssumption
        <5> QED BY <1>1, <5>2 DEF Item
      <4>3. \E n, amount : Edited(i, y, n, amount)
        BY <3>2 DEF RemoveCar
      <4> HIDE DEF y
      <4> QED BY <4>1, <4>2, <4>3
    <3>3. CASE Reprice(i)
      <4>1. PICK rent \in Rents : \E n, amount : Edited(i, [x EXCEPT !.rent = rent], n, amount)
        BY <3>3 DEF Reprice
      <4> DEFINE y == [x EXCEPT !.rent = rent]
      <4>2. y.site = x.site /\ y.sold = x.sold /\ y \in Item
        BY <1>1 DEF Item
      <4>3. KindOf(x) # "condo" \/ ~x.sold
        BY <3>3 DEF Reprice
      <4>4. \E n, amount : Edited(i, y, n, amount)
        BY <4>1
      <4> HIDE DEF y
      <4> QED BY <4>2, <4>3, <4>4
    <3>4. CASE Rename(i)
      <4>1. PICK name \in Names : \E n, amount : Edited(i, [x EXCEPT !.name = name], n, amount)
        BY <3>4 DEF Rename
      <4> DEFINE y == [x EXCEPT !.name = name]
      <4>2. y.site = x.site /\ y.sold = x.sold /\ y.rent = x.rent /\ y \in Item
        BY <1>1 DEF Item
      <4>3. \E n, amount : Edited(i, y, n, amount)
        BY <4>1
      <4> HIDE DEF y
      <4> QED BY <4>2, <4>3
    <3> QED BY <1>3, <3>1, <3>2, <3>3, <3>4
  <2>2. PICK y, n, amount : /\ Edited(i, y, n, amount) /\ y \in Item
                            /\ y.site = x.site /\ y.sold = x.sold
                            /\ y.rent = x.rent \/ KindOf(x) # "condo" \/ ~x.sold
    BY <2>1
  <2>3. tower'[i] = y /\ y # None
    BY <2>2, FactAssumption DEF Edited, Inv, TypeOK
  <2> QED BY <1>2, <2>2, <2>3
<1>4. CASE Sell(i)
  <2> DEFINE n == NoteOut(journal, i, x)
             seen == journal.touched[i]
  <2>1. tower'[i] = None /\ journal'.open = journal.open /\ journal'.touched = n.touched
    <3>1. PICK amount : Edited(i, None, n, amount)
      BY <1>4 DEF Sell
    <3>2. n \in Journal
      BY <1>1, NoteOutType DEF Inv, TypeOK
    <3>3. journal' = Paid(n, amount) /\ tower' = [tower EXCEPT ![i] = None]
      BY <3>1 DEF Edited
    <3>4. journal'.touched = n.touched /\ journal'.open = n.open
      BY <3>2, <3>3 DEF Paid, Journal
    <3>5. journal'.open = journal.open
      BY <1>4, EditShape
    <3> QED BY <3>3, <3>4, <3>5 DEF Inv, TypeOK
  <2>2. ASSUME journal.open, n.touched[i].how = "was"
        PROVE  n.touched[i].item = x \/ n.touched[i].item = Leaving(x, seen.item)
    <3>1. journal \in Journal /\ seen \in Touch \cup {None}
      BY DEF Inv, TypeOK, Journal
    <3>2. CASE seen = None
      <4>1. n = [journal EXCEPT !.touched[i] = [how |-> "was", item |-> x]]
        BY <2>2, <3>2 DEF NoteOut
      <4> QED BY <3>1, <4>1 DEF Journal
    <3>3. CASE seen # None /\ seen.how = "was"
      <4> DEFINE b == IF IsShaft(x) THEN NoteBought(journal, seen.item, x) ELSE journal
      <4>1. n = [b EXCEPT !.touched[i].item = Leaving(x, seen.item)]
        BY <2>2, <3>3 DEF NoteOut
      <4>2. b \in Journal /\ b.touched = journal.touched
        BY <3>1, NoteBoughtType DEF NoteBought, Journal
      <4>3. seen \in [how : {"was", "added", "addedAndUsed"}, item : Item]
        BY <3>1, <3>3 DEF Touch
      <4> HIDE DEF b
      <4>4. n.touched[i] = [seen EXCEPT !.item = Leaving(x, seen.item)]
        BY <4>1, <4>2 DEF Journal
      <4> QED BY <4>3, <4>4
    <3>4. CASE seen # None /\ seen.how = "added" /\ IsShaft(x)
      <4>1. n.touched = journal.touched
        BY <2>2, <3>1, <3>4 DEF NoteOut, Journal
      <4> QED BY <2>2, <3>4, <4>1
    <3>5. CASE seen # None /\ seen.how = "added" /\ ~IsShaft(x)
      <4> DEFINE u == IF UseOf(x) = UseOf(seen.item) THEN seen
                      ELSE [how |-> "addedAndUsed", item |-> x]
      <4>1. n = [journal EXCEPT !.touched[i] = u, !.tookOwn = @ \/ IsFloor(x)]
        BY <2>2, <3>5 DEF NoteOut
      <4>2. u.how # "was"
        BY <3>5
      <4> HIDE DEF u
      <4>3. n.touched[i] = u
        BY <3>1, <4>1 DEF Journal
      <4> QED BY <2>2, <4>2, <4>3
    <3>6. CASE seen # None /\ seen.how = "addedAndUsed"
      <4>1. n.touched = journal.touched
        BY <2>2, <3>6 DEF NoteOut
      <4> QED BY <2>2, <3>6, <4>1
    <3> QED BY <3>1, <3>2, <3>3, <3>4, <3>5, <3>6 DEF Touch
  <2>3. ASSUME NEW found
        PROVE  LET y == Leaving(x, found)
               IN  /\ y.site = x.site /\ y.sold = x.sold
                   /\ y.rent = x.rent \/ KindOf(x) # "condo" \/ ~x.sold
    BY <1>1 DEF Leaving, Item
  <2> HIDE DEF n, seen, x
  <2>4. ASSUME NEW entry, SoldKept(x, entry), journal'.open, journal'.touched[i].how = "was"
        PROVE  SoldKept(journal'.touched[i].item, entry)
    BY <1>2, <2>1, <2>2, <2>3, <2>4
  <2> QED BY <2>1, <2>4 DEF x
<1> QED BY <1>3, <1>4

\* Nothing new to put back, and what stood or the gesture took is no more.
LEMMA SameHeld ==
    ASSUME Held(undo, redo, tower, ledger), UNCHANGED <<undo, redo>>,
           GoodSteps(undo, ledger), GoodSteps(redo, ledger),
           \A i \in Id : ledger[i] # None /\ tower[i] = None => ledger'[i] = ledger[i],
           \A i \in Id : ledger[i] # None /\ tower'[i] # None => tower[i] # None
    PROVE  Held(undo', redo', tower', ledger')
<1>1. ASSUME NEW i \in Id, Puts(undo, i) \/ Puts(redo, i)
      PROVE  tower[i] = None /\ ledger[i] # None /\ tower'[i] = None /\ ledger'[i] = ledger[i]
  <2>1. tower[i] = None
    BY <1>1 DEF Held
  <2>2. ledger[i] # None
    BY <1>1 DEF Puts, GoodSteps, StepSited, SitedIn, Does, Named
  <2> QED BY <2>1, <2>2
<1>2. ASSUME NEW stack, \A m \in DOMAIN stack : Priced(stack[m], ledger),
             \A i \in Id : Puts(stack, i) => ledger'[i] = ledger[i]
      PROVE  \A m \in DOMAIN stack : Priced(stack[m], ledger')
  BY <1>2 DEF Priced, Puts
<1>3. /\ \A m \in DOMAIN undo : Priced(undo[m], ledger')
      /\ \A m \in DOMAIN redo : Priced(redo[m], ledger')
  BY <1>1, <1>2 DEF Held
<1> QED BY <1>1, <1>3 DEF Held

LEMMA EditKeepsSold ==
    ASSUME Inv, SoldInv, NEW i \in Id,
           Sell(i) \/ AddCar(i) \/ RemoveCar(i) \/ Reprice(i) \/ Rename(i)
    PROVE  SoldInv'
<1>1. /\ UNCHANGED <<undo, redo, ledger>> /\ tower[i] # None
      /\ \A k \in Id : k # i => /\ tower'[k] = tower[k]
                                /\ journal'.touched[k] = journal.touched[k]
      /\ journal'.open = journal.open
  BY EditShape, FactAssumption
<1>2. Held(undo', redo', tower', ledger')
  BY <1>1, SameHeld DEF SoldInv, Inv
<1>3. SoldKept(tower[i], ledger[i])
  BY <1>1 DEF SoldInv
<1>4. \A k \in Id : tower'[k] # None => SoldKept(tower'[k], ledger'[k])
  BY <1>1, <1>3, EditSold DEF SoldInv
<1>5. ASSUME NEW k \in Id, Took(k)'
      PROVE  /\ ~Puts(undo', k) /\ ~Puts(redo', k)
             /\ SoldKept(journal'.touched[k].item, ledger'[k])
  <2>1. CASE k # i
    BY <1>1, <1>5, <2>1 DEF Took, SoldInv
  <2>2. CASE k = i
    <3>1. ~Puts(undo, i) /\ ~Puts(redo, i)
      BY <1>1 DEF SoldInv, Held
    <3> QED BY <1>1, <1>3, <1>5, <2>2, <3>1, EditSold DEF Took
  <2> QED BY <2>1, <2>2
<1> QED BY <1>2, <1>4, <1>5 DEF SoldInv

LEMMA BuildKeepsSold ==
    ASSUME Inv, SoldInv, NEW s \in Site, Build(s)
    PROVE  SoldInv'
<1> DEFINE Old(i) == /\ tower'[i] = tower[i] /\ ledger'[i] = ledger[i]
                     /\ journal'.touched[i] = journal.touched[i]
           New(i) == /\ tower[i] = None /\ ledger[i] = None /\ tower'[i] \in Item
                     /\ ~tower'[i].sold
<1>1. /\ UNCHANGED <<undo, redo>> /\ journal'.open = journal.open
      /\ \A i \in Id : Old(i) \/ New(i)
  BY BuildShape
<1>2. Held(undo', redo', tower', ledger')
  BY <1>1, SameHeld DEF SoldInv, Inv
<1>3. \A i \in Id : tower'[i] # None => SoldKept(tower'[i], ledger'[i])
  BY <1>1 DEF SoldInv, SoldKept
<1>4. \A i \in Id : Took(i)' => Took(i) /\ Old(i)
  BY <1>1, FactAssumption DEF Took
<1> QED BY <1>1, <1>2, <1>3, <1>4 DEF SoldInv

\* Time never changes the price of a room.
LEMMA MovedRent ==
    ASSUME NEW x \in Item, NEW hourly \in BOOLEAN, NEW y \in Moved(x, hourly)
    PROVE  y.rent = x.rent
<1>1. CASE IsShaft(x)
  BY <1>1 DEF Moved, Ridden, Item
<1>2. CASE IsRoom(x) /\ ~IsShaft(x)
  <2>1. y \in Lived(x, hourly) /\ x.use \in Uses
    BY <1>2 DEF Moved, Item
  <2> QED BY <2>1 DEF Lived, Item, Uses
<1> QED BY <1>1, <1>2 DEF Moved

LEMMA AdvanceKeepsSold ==
    ASSUME Inv, SoldInv, Advance
    PROVE  SoldInv'
<1>1. /\ UNCHANGED <<journal, undo, redo>>
      /\ \A i \in Id : /\ (tower'[i] = None) = (tower[i] = None)
                       /\ tower[i] # None => tower'[i].site = tower[i].site
                       /\ tower[i] = None => ledger'[i] = ledger[i]
  BY AdvanceShape
<1>2. Held(undo', redo', tower', ledger')
  BY <1>1, SameHeld DEF SoldInv, Inv
<1>3. ASSUME NEW i \in Id, tower'[i] # None PROVE SoldKept(tower'[i], ledger'[i])
  <2>1. PICK hourly \in BOOLEAN :
          /\ \/ \E k \in Standing(tower) : \E x \in Moved(tower[k], hourly) :
                  tower' = [tower EXCEPT ![k] = x]
             \/ tower' = tower
          /\ ledger' = [k \in Id |-> IF tower'[k] = None THEN ledger[k]
                                     ELSE Used(ledger[k], tower[k], tower'[k], hourly)]
    BY Zenon DEF Advance
  <2>2. tower[i] \in Item /\ tower'[i].rent = tower[i].rent /\ ledger[i] \in Entry
    <3>1. tower[i] \in Item /\ tower \in [Id -> Item \cup {None}] /\ ledger[i] \in Entry
      BY <1>1, <1>3 DEF Inv, TypeOK, TowerSited, SitedIn
    <3>2. ASSUME NEW k \in Standing(tower), NEW x \in Moved(tower[k], hourly),
                 tower' = [tower EXCEPT ![k] = x]
          PROVE  tower'[i].rent = tower[i].rent
      <4>1. k \in Id /\ tower[k] \in Item
        BY <3>1 DEF Standing
      <4>2. x.rent = tower[k].rent
        BY <4>1, MovedRent
      <4> QED BY <3>1, <3>2, <4>1, <4>2
    <3> QED BY <2>1, <3>1, <3>2
  <2>3. ledger'[i].sale = IF ~tower'[i].sold THEN None
                          ELSE IF tower[i].sold THEN ledger[i].sale ELSE tower'[i].rent
    <3>1. ledger'[i] = Used(ledger[i], tower[i], tower'[i], hourly)
      BY <1>3, <2>1
    <3> QED BY <2>2, <3>1 DEF Used, Entry
  <2>4. KindOf(tower'[i]) = KindOf(tower[i]) /\ SoldKept(tower[i], ledger[i])
    BY <1>1, <1>3 DEF KindOf, SoldInv
  <2> QED BY <2>2, <2>3, <2>4 DEF SoldKept
<1>4. \A i \in Id : Took(i)' => Took(i) /\ ledger'[i] = ledger[i]
  BY <1>1 DEF Took
<1> QED BY <1>1, <1>2, <1>3, <1>4 DEF SoldInv

LEMMA CloseKeepsSold ==
    ASSUME Inv, SoldInv, Capture \/ Commit
    PROVE  SoldInv'
<1>1. /\ undo' = UndoCommitted /\ redo' = RedoCommitted
      /\ tower' = tower /\ ledger' = ledger
      /\ journal' = OpenJournal \/ journal' = NoJournal
  BY DEF Capture, Commit, world
<1>2. \A i \in Id : ~Took(i)'
  <2>1. NoJournal.touched = [i \in Id |-> None] /\ OpenJournal.touched = NoJournal.touched
    BY DEF NoJournal, OpenJournal
  <2> QED BY <1>1, <2>1 DEF Took
<1> QED BY <1>1, <1>2, CommittedHeld DEF SoldInv

LEMMA InitSold == Init => SoldInv
<1> SUFFICES ASSUME Init PROVE SoldInv
  OBVIOUS
<1>1. ASSUME NEW i \in Id, tower[i] # None PROVE SoldKept(tower[i], ledger[i])
  <2>1. tower[i] = Placed(Begun[i])
    BY <1>1 DEF Init, StartTower
  <2> QED BY <2>1 DEF Placed, SoldKept
<1>2. ~journal.open /\ undo = <<>> /\ redo = <<>>
  BY DEF Init, NoJournal
<1> QED BY <1>1, <1>2 DEF SoldInv, Held, Took, Puts, Once

\* Every step keeps it.
LEMMA KeepsSold == Inv /\ SoldInv /\ [Next]_vars => SoldInv'
<1> SUFFICES ASSUME Inv, SoldInv, [Next]_vars PROVE SoldInv'
  OBVIOUS
<1>1. CASE Capture \/ Commit
  BY <1>1, CloseKeepsSold
<1>2. CASE \E s \in Site : Build(s)
  BY <1>2, BuildKeepsSold
<1>3. CASE \E i \in Id : Sell(i) \/ AddCar(i) \/ RemoveCar(i) \/ Reprice(i) \/ Rename(i)
  BY <1>3, EditKeepsSold
<1>4. CASE Advance
  BY <1>4, AdvanceKeepsSold
<1>5. CASE Undo \/ Redo
  BY <1>5, UndoRedoSold
<1>6. CASE Adopt
  <2>1. Init'
    BY <1>6 DEF Adopt, Init
  <2>2. Init' => SoldInv'
    BY InitSold, PTL
  <2> QED BY <2>1, <2>2
<1>7. CASE UNCHANGED vars
  BY <1>7 DEF vars, SoldInv, Took
<1> QED BY <1>1, <1>2, <1>3, <1>4, <1>5, <1>6, <1>7 DEF Next

(* A sold condo keeps the price it sold at, whatever prices were set,      *)
(* undone and redone before and after, and through sales that undo puts    *)
(* back: what a step or the journal holds of it has that price, and no two *)
(* steps hold it (StepRefused::PriceFixed, Unit::with_edit_facts_of).      *)
THEOREM SoldPricesStay == Spec => []SoldPriceFixed
<1>1. Init => SoldInv
  BY InitSold
<1>2. Inv /\ SoldInv /\ [Next]_vars => SoldInv'
  BY KeepsSold
<1>3. SoldInv => SoldPriceFixed
  BY DEF SoldInv, SoldPriceFixed, SoldKept, Standing
<1> QED BY <1>1, <1>2, <1>3, Invariant, PTL DEF Spec

-----------------------------------------------------------------------------
(* What a step means where time does not pass: it leads from one tower to  *)
(* another, whole.                                                         *)

(* An item as it was built: nobody has lived in it or ridden it.           *)
New(x) == x.use = Placed(x.site).use /\ ~x.sold /\ x.rides = 0

(* A tower of such items, each at the place its id was built, apart and on *)
(* its floor.                                                              *)
Stood(t, led) ==
    /\ t \in [Id -> Item \cup {None}]
    /\ \A i \in Id : t[i] # None => SitedIn(i, t[i], led) /\ New(t[i])
    /\ \A i, k \in Id : t[i] # None /\ t[k] # None /\ t[i].site = t[k].site => i = k
    /\ \A i \in Id : t[i] # None => \A f \in Rests[t[i].site] : HeldAt(t, f)

(* The image makes y of x.                                                 *)
Gives(image, x, y) ==
    \/ image = None /\ y = x
    \/ /\ image \in Image /\ image.do = "takeOut" /\ x # None /\ y = None
       /\ image.want.site = x.site /\ image.left.site = x.site /\ New(image.left)
       /\ IsShaft(x) => image.left.cars = x.cars
    \/ image \in Image /\ image.do = "putBack" /\ x = None /\ y = image.want
    \/ /\ image \in Image /\ image.do = "restore" /\ x # None
       /\ image.want.site = x.site /\ y = Restored(x, image.want, image.left)
       /\ image.left.rides = 0
       /\ IsShaft(x) => image.left.cars = x.cars

Leads(step, t, u, led) ==
    /\ step \in Step /\ ~step.searched /\ ~step.usedInGesture /\ step.hour = 0
    /\ Stood(t, led) /\ Stood(u, led)
    /\ \A i \in Id : Gives(step.images[i], t[i], u[i])
    /\ step.held = [k \in Kinds |-> Count(t, k)]

\* What an image that gives y is.
LEMMA GivesFacts ==
    ASSUME NEW image, NEW x \in Item \cup {None}, NEW y, Gives(image, x, y),
           NEW led, NEW i \in Id, x # None => SitedIn(i, x, led), y # None => SitedIn(i, y, led)
    PROVE  /\ image = None => y = x
           /\ image # None =>
                /\ image \in Image /\ image.do \in {"takeOut", "putBack", "restore"}
                /\ image.want \in Item /\ image.left \in Item
                /\ image.do = "putBack" <=> x = None
           /\ image # None /\ image.do = "takeOut" =>
                /\ x \in Item /\ y = None /\ image.want.site = x.site
                /\ image.left.site = x.site /\ New(image.left)
                /\ IsShaft(x) => image.left.cars = x.cars
           /\ image # None /\ image.do = "putBack" => x = None /\ y = image.want /\ y \in Item
           /\ image # None /\ image.do = "restore" =>
                /\ x \in Item /\ y \in Item /\ image.want.site = x.site
                /\ y = Restored(x, image.want, image.left) /\ Restored(y, x, y) = x
                /\ y.site = x.site /\ image.left.rides = 0
                /\ IsShaft(x) => image.left.cars = x.cars
           /\ x # None /\ y # None => x.site = y.site
<1>1. CASE image = None
  BY <1>1, FactAssumption DEF Gives
<1>2. CASE image # None
  <2>1. /\ image \in Image /\ image.do \in {"takeOut", "putBack", "restore"}
        /\ image.want \in Item /\ image.left \in Item
    BY <1>2 DEF Gives, Image
  <2>2. CASE image.do = "takeOut"
    BY <1>2, <2>1, <2>2 DEF Gives
  <2>3. CASE image.do = "putBack"
    BY <1>2, <2>1, <2>3, FactAssumption DEF Gives
  <2>4. CASE image.do = "restore"
    <3>1. /\ x # None /\ image.want.site = x.site /\ y = Restored(x, image.want, image.left)
          /\ image.left.rides = 0 /\ (IsShaft(x) => image.left.cars = x.cars)
      BY <1>2, <2>1, <2>4 DEF Gives
    <3>2. x \in Item
      BY <3>1
    <3>3. y \in Item /\ Restored(y, x, y) = x
      BY <2>1, <3>1, <3>2, RestoredTwice
    <3>4. y.site = x.site
      BY <3>1, <3>2 DEF Restored, Item
    <3> QED BY <2>1, <2>4, <3>1, <3>2, <3>3, <3>4, FactAssumption
  <2> QED BY <1>2, <2>1, <2>2, <2>3, <2>4
<1> QED BY <1>1, <1>2

\* A step that leads from t to u, at the item i.
LEMMA LeadsFacts ==
    ASSUME NEW step, NEW t, NEW u, NEW led, Leads(step, t, u, led), NEW i \in Id
    PROVE  /\ t[i] # None => t[i] \in Item /\ New(t[i]) /\ SitedIn(i, t[i], led)
           /\ u[i] # None => u[i] \in Item /\ New(u[i]) /\ SitedIn(i, u[i], led)
           /\ t[i] # None /\ u[i] # None => t[i].site = u[i].site
           /\ ~Named(step, i) => u[i] = t[i]
           /\ Named(step, i) =>
                /\ step.images[i] \in Image
                /\ Want(step, i) \in Item /\ Left(step, i) \in Item
                /\ Does(step, i, "takeOut") \/ Does(step, i, "putBack") \/ Does(step, i, "restore")
                /\ Does(step, i, "putBack") <=> t[i] = None
           /\ Does(step, i, "takeOut") =>
                /\ t[i] # None /\ u[i] = None /\ Want(step, i).site = t[i].site
                /\ Left(step, i).site = t[i].site /\ New(Left(step, i))
                /\ IsShaft(t[i]) => Left(step, i).cars = t[i].cars
                /\ ~Does(step, i, "putBack") /\ ~Does(step, i, "restore")
           /\ Does(step, i, "putBack") =>
                /\ t[i] = None /\ u[i] = Want(step, i) /\ u[i] # None
                /\ ~Does(step, i, "takeOut") /\ ~Does(step, i, "restore")
           /\ Does(step, i, "restore") =>
                /\ t[i] # None /\ u[i] # None /\ Want(step, i).site = t[i].site
                /\ u[i] = Restored(t[i], Want(step, i), Left(step, i))
                /\ Restored(u[i], t[i], u[i]) = t[i] /\ Left(step, i).rides = 0
                /\ IsShaft(t[i]) => Left(step, i).cars = t[i].cars
                /\ ~Does(step, i, "takeOut") /\ ~Does(step, i, "putBack")
<1> DEFINE image == step.images[i]
           x == t[i]
           y == u[i]
<1>1. /\ x \in Item \cup {None} /\ y \in Item \cup {None} /\ Gives(image, x, y)
      /\ x # None => SitedIn(i, x, led) /\ New(x)
      /\ y # None => SitedIn(i, y, led) /\ New(y)
  BY DEF Leads, Stood
<1> HIDE DEF image, x, y
<1>2. /\ image = None => y = x
      /\ image # None =>
           /\ image \in Image /\ image.do \in {"takeOut", "putBack", "restore"}
           /\ image.want \in Item /\ image.left \in Item
           /\ image.do = "putBack" <=> x = None
      /\ image # None /\ image.do = "takeOut" =>
           /\ x \in Item /\ y = None /\ image.want.site = x.site
           /\ image.left.site = x.site /\ New(image.left)
           /\ IsShaft(x) => image.left.cars = x.cars
      /\ image # None /\ image.do = "putBack" => x = None /\ y = image.want /\ y \in Item
      /\ image # None /\ image.do = "restore" =>
           /\ x \in Item /\ y \in Item /\ image.want.site = x.site
           /\ y = Restored(x, image.want, image.left) /\ Restored(y, x, y) = x
           /\ y.site = x.site /\ image.left.rides = 0
           /\ IsShaft(x) => image.left.cars = x.cars
      /\ x # None /\ y # None => x.site = y.site
  <2>1. /\ x \in Item \cup {None} /\ Gives(image, x, y) /\ i \in Id
        /\ x # None => SitedIn(i, x, led)
        /\ y # None => SitedIn(i, y, led)
    BY <1>1
  <2> QED BY ONLY <2>1, GivesFacts, Zenon
<1>3. None \notin Item
  BY FactAssumption
<1> QED BY <1>1, <1>2, <1>3 DEF image, x, y, Named, Does, Want, Left

(* What applying the step makes of the tower.                              *)
LEMMA LeadsMakes ==
    ASSUME NEW step, NEW u, Leads(step, tower, u, ledger)
    PROVE  AfterStep(step) = u
<1>1. ASSUME NEW i \in Id PROVE AfterStep(step)[i] = u[i]
  <2>1. AfterStep(step)[i] =
            IF ~Named(step, i) THEN tower[i]
            ELSE CASE Does(step, i, "takeOut") -> None
                   [] Does(step, i, "putBack") -> Want(step, i)
                   [] OTHER -> Restored(tower[i], Want(step, i), Left(step, i))
    BY <1>1 DEF AfterStep
  <2>2. CASE ~Named(step, i)
    BY <1>1, <2>1, <2>2, LeadsFacts
  <2>3. CASE Does(step, i, "takeOut")
    BY <1>1, <2>1, <2>3, LeadsFacts DEF Does, Named
  <2>4. CASE Does(step, i, "putBack")
    BY <1>1, <2>1, <2>4, LeadsFacts DEF Does, Named
  <2>5. CASE Does(step, i, "restore")
    BY <1>1, <2>1, <2>5, LeadsFacts DEF Does, Named
  <2> QED BY <1>1, <2>2, <2>3, <2>4, <2>5, LeadsFacts
<1>2. u = [i \in Id |-> u[i]]
  BY DEF Leads, Stood
<1> QED BY <1>1, <1>2 DEF AfterStep

(* The floor under what will stand, and the room for it.                   *)
LEMMA LeadsGrounded ==
    ASSUME NEW step, NEW u, Leads(step, tower, u, ledger), NEW i \in Id, u[i] # None,
           NEW x, x.site = u[i].site
    PROVE  Grounded(step, x)
<1>1. ASSUME NEW f \in Rests[x.site] PROVE Holds(step, f)
  <2>1. PICK k \in Id : u[k] # None /\ u[k].site = f
    BY <1>1 DEF Leads, Stood, HeldAt, Standing
  <2>2. CASE tower[k] = None
    <3>1. Named(step, k)
      BY <2>1, <2>2, LeadsFacts
    <3>2. Does(step, k, "putBack")
      BY <2>2, <3>1, LeadsFacts
    <3> QED BY <2>1, <3>2, LeadsFacts DEF Holds
  <2>3. CASE tower[k] # None
    <3>1. tower[k].site = f /\ ~Does(step, k, "takeOut")
      BY <2>1, <2>3, LeadsFacts
    <3> QED BY <2>3, <3>1 DEF Holds
  <2> QED BY <2>2, <2>3
<1> QED BY <1>1 DEF Grounded

LEMMA LeadsHasRoom ==
    ASSUME NEW step, NEW u, Leads(step, tower, u, ledger), NEW i \in Id, Named(step, i),
           u[i] # None
    PROVE  /\ Does(step, i, "putBack") => HasRoom(step, i)
           /\ OfShaft(step, i) => HasRoom(step, i)
<1>1. Want(step, i).site = u[i].site
  BY LeadsFacts
<1>2. Grounded(step, Want(step, i))
  BY <1>1, LeadsGrounded
<1>3. ASSUME NEW k \in Standing(tower), tower[k].site = Want(step, i).site, k # i
      PROVE  Does(step, k, "takeOut")
  <2>1. k \in Id /\ tower[k] # None
    BY DEF Standing
  <2>2. u[k] = None
    <3>1. SUFFICES ASSUME u[k] # None PROVE FALSE
      OBVIOUS
    <3>2. u[k].site = u[i].site
      BY <1>1, <1>3, <2>1, <3>1, LeadsFacts
    <3> QED BY <1>3, <2>1, <3>1, <3>2 DEF Leads, Stood
  <2>3. Named(step, k)
    BY <2>1, <2>2, LeadsFacts
  <2> QED BY <2>1, <2>2, <2>3, LeadsFacts
<1>4. CASE Does(step, i, "putBack")
  <2>1. ASSUME NEW k \in Standing(tower), tower[k].site = Want(step, i).site
        PROVE  Does(step, k, "takeOut") /\ Named(step, k)
    <3>1. k # i
      BY <1>4, <2>1, LeadsFacts DEF Standing
    <3> QED BY <1>3, <2>1, <3>1 DEF Does, Named
  <2> QED BY <1>2, <2>1 DEF HasRoom
<1>5. CASE OfShaft(step, i)
  <2>1. ASSUME NEW k \in Standing(tower), tower[k].site = Want(step, i).site
        PROVE  Named(step, k)
    BY <1>3, <2>1 DEF Does, Named
  <2> QED BY <1>2, <1>5, <2>1 DEF HasRoom
<1> QED BY <1>4, <1>5

(* Floor the step takes out leaves nothing hanging.                        *)
LEMMA LeadsHangsNot ==
    ASSUME NEW step, NEW u, Leads(step, tower, u, ledger), NEW i \in Id,
           Does(step, i, "takeOut")
    PROVE  ~Hangs(step, i)
<1> SUFFICES ASSUME Hangs(step, i) PROVE FALSE
  OBVIOUS
<1>1. /\ ~Laid(step, tower[i].site) /\ tower[i] # None /\ u[i] = None
  BY LeadsFacts DEF Hangs
<1>2. PICK k \in Standing(tower) :
         /\ tower[i].site \in Rests[tower[k].site]
         /\ IF IsShaft(tower[k]) THEN ~Named(step, k) ELSE ~Does(step, k, "takeOut")
  BY DEF Hangs
<1>3. k \in Id /\ tower[k] # None /\ ~Does(step, k, "takeOut")
  BY <1>2 DEF Standing, Does, Named
<1>4. u[k] # None /\ u[k].site = tower[k].site
  <2>1. u[k] # None
    BY <1>3, LeadsFacts
  <2> QED BY <1>3, <2>1, LeadsFacts
<1>5. PICK j \in Id : u[j] # None /\ u[j].site = tower[i].site
  <2>1. tower[i].site \in Rests[u[k].site]
    BY <1>2, <1>4
  <2>2. HeldAt(u, tower[i].site)
    BY <1>3, <1>4, <2>1 DEF Leads, Stood
  <2> QED BY <2>2 DEF HeldAt, Standing
<1>6. j # i
  BY <1>1, <1>5
<1>7. tower[j] = None
  <2>1. SUFFICES ASSUME tower[j] # None PROVE FALSE
    OBVIOUS
  <2>2. tower[j].site = tower[i].site
    BY <1>5, <2>1, LeadsFacts
  <2> QED BY <1>1, <1>6, <2>1, <2>2 DEF Leads, Stood
<1>8. Does(step, j, "putBack") /\ Want(step, j) = u[j]
  <2>1. Named(step, j)
    BY <1>5, <1>7, LeadsFacts
  <2>2. Does(step, j, "putBack")
    BY <1>7, <2>1, LeadsFacts
  <2> QED BY <2>2, LeadsFacts
<1> QED BY <1>1, <1>5, <1>8 DEF Laid

(* New items of one place have been used alike.                            *)
LEMMA NewAlike ==
    ASSUME NEW x, NEW y, New(x), New(y), x.site = y.site
    PROVE  /\ x.use # "fire" /\ ~x.sold /\ x.rides = 0 /\ y.rides = 0
           /\ x.use = y.use /\ KindOf(x) = KindOf(y)
<1>1. Placed(x.site).use \in {"building", "idle"} /\ x.use = Placed(x.site).use
      /\ y.use = Placed(y.site).use
  BY DEF New, Placed
<1> QED BY <1>1 DEF New, KindOf

(* Nothing bars the step.                                                  *)
LEMMA LeadsFree ==
    ASSUME NEW step, NEW u, Leads(step, tower, u, ledger), hours = 0, NEW i \in Id
    PROVE  /\ Named(step, i) => ~Barred(step, i)
           /\ ~OnFire(step, i)
<1>1. step.hour = 0
  BY DEF Leads
<1>2. ~OnFire(step, i)
  BY LeadsFacts, NewAlike DEF OnFire
<1>3. ASSUME Named(step, i) PROVE Expected(step, i)
  <2>1. OfShaft(step, i) /\ tower[i] # None => tower[i].cars = Left(step, i).cars
    <3>1. SUFFICES ASSUME OfShaft(step, i), tower[i] # None
                   PROVE  tower[i].cars = Left(step, i).cars
      OBVIOUS
    <3>2. Does(step, i, "takeOut") \/ Does(step, i, "restore")
      BY <1>3, <3>1, LeadsFacts
    <3>3. Want(step, i).site = tower[i].site
      BY <3>2, LeadsFacts
    <3>4. IsShaft(tower[i])
      BY <3>1, <3>3 DEF OfShaft, IsShaft, KindOf
    <3> QED BY <3>2, <3>4, LeadsFacts
  <2>2. (tower[i] = None) <=> Does(step, i, "putBack")
    BY <1>3, LeadsFacts DEF Does
  <2> QED BY <2>1, <2>2 DEF Expected, Does
<1>4. ASSUME Does(step, i, "takeOut")
      PROVE  ~UsedShaft(step, i) /\ ~UsedUnit(step, i)
  <2>1. New(tower[i]) /\ New(Left(step, i)) /\ Left(step, i).site = tower[i].site
    BY <1>4, LeadsFacts
  <2>2. UseOf(tower[i]) = UseOf(Left(step, i)) /\ AsSold(tower[i]) = AsSold(Left(step, i))
    <3>1. tower[i].use = Left(step, i).use /\ tower[i].sold = Left(step, i).sold
      <4>1. tower[i].sold \in BOOLEAN /\ Left(step, i).sold \in BOOLEAN
        BY <1>4, LeadsFacts DEF Item, Does, Named
      <4> QED BY <2>1, <4>1, NewAlike
    <3> QED BY <3>1 DEF UseOf, AsSold
  <2>3. tower[i].rides = Left(step, i).rides
    BY <2>1, NewAlike
  <2> QED BY <1>1, <2>2, <2>3 DEF UsedShaft, UsedUnit
<1>5. ASSUME Does(step, i, "restore")
      PROVE  ~UsedShaft(step, i) /\ ~RepricesSold(step, i)
  <2>1. New(tower[i]) /\ Left(step, i).rides = 0
    BY <1>5, LeadsFacts
  <2> QED BY <1>1, <2>1 DEF UsedShaft, RepricesSold, New
<1>6. ASSUME Named(step, i), Barred(step, i) PROVE FALSE
  <2>1. CASE Does(step, i, "takeOut")
    <3>1. ~Does(step, i, "putBack") /\ ~Does(step, i, "restore")
      BY <2>1, LeadsFacts
    <3>2. ~Hangs(step, i)
      BY <2>1, LeadsHangsNot
    <3> QED BY <1>3, <1>4, <1>6, <2>1, <3>1, <3>2 DEF Barred
  <2>2. CASE Does(step, i, "putBack")
    <3>1. ~Does(step, i, "takeOut") /\ ~Does(step, i, "restore") /\ u[i] # None
      BY <2>2, LeadsFacts
    <3>2. HasRoom(step, i)
      BY <1>6, <2>2, <3>1, LeadsHasRoom
    <3> QED BY <1>3, <1>6, <3>1, <3>2 DEF Barred
  <2>3. CASE Does(step, i, "restore")
    <3>1. ~Does(step, i, "takeOut") /\ ~Does(step, i, "putBack") /\ u[i] # None
      BY <2>3, LeadsFacts
    <3>2. OfShaft(step, i) => HasRoom(step, i)
      BY <1>6, <3>1, LeadsHasRoom
    <3> QED BY <1>3, <1>5, <1>6, <2>3, <3>1, <3>2 DEF Barred
  <2> QED BY <1>6, <2>1, <2>2, <2>3, LeadsFacts
<1> QED BY <1>2, <1>6

(* A step applies wherever it leads on from the tower, but for a balance   *)
(* that cannot pay for it.                                                 *)
LEMMA LeadsApplies ==
    ASSUME NEW step, NEW u, Leads(step, tower, u, ledger), hours = 0
    PROVE  /\ ~Lasting(step) /\ AfterStep(step) = u
           /\ Passing(step) => NotEnoughMoney(step)
<1>1. ~step.searched /\ ~step.usedInGesture
  BY DEF Leads
<1>2. WithinCaps(step)
  <2>1. ASSUME NEW k \in Kinds PROVE Count(tower, k) <= step.held[k]
    <3>1. step.held[k] = Count(tower, k) /\ tower \in [Id -> Item \cup {None}]
      BY DEF Leads, Stood
    <3>2. Count(tower, k) \in 0..MaxId
      BY <3>1, CountType
    <3> QED BY <3>1, <3>2, NumberAssumption
  <2> QED BY <2>1 DEF WithinCaps
<1>3. \A i \in Id : (Named(step, i) => ~Barred(step, i)) /\ ~OnFire(step, i)
  BY LeadsFree
<1> QED BY <1>1, <1>2, <1>3, LeadsMakes DEF Lasting, Passing

(* The opposite step leads back.                                           *)
LEMMA LeadsBack ==
    ASSUME TypeOK, NEW step, NEW u, Leads(step, tower, u, ledger), hours = 0, Applies(step)
    PROVE  Leads(Opposite(step), u, tower, ledger)
<1> DEFINE back == Opposite(step)
<1>1. AfterStep(step) = u /\ step \in Step
  BY LeadsMakes DEF Leads
<1>2. back \in Step
  BY <1>1, OppositeType
<1>3. /\ ~back.searched /\ ~back.usedInGesture /\ back.hour = 0
      /\ back.held = [k \in Kinds |-> Count(u, k)]
  BY <1>1 DEF Opposite
<1>4. ASSUME NEW i \in Id PROVE Gives(back.images[i], u[i], tower[i])
  <2> DEFINE image == step.images[i]
             turn == back.images[i]
  <2>1. turn = IF ~Named(step, i) THEN None ELSE
               CASE image.do = "takeOut" ->
                      [image EXCEPT !.do = "putBack", !.want = tower[i], !.left = tower[i]]
                 [] image.do = "putBack" ->
                      [image EXCEPT !.do = "takeOut", !.left = image.want]
                 [] OTHER ->
                      [image EXCEPT !.want = tower[i], !.left = u[i],
                                    !.built = IF OfShaft(step, i) THEN ~@ ELSE @]
    BY <1>1 DEF Opposite, BackImage
  <2>2. turn \in Image \cup {None} /\ (Named(step, i) => image \in Image)
    BY <1>2, LeadsFacts DEF Step
  <2>3. CASE ~Named(step, i)
    BY <2>1, <2>3, LeadsFacts DEF Gives
  <2>4. CASE Does(step, i, "takeOut")
    <3>1. tower[i] # None /\ u[i] = None /\ Named(step, i) /\ image.do = "takeOut"
      BY <2>4, LeadsFacts DEF Does, Named
    <3>2. turn = [image EXCEPT !.do = "putBack", !.want = tower[i], !.left = tower[i]]
      BY <2>1, <3>1
    <3>3. turn.do = "putBack" /\ turn.want = tower[i]
      BY <2>2, <3>1, <3>2 DEF Image
    <3>4. turn \in Image
      <4>1. tower[i] \in Item
        BY <3>1, LeadsFacts
      <4> QED BY <2>2, <3>1, <3>2, <4>1 DEF Image
    <3> QED BY <3>1, <3>3, <3>4 DEF Gives
  <2>5. CASE Does(step, i, "putBack")
    <3>1. tower[i] = None /\ u[i] = image.want /\ u[i] # None /\ Named(step, i)
          /\ image.do = "putBack" /\ New(u[i])
      BY <2>5, LeadsFacts DEF Does, Named, Want
    <3>2. turn = [image EXCEPT !.do = "takeOut", !.left = image.want]
      BY <2>1, <3>1
    <3>3. turn.do = "takeOut" /\ turn.want = u[i] /\ turn.left = u[i] /\ turn \in Image
      BY <2>2, <3>1, <3>2 DEF Image
    <3> QED BY <3>1, <3>3 DEF Gives
  <2>6. CASE Does(step, i, "restore")
    <3>1. /\ tower[i] # None /\ u[i] # None /\ Named(step, i) /\ image.do = "restore"
          /\ tower[i].site = u[i].site /\ Restored(u[i], tower[i], u[i]) = tower[i]
          /\ New(u[i])
      BY <2>6, LeadsFacts DEF Does, Named
    <3>2. turn = [image EXCEPT !.want = tower[i], !.left = u[i],
                               !.built = IF OfShaft(step, i) THEN ~@ ELSE @]
      BY <2>1, <3>1
    <3>3. turn.do = "restore" /\ turn.want = tower[i] /\ turn.left = u[i]
      BY <2>2, <3>1, <3>2 DEF Image
    <3>4. turn \in Image
      <4>1. image.built \in BOOLEAN
        BY <2>2, <3>1 DEF Image
      <4>2. tower[i] \in Item /\ u[i] \in Item
        BY <3>1, LeadsFacts
      <4> QED BY <2>2, <3>1, <3>2, <4>1, <4>2 DEF Image
    <3> QED BY <3>1, <3>3, <3>4 DEF Gives, New
  <2> QED BY <2>3, <2>4, <2>5, <2>6, LeadsFacts
<1> QED BY <1>2, <1>3, <1>4 DEF Leads

-----------------------------------------------------------------------------
(* Closing a gesture.                                                      *)

(* What the journal notes of an item that is x now, and that the gesture   *)
(* found as found.                                                         *)
Noted(seen, x, found) ==
    \/ seen = None /\ x = found
    \/ seen # None /\ seen.how = "was" /\ found = seen.item
    \/ seen # None /\ seen.how = "added" /\ found = None /\ New(seen.item)

\* New items of one place differ only in what an edit owns.
LEMMA NewSame ==
    ASSUME NEW x \in Item, NEW y \in Item, New(x), New(y), x.site = y.site
    PROVE  /\ SameConfig(x, y) => x = y
           /\ \A left \in Item : SameConfig(left, x) => Restored(x, y, left) = y
<1>1. x.use = y.use /\ x.sold = y.sold /\ x.rides = y.rides
  <2>1. x.sold \in BOOLEAN /\ y.sold \in BOOLEAN
    BY DEF Item
  <2> QED BY <2>1, NewAlike
<1>2. /\ x = [site |-> x.site, use |-> x.use, sold |-> x.sold, rent |-> x.rent,
              name |-> x.name, cars |-> x.cars, rides |-> x.rides]
      /\ y = [site |-> y.site, use |-> y.use, sold |-> y.sold, rent |-> y.rent,
              name |-> y.name, cars |-> y.cars, rides |-> y.rides]
  BY DEF Item
<1>3. SameConfig(x, y) => x = y
  BY <1>1, <1>2 DEF SameConfig
<1>4. ASSUME NEW left \in Item, SameConfig(left, x) PROVE Restored(x, y, left) = y
  <2> DEFINE z == Restored(x, y, left)
  <2>1. /\ (IF PutsBack(y.rent, left.rent, x.rent) THEN y.rent ELSE x.rent) = y.rent
        /\ (IF PutsBack(y.name, left.name, x.name) THEN y.name ELSE x.name) = y.name
    BY <1>4 DEF SameConfig, PutsBack
  <2>2. z = [x EXCEPT !.rent = y.rent, !.name = y.name, !.cars = y.cars]
    BY <2>1 DEF Restored
  <2>3. /\ z \in Item /\ z.site = x.site /\ z.use = x.use /\ z.sold = x.sold
        /\ z.rides = x.rides /\ z.rent = y.rent /\ z.name = y.name /\ z.cars = y.cars
    BY <2>2 DEF Item
  <2> HIDE DEF z
  <2>4. z = [site |-> z.site, use |-> z.use, sold |-> z.sold, rent |-> z.rent,
             name |-> z.name, cars |-> z.cars, rides |-> z.rides]
    BY <2>3 DEF Item
  <2>5. z = y
    BY <1>1, <1>2, <2>3, <2>4
  <2> QED BY <2>5 DEF z
<1> QED BY <1>3, <1>4

\* The image a note closes into gives back what the gesture found, and
\* there is one wherever that is not what is there.
LEMMA NotedGives ==
    ASSUME NEW seen \in Touch \cup {None}, NEW x \in Item \cup {None},
           NEW found \in Item \cup {None}, Noted(seen, x, found), NEW s,
           x # None => x.site = s /\ New(x), found # None => found.site = s /\ New(found),
           seen # None => seen.item.site = s
    PROVE  /\ Gives(ImageOf(seen, x), x, found)
           /\ ImageOf(seen, x) = None <=> x = found
<1> DEFINE image == ImageOf(seen, x)
<1>1. /\ image \in Image \cup {None} /\ None \notin Image
      /\ seen # None => seen.item \in Item /\ seen.item # None
  BY ImageOfType, FactAssumption DEF Touch
<1>2. CASE seen = None
  BY <1>2 DEF Noted, ImageOf, Gives
<1>3. CASE seen # None /\ seen.how = "was" /\ found = seen.item /\ x = None
  <2>1. image = [do |-> "putBack", want |-> found, left |-> found, built |-> FALSE]
    BY <1>3 DEF ImageOf, UnitImage, ShaftImage
  <2>2. image.do = "putBack" /\ image.want = found /\ image \in Image
    BY <1>1, <1>3, <2>1 DEF Image
  <2> QED BY <1>1, <1>3, <2>2 DEF Gives
<1>4. CASE seen # None /\ seen.how = "was" /\ found = seen.item /\ x # None
  <2>1. found \in Item /\ x \in Item /\ New(x) /\ New(found) /\ x.site = found.site
    BY <1>1, <1>4
  <2>2. CASE SameConfig(found, x)
    <3>1. image = None
      BY <1>4, <2>2 DEF ImageOf, UnitImage, ShaftImage
    <3>2. x = found
      BY <2>1, <2>2, NewSame
    <3> QED BY <3>1, <3>2 DEF Gives
  <2>3. CASE ~SameConfig(found, x)
    <3>1. PICK left, built :
             /\ image = [do |-> "restore", want |-> found, left |-> left, built |-> built]
             /\ left = x \/ left = [x EXCEPT !.rides = found.rides]
             /\ built \in BOOLEAN
      BY <1>4, <2>3 DEF ImageOf, UnitImage, ShaftImage
    <3>2. left \in Item /\ SameConfig(left, x) /\ left.rides = 0
      BY <2>1, <3>1 DEF Item, SameConfig, New
    <3>3. Restored(x, found, left) = found
      BY <2>1, <3>2, NewSame
    <3>4. image.do = "restore" /\ image.want = found /\ image.left = left /\ image \in Image
      BY <2>1, <3>1, <3>2 DEF Image
    <3>5. x # found
      BY <2>3 DEF SameConfig
    <3>6. left.cars = x.cars
      BY <3>2 DEF SameConfig
    <3> QED BY <1>1, <1>4, <2>1, <3>2, <3>3, <3>4, <3>5, <3>6 DEF Gives
  <2> QED BY <2>2, <2>3
<1>5. CASE seen # None /\ seen.how = "added" /\ found = None /\ New(seen.item) /\ x = None
  <2>1. image = None
    BY <1>5 DEF ImageOf, UnitImage, ShaftImage
  <2> QED BY <1>5, <2>1 DEF Gives
<1>6. CASE seen # None /\ seen.how = "added" /\ found = None /\ New(seen.item) /\ x # None
  <2>1. x \in Item /\ New(x) /\ x.site = seen.item.site /\ IsShaft(seen.item) = IsShaft(x)
    BY <1>6 DEF IsShaft, KindOf
  <2>2. PICK left :
           /\ image = [do |-> "takeOut", want |-> seen.item, left |-> left, built |-> TRUE]
           /\ left = IF IsShaft(x) THEN [x EXCEPT !.rides = 0] ELSE seen.item
    BY <1>6, <2>1 DEF ImageOf, UnitImage, ShaftImage
  <2>3. left \in Item /\ left.site = x.site /\ New(left) /\ (IsShaft(x) => left.cars = x.cars)
    <3>1. CASE IsShaft(x)
      <4>1. /\ left.use = x.use /\ left.sold = x.sold /\ left.rides = 0
            /\ left.site = x.site /\ left.cars = x.cars /\ left \in Item
        BY <2>1, <2>2, <3>1, NumberAssumption DEF Item
      <4> QED BY <2>1, <4>1 DEF New
    <3>2. CASE ~IsShaft(x)
      BY <1>1, <1>6, <2>1, <2>2, <3>2
    <3> QED BY <3>1, <3>2
  <2>4. image.do = "takeOut" /\ image.want = seen.item /\ image.left = left /\ image \in Image
    BY <1>1, <1>6, <2>2, <2>3 DEF Image
  <2> QED BY <1>1, <1>6, <2>1, <2>3, <2>4 DEF Gives
<1> QED BY <1>2, <1>3, <1>4, <1>5, <1>6 DEF Noted

-----------------------------------------------------------------------------
(* The steps of a stack lead from world to world, down to the oldest        *)
(* snapshot.                                                               *)

(* The step leads from the world w to the world v.                         *)
Goes(step, w, v, led) ==
    /\ w \in World /\ v \in World
    /\ Leads(step, w[1], v[1], led) /\ v[2] = w[2] + step.money

Trail(stack, snaps, base, led) ==
    /\ stack \in Seq(Step) /\ snaps \in Seq(World) /\ Len(snaps) = Len(stack)
    /\ \A m \in 1..Len(stack) :
          Goes(stack[m], IF m = Len(stack) THEN base ELSE snaps[m + 1], snaps[m], led)

\* No steps, and no snapshots.
LEMMA TrailNone ==
    ASSUME NEW base, NEW led
    PROVE  Trail(<<>>, <<>>, base, led)
BY DEF Trail

\* A sequence with one more on top.
LEMMA OnTop ==
    ASSUME NEW S, NEW stack \in Seq(S), NEW x \in S
    PROVE  /\ Append(stack, x) \in Seq(S) /\ Len(Append(stack, x)) = Len(stack) + 1
           /\ Append(stack, x)[Len(stack) + 1] = x
           /\ \A m \in 1..Len(stack) : Append(stack, x)[m] = stack[m]
  OBVIOUS

\* A sequence without its oldest.
LEMMA NoOldest ==
    ASSUME NEW S, NEW stack \in Seq(S), stack # <<>>
    PROVE  /\ Tail(stack) \in Seq(S) /\ Len(Tail(stack)) = Len(stack) - 1
           /\ Len(stack) \in Nat \ {0}
           /\ \A m \in 1..Len(stack) - 1 : Tail(stack)[m] = stack[m + 1]
  OBVIOUS

\* A step that leads to where the trail begins goes on top of it.
LEMMA TrailOnTop ==
    ASSUME NEW stack, NEW snaps, NEW w, NEW v, NEW led, NEW step,
           Trail(stack, snaps, w, led), Goes(step, v, w, led)
    PROVE  Trail(Append(stack, step), Append(snaps, w), v, led)
<1> DEFINE a == Append(stack, step)
           b == Append(snaps, w)
           n == Len(stack)
<1>1. stack \in Seq(Step) /\ snaps \in Seq(World) /\ Len(snaps) = n /\ n \in Nat
      /\ step \in Step /\ w \in World
  BY DEF Trail, Goes, Leads
<1>2. /\ a \in Seq(Step) /\ Len(a) = n + 1 /\ a[n + 1] = step
      /\ \A m \in 1..n : a[m] = stack[m]
  BY <1>1, OnTop
<1>3. /\ b \in Seq(World) /\ Len(b) = n + 1 /\ b[n + 1] = w
      /\ \A m \in 1..n : b[m] = snaps[m]
  BY <1>1, OnTop
<1>4. \A m \in 1..n : Goes(stack[m], IF m = n THEN w ELSE snaps[m + 1], snaps[m], led)
  BY DEF Trail
<1> HIDE DEF a, b, n
<1>5. ASSUME NEW m \in 1..n + 1
      PROVE  Goes(a[m], IF m = n + 1 THEN v ELSE b[m + 1], b[m], led)
  <2>1. CASE m = n + 1
    BY <1>2, <1>3, <2>1
  <2>2. CASE m # n + 1
    <3>1. m \in 1..n /\ m # n + 1
      BY <1>1, <2>2
    <3>2. b[m + 1] = IF m = n THEN w ELSE snaps[m + 1]
      <4>1. m # n => m + 1 \in 1..n
        BY <1>1, <3>1
      <4> QED BY <1>3, <4>1
    <3> QED BY <1>2, <1>3, <1>4, <3>1, <3>2
  <2> QED BY <2>1, <2>2
<1>6. Trail(a, b, v, led)
  BY <1>2, <1>3, <1>5 DEF Trail
<1> QED BY <1>6 DEF a, b

\* The oldest step may go.
LEMMA TrailTail ==
    ASSUME NEW stack, NEW snaps, NEW w, NEW led, Trail(stack, snaps, w, led), stack # <<>>
    PROVE  Trail(Tail(stack), Tail(snaps), w, led)
<1> DEFINE a == Tail(stack)
           b == Tail(snaps)
           n == Len(stack)
<1>1. stack \in Seq(Step) /\ snaps \in Seq(World) /\ Len(snaps) = n /\ n \in Nat \ {0}
  BY NoOldest DEF Trail
<1>2. snaps # <<>>
  BY <1>1
<1>3. /\ a \in Seq(Step) /\ Len(a) = n - 1
      /\ \A m \in 1..n - 1 : a[m] = stack[m + 1]
  BY <1>1, NoOldest
<1>4. /\ b \in Seq(World) /\ Len(b) = n - 1
      /\ \A m \in 1..n - 1 : b[m] = snaps[m + 1]
  BY <1>1, <1>2, NoOldest
<1>5. \A m \in 1..n : Goes(stack[m], IF m = n THEN w ELSE snaps[m + 1], snaps[m], led)
  BY DEF Trail
<1> HIDE DEF a, b, n
<1>6. ASSUME NEW m \in 1..n - 1
      PROVE  Goes(a[m], IF m = n - 1 THEN w ELSE b[m + 1], b[m], led)
  <2>1. m + 1 \in 1..n /\ (m + 1 = n <=> m = n - 1)
    BY <1>1
  <2>2. Goes(stack[m + 1], IF m + 1 = n THEN w ELSE snaps[(m + 1) + 1], snaps[m + 1], led)
    BY <1>5, <2>1
  <2>3. CASE m = n - 1
    BY <1>3, <1>4, <2>1, <2>2, <2>3
  <2>4. CASE m # n - 1
    <3>1. m + 1 \in 1..n - 1 /\ m + 1 # n
      BY <1>1, <2>4
    <3>2. b[m + 1] = snaps[(m + 1) + 1]
      BY <1>4, <3>1
    <3> QED BY <1>3, <1>4, <2>2, <2>4, <3>1, <3>2
  <2> QED BY <2>3, <2>4
<1>7. Trail(a, b, w, led)
  BY <1>1, <1>3, <1>4, <1>6 DEF Trail
<1> QED BY <1>7 DEF a, b

LEMMA TrailPushed ==
    ASSUME NEW stack, NEW snaps, NEW w, NEW v, NEW led, NEW step,
           Trail(stack, snaps, w, led), Goes(step, v, w, led)
    PROVE  Trail(Pushed(stack, step), Stacked(snaps, w), v, led)
<1>1. stack \in Seq(Step) /\ Len(snaps) = Len(stack) /\ UndoCap \in Nat \ {0}
  BY NumberAssumption DEF Trail
<1>2. CASE Len(stack) < UndoCap
  BY <1>1, <1>2, TrailOnTop DEF Pushed, Stacked
<1>3. CASE ~(Len(stack) < UndoCap)
  <2>1. stack # <<>>
    BY <1>1, <1>3
  <2>2. Trail(Append(Tail(stack), step), Append(Tail(snaps), w), v, led)
    BY <2>1, TrailTail, TrailOnTop
  <2> QED BY <1>1, <1>3, <2>2 DEF Pushed, Stacked
<1> QED BY <1>2, <1>3

\* The newest step leads to the newest snapshot, where the rest begins.
LEMMA TrailNewest ==
    ASSUME NEW stack, NEW snaps, NEW w, NEW led, Trail(stack, snaps, w, led), stack # <<>>
    PROVE  /\ snaps # <<>> /\ Goes(Newest(stack), w, Newest(snaps), led)
           /\ Trail(Older(stack), Older(snaps), Newest(snaps), led)
<1> DEFINE n == Len(stack)
           a == Older(stack)
           b == Older(snaps)
<1>1. stack \in Seq(Step) /\ snaps \in Seq(World) /\ Len(snaps) = n /\ n \in Nat \ {0}
  BY NoOldest DEF Trail
<1>2. snaps # <<>>
  BY <1>1
<1>3. /\ a \in Seq(Step) /\ Len(a) = n - 1
      /\ \A m \in DOMAIN a : a[m] = stack[m]
  BY <1>1, NewestType
<1>4. /\ b \in Seq(World) /\ Len(b) = n - 1
      /\ \A m \in DOMAIN b : b[m] = snaps[m]
  BY <1>1, <1>2, NewestType
<1>5. \A m \in 1..n : Goes(stack[m], IF m = n THEN w ELSE snaps[m + 1], snaps[m], led)
  BY DEF Trail
<1>6. DOMAIN a = 1..n - 1 /\ DOMAIN b = 1..n - 1
  BY <1>3, <1>4
<1>7. Newest(stack) = stack[n] /\ Newest(snaps) = snaps[n]
  BY <1>1 DEF Newest
<1> HIDE DEF a, b, n
<1>8. Goes(stack[n], w, snaps[n], led)
  BY <1>1, <1>5
<1>9. ASSUME NEW m \in 1..n - 1
      PROVE  Goes(a[m], IF m = n - 1 THEN snaps[n] ELSE b[m + 1], b[m], led)
  <2>1. m \in 1..n /\ m # n
    BY <1>1
  <2>2. Goes(stack[m], snaps[m + 1], snaps[m], led)
    BY <1>5, <2>1
  <2>3. m = n - 1 => snaps[m + 1] = snaps[n]
    BY <1>1
  <2>4. m # n - 1 => m + 1 \in 1..n - 1
    BY <1>1
  <2> QED BY <1>3, <1>4, <1>6, <2>2, <2>3, <2>4
<1>10. Trail(a, b, snaps[n], led)
  BY <1>1, <1>3, <1>4, <1>9 DEF Trail
<1> QED BY <1>2, <1>7, <1>8, <1>10 DEF a, b

\* A trail is kept as the ledger grows.
LEMMA StoodKept ==
    ASSUME NEW t, NEW led, NEW now, Grows(led, now), Stood(t, led)
    PROVE  Stood(t, now)
<1>1. \A i \in Id : t[i] # None => SitedIn(i, t[i], now)
  BY DEF Stood, SitedIn, Grows
<1> QED BY <1>1 DEF Stood

LEMMA TrailKept ==
    ASSUME NEW stack, NEW snaps, NEW w, NEW led, NEW now, Grows(led, now),
           Trail(stack, snaps, w, led)
    PROVE  Trail(stack, snaps, w, now)
<1>1. ASSUME NEW step, NEW u, NEW v, Goes(step, u, v, led) PROVE Goes(step, u, v, now)
  BY <1>1, StoodKept DEF Goes, Leads
<1> QED BY <1>1 DEF Trail

-----------------------------------------------------------------------------
(* The invariant of the plain history.                                     *)

(* The open gesture began at the mark, and its cash is what it has made of *)
(* the balance.                                                            *)
Marked ==
    /\ mark \in World /\ Stood(mark[1], ledger) /\ money = mark[2] + journal.cash
    /\ ~journal.searched /\ ~journal.usedThenTaken /\ journal.hour = 0
    /\ \A i \in Id : Noted(journal.touched[i], tower[i], mark[1][i])

(* Where both trails begin: what the open gesture found, or what is there. *)
Base == IF mark = NoMark THEN Now ELSE mark

HistInv ==
    /\ hours = 0 /\ Stood(tower, ledger)
    /\ journal.open <=> mark # NoMark
    /\ mark # NoMark => Marked
    /\ Trail(undo, past, Base, ledger) /\ Trail(redo, future, Base, ledger)

LEMMA NowIsWorld ==
    ASSUME Inv
    PROVE  Now \in World /\ Now[1] = tower /\ Now[2] = money /\ Now # NoMark
<1>1. tower \in [Id -> Item \cup {None}] /\ money \in Int
  BY DEF Inv, TypeOK
<1>2. Now \in World /\ Now[1] = tower /\ Now[2] = money
  BY <1>1 DEF Now, World
<1> QED BY <1>2, MarkAssumption

\* A step a gesture closes into leads back to what the gesture found, and
\* there is one wherever that is not what is there.
LEMMA ClosedGoes ==
    ASSUME Inv, HistInv, journal.open
    PROVE  /\ Goes(StepOf(journal), Now, mark, ledger)
           /\ IsEmpty(StepOf(journal)) <=> mark = Now
<1> DEFINE step == StepOf(journal)
<1>1. /\ Marked /\ mark \in World /\ mark[1] \in [Id -> Item \cup {None}] /\ mark[2] \in Int
      /\ mark = <<mark[1], mark[2]>>
  BY DEF HistInv, Marked, World
<1>2. /\ tower \in [Id -> Item \cup {None}] /\ money \in Int /\ journal \in Journal
      /\ journal.cash \in Int /\ JournalSited(journal, ledger) /\ hours = 0
  BY DEF Inv, TypeOK, Journal, HistInv
<1>3. step \in Step
  BY StepOfType DEF Inv
<1>4. /\ step.images = [i \in Id |-> ImageOf(journal.touched[i], tower[i])]
      /\ step.money = -journal.cash /\ ~step.searched /\ step.hour = 0 /\ ~step.usedInGesture
      /\ step.held = [k \in Kinds |-> Count(tower, k)]
  <2>1. /\ ~journal.searched /\ ~journal.usedThenTaken /\ journal.hour = 0
    BY <1>1 DEF Marked
  <2>2. hours = journal.hour
    BY <1>2, <2>1
  <2> QED BY <2>1, <2>2 DEF StepOf
<1> HIDE DEF step
<1>5. ASSUME NEW i \in Id
      PROVE  /\ Gives(step.images[i], tower[i], mark[1][i])
             /\ step.images[i] = None <=> tower[i] = mark[1][i]
  <2> DEFINE seen == journal.touched[i]
             x == tower[i]
             found == mark[1][i]
             s == ledger[i].site
  <2>1. /\ seen \in Touch \cup {None} /\ x \in Item \cup {None} /\ found \in Item \cup {None}
        /\ Noted(seen, x, found)
    BY <1>1, <1>2 DEF Marked, Journal
  <2>2. /\ x # None => x.site = s /\ New(x)
        /\ found # None => found.site = s /\ New(found)
        /\ seen # None => seen.item.site = s
    BY <1>1, <1>2 DEF HistInv, Marked, Stood, SitedIn, JournalSited
  <2>3. step.images[i] = ImageOf(seen, x)
    BY <1>4
  <2> HIDE DEF seen, x, found, s
  <2>4. Gives(ImageOf(seen, x), x, found) /\ (ImageOf(seen, x) = None <=> x = found)
    <3>1. /\ seen \in Touch \cup {None} /\ x \in Item \cup {None}
          /\ found \in Item \cup {None} /\ Noted(seen, x, found)
          /\ x # None => x.site = s /\ New(x)
          /\ found # None => found.site = s /\ New(found)
          /\ seen # None => seen.item.site = s
      BY <2>1, <2>2
    <3> QED BY ONLY <3>1, NotedGives, Zenon
  <2> QED BY <2>3, <2>4 DEF x, found
<1>6. Stood(tower, ledger) /\ Stood(mark[1], ledger)
  BY <1>1 DEF HistInv, Marked
<1>7. Leads(step, tower, mark[1], ledger)
  BY <1>3, <1>4, <1>5, <1>6 DEF Leads
<1>8. step.money \in Int /\ mark[2] = money + step.money
  <2>1. money = mark[2] + journal.cash
    BY <1>1 DEF Marked
  <2> QED BY <1>1, <1>2, <1>4, <2>1
<1>9. Goes(step, Now, mark, ledger)
  BY <1>1, <1>7, <1>8, NowIsWorld DEF Goes
<1>10. IsEmpty(step) => mark = Now
  <2>1. SUFFICES ASSUME IsEmpty(step) PROVE mark = Now
    OBVIOUS
  <2>2. \A i \in Id : tower[i] = mark[1][i]
    BY <1>5, <2>1 DEF IsEmpty
  <2>3. tower = mark[1]
    BY <1>1, <1>2, <2>2
  <2>4. money = mark[2]
    BY <1>2, <1>8, <2>1 DEF IsEmpty
  <2> QED BY <1>1, <2>3, <2>4 DEF Now
<1>11. mark = Now => IsEmpty(step)
  <2>1. SUFFICES ASSUME mark = Now PROVE IsEmpty(step)
    OBVIOUS
  <2>2. mark[1] = tower /\ mark[2] = money
    BY <2>1, NowIsWorld
  <2>3. \A i \in Id : step.images[i] = None
    BY <1>5, <2>2
  <2>4. step.money = 0
    BY <1>2, <1>8, <2>2
  <2> QED BY <1>4, <2>3, <2>4 DEF IsEmpty
<1> QED BY <1>9, <1>10, <1>11 DEF step

\* With the gesture closed, both trails begin at what is there, and the
\* snapshots are those of the plain history.
LEMMA ClosedTrails ==
    ASSUME Inv, HistInv
    PROVE  /\ Trail(UndoCommitted, PastKept, Now, ledger)
           /\ Trail(RedoCommitted, FutureKept, Now, ledger)
           /\ Kept <=> mark # NoMark /\ mark # Now
<1>1. Kept <=> mark # NoMark /\ mark # Now
  BY ClosedGoes DEF Kept, HistInv
<1>2. CASE Kept
  <2>1. journal.open /\ mark # NoMark /\ Base = mark
    BY <1>1, <1>2 DEF Base, Kept
  <2>2. Goes(StepOf(journal), Now, mark, ledger)
    BY <2>1, ClosedGoes
  <2>3. Trail(undo, past, mark, ledger)
    BY <2>1 DEF HistInv
  <2>4. Trail(Pushed(undo, StepOf(journal)), Stacked(past, mark), Now, ledger)
    BY <2>2, <2>3, TrailPushed
  <2>5. Trail(<<>>, <<>>, Now, ledger)
    BY TrailNone
  <2> QED BY <1>1, <1>2, <2>4, <2>5 DEF UndoCommitted, RedoCommitted, PastKept, FutureKept
<1>3. CASE ~Kept
  <2>1. Base = Now
    BY <1>1, <1>3 DEF Base
  <2> QED BY <1>1, <1>3, <2>1 DEF HistInv, UndoCommitted, RedoCommitted, PastKept, FutureKept
<1> QED BY <1>2, <1>3

LEMMA PlainStacks ==
    ASSUME Inv, HistInv
    PROVE  /\ History!Past = PastKept /\ History!Future = FutureKept
           /\ \A stack, w : History!Push(stack, w) = Stacked(stack, w)
           /\ \A stack : History!Newest(stack) = Newest(stack)
                         /\ History!Older(stack) = Older(stack)
<1>1. Kept <=> History!Changed
  BY ClosedTrails DEF History!Changed
<1>2. \A stack, w : History!Push(stack, w) = Stacked(stack, w)
  BY DEF History!Push, Stacked
<1> QED BY <1>1, <1>2 DEF History!Past, History!Future, PastKept, FutureKept,
                          History!Newest, History!Older, Newest, Older

-----------------------------------------------------------------------------
(* Every step keeps it, and is a step of the plain history.                *)

\* The journal is off the tower.
LEMMA OffMark ==
    ASSUME Inv', hours' = 0, Stood(tower', ledger'), journal' = NoJournal, mark' = NoMark,
           Trail(undo', past', Now', ledger'), Trail(redo', future', Now', ledger')
    PROVE  HistInv'
<1>1. ~journal'.open
  BY DEF NoJournal
<1>2. Base' = Now'
  BY DEF Base
<1> QED BY <1>1, <1>2 DEF HistInv

LEMMA ClosingPlain ==
    ASSUME Inv, Inv', HistInv, Closing
    PROVE  HistInv' /\ History!Next
<1>1. /\ past' = PastKept /\ future' = FutureKept
      /\ undo' = UndoCommitted /\ redo' = RedoCommitted
      /\ UNCHANGED <<tower, money, hours, ledger>>
  BY DEF Closing, Capture, Commit, world
<1>2. Now' = Now /\ hours' = 0 /\ Stood(tower', ledger')
  BY <1>1 DEF Now, HistInv
<1>3. Trail(undo', past', Now', ledger') /\ Trail(redo', future', Now', ledger')
  BY <1>1, <1>2, ClosedTrails
<1>4. past' = History!Past /\ future' = History!Future
  BY <1>1, PlainStacks
<1>5. CASE Capture /\ mark' = Now
  <2>1. /\ journal'.open /\ journal'.cash = 0 /\ ~journal'.searched /\ ~journal'.usedThenTaken
        /\ journal'.hour = 0 /\ \A i \in Id : journal'.touched[i] = None
    BY <1>5 DEF Capture, OpenJournal, NoJournal, HistInv
  <2>2. mark' \in World /\ mark'[1] = tower' /\ mark'[2] = money' /\ mark' # NoMark
        /\ money' \in Int
    BY <1>1, <1>5, NowIsWorld DEF Inv, TypeOK
  <2>3. Marked'
    <3>1. Stood(mark'[1], ledger')
      BY <1>2, <2>2
    <3>2. money' = mark'[2] + journal'.cash
      <4>1. mark'[2] = money' /\ journal'.cash = 0 /\ money' \in Int
        BY <2>1, <2>2
      <4>2. \A n \in Int : n = n + 0
        OBVIOUS
      <4> QED BY <4>1, <4>2
    <3>3. \A i \in Id : Noted(journal'.touched[i], tower'[i], mark'[1][i])
      BY <2>1, <2>2 DEF Noted
    <3> QED BY <2>1, <2>2, <3>1, <3>2, <3>3 DEF Marked
  <2>4. Base' = Now'
    BY <1>2, <1>5, <2>2 DEF Base
  <2>5. HistInv'
    BY <1>2, <1>3, <2>1, <2>2, <2>3, <2>4 DEF HistInv
  <2>6. History!Capture
    BY <1>2, <1>4, <1>5 DEF History!Capture
  <2> QED BY <2>5, <2>6 DEF History!Next
<1>6. CASE Commit /\ mark' = NoMark
  <2>1. HistInv'
    BY <1>2, <1>3, <1>6, OffMark DEF Commit
  <2>2. History!Commit
    BY <1>2, <1>4, <1>6 DEF History!Commit
  <2> QED BY <2>1, <2>2 DEF History!Next
<1> QED BY <1>5, <1>6 DEF Closing

\* A step taken goes to the newest snapshot, and its opposite comes back.
LEMMA TakenTrails ==
    ASSUME Inv, HistInv, NEW from, NEW ago, NEW onto, NEW ahead,
           Trail(from, ago, Now, ledger), Trail(onto, ahead, Now, ledger), from # <<>>,
           NEW step, step = Newest(from), Applies(step), Take(step)
    PROVE  /\ Now' = Newest(ago) /\ hours' = 0 /\ Stood(tower', ledger')
           /\ Trail(Older(from), Older(ago), Now', ledger')
           /\ Trail(Pushed(onto, Opposite(step)), Stacked(ahead, Now), Now', ledger')
<1> DEFINE then == Newest(ago)
<1>1. Goes(step, Now, then, ledger) /\ Trail(Older(from), Older(ago), then, ledger)
  BY TrailNewest
<1>2. /\ then \in World /\ Leads(step, tower, then[1], ledger) /\ then[2] = money + step.money
      /\ Now \in World /\ Now[1] = tower /\ Now[2] = money
  BY <1>1, NowIsWorld DEF Goes
<1>3. then = <<then[1], then[2]>> /\ Stood(then[1], ledger)
  BY <1>2 DEF World, Leads
<1> HIDE DEF then
<1>4. tower' = then[1] /\ money' = then[2] /\ UNCHANGED <<hours, ledger>>
  <2>1. hours = 0
    BY DEF HistInv
  <2>2. AfterStep(step) = then[1]
    BY <1>2, <2>1, LeadsApplies
  <2> QED BY <1>2, <2>2 DEF Take
<1>5. Now' = then
  BY <1>3, <1>4 DEF Now
<1>6. Goes(Opposite(step), then, Now, ledger)
  <2>1. hours = 0 /\ TypeOK
    BY DEF HistInv, Inv
  <2>2. Leads(Opposite(step), then[1], tower, ledger)
    BY <1>2, <2>1, LeadsBack
  <2>3. Opposite(step).money = -step.money /\ step.money \in Int /\ money \in Int
    BY <1>2, <2>1 DEF Opposite, Leads, Step, TypeOK
  <2>4. money = then[2] + Opposite(step).money
    BY <1>2, <2>3
  <2> QED BY <1>2, <2>2, <2>4 DEF Goes
<1>7. Trail(Pushed(onto, Opposite(step)), Stacked(ahead, Now), then, ledger)
  BY <1>6, TrailPushed
<1>8. hours' = 0
  BY <1>4 DEF HistInv
<1> QED BY <1>1, <1>3, <1>4, <1>5, <1>7, <1>8 DEF then

\* A step of a trail is refused for no reason but the balance.
LEMMA NeverLasting ==
    ASSUME HistInv, NEW from, NEW ago, Trail(from, ago, Now, ledger), from # <<>>
    PROVE  ~Lasting(Newest(from))
<1>1. Goes(Newest(from), Now, Newest(ago), ledger) /\ hours = 0
  BY TrailNewest DEF HistInv
<1>2. Now[1] = tower
  BY DEF Now
<1>3. Leads(Newest(from), tower, Newest(ago)[1], ledger)
  BY <1>1, <1>2 DEF Goes
<1> QED BY <1>1, <1>3, LeadsApplies

LEMMA UndoPlain ==
    ASSUME Inv, Inv', HistInv, Undo, mark' = NoMark,
           past' = IF Len(undo') < Len(UndoCommitted) THEN Older(PastKept) ELSE PastKept,
           future' = IF Len(redo') > Len(RedoCommitted)
                     THEN Stacked(FutureKept, Now) ELSE FutureKept
    PROVE  HistInv' /\ History!Next
<1> DEFINE from == UndoCommitted
           onto == RedoCommitted
           step == Newest(UndoCommitted)
<1>1. /\ Trail(from, PastKept, Now, ledger) /\ Trail(onto, FutureKept, Now, ledger)
      /\ from # <<>> /\ journal' = NoJournal
  BY ClosedTrails DEF Undo
<1>2. from \in Seq(Step) /\ onto \in Seq(Step) /\ Len(from) + Len(onto) <= UndoCap
      /\ step \in Step
  BY <1>1, CommittedGood, NewestType
<1>3. Len(from) \in Nat \ {0} /\ Len(onto) \in Nat /\ Len(Older(from)) = Len(from) - 1
      /\ PastKept # <<>>
  BY <1>1, <1>2, NewestType, TrailNewest
<1>4. CASE /\ Applies(step) /\ Take(step)
           /\ undo' = Older(from) /\ redo' = Pushed(onto, Opposite(step))
  <2>1. /\ Now' = Newest(PastKept) /\ hours' = 0 /\ Stood(tower', ledger')
        /\ Trail(Older(from), Older(PastKept), Now', ledger')
        /\ Trail(Pushed(onto, Opposite(step)), Stacked(FutureKept, Now), Now', ledger')
    BY <1>1, <1>4, TakenTrails
  <2>2. Opposite(step) \in Step
    BY <1>2, <1>4, OppositeType DEF Inv
  <2>3. Len(redo') = Len(onto) + 1
    <3>1. Len(onto) < UndoCap
      BY <1>2, <1>3, NumberAssumption
    <3> QED BY <1>2, <1>4, <2>2, <3>1, PushedType
  <2>4. past' = Older(PastKept) /\ future' = Stacked(FutureKept, Now)
    BY <1>3, <1>4, <2>3
  <2>5. HistInv'
    BY <1>1, <1>4, <2>1, <2>4, OffMark
  <2>6. History!Undo
    BY <1>3, <2>1, <2>4, PlainStacks DEF History!Undo
  <2> QED BY <2>5, <2>6 DEF History!Next
<1>5. CASE Lasting(step)
  BY <1>1, <1>5, NeverLasting
<1>6. CASE undo' = from /\ redo' = onto /\ UNCHANGED <<world, ledger, outside>>
  <2>1. past' = PastKept /\ future' = FutureKept
    BY <1>3, <1>6
  <2>2. Now' = Now /\ hours' = 0 /\ Stood(tower', ledger') /\ ledger' = ledger
    BY <1>6 DEF Now, HistInv, world
  <2>3. HistInv'
    BY <1>1, <1>6, <2>1, <2>2, OffMark
  <2>4. History!Commit
    BY <2>1, <2>2, PlainStacks DEF History!Commit
  <2> QED BY <2>3, <2>4 DEF History!Next
<1> QED BY <1>4, <1>5, <1>6 DEF Undo

LEMMA RedoPlain ==
    ASSUME Inv, Inv', HistInv, Redo, mark' = NoMark,
           future' = IF redo' = <<>> THEN <<>>
                     ELSE IF Len(redo') < Len(RedoCommitted)
                     THEN Older(FutureKept) ELSE FutureKept,
           past' = IF undo' # UndoCommitted THEN Stacked(PastKept, Now) ELSE PastKept
    PROVE  HistInv' /\ History!Next
<1> DEFINE from == RedoCommitted
           onto == UndoCommitted
           step == Newest(RedoCommitted)
<1>1. /\ Trail(from, FutureKept, Now, ledger) /\ Trail(onto, PastKept, Now, ledger)
      /\ from # <<>> /\ journal' = NoJournal
  BY ClosedTrails DEF Redo
<1>2. from \in Seq(Step) /\ onto \in Seq(Step) /\ Len(onto) + Len(from) <= UndoCap
      /\ step \in Step
  BY <1>1, CommittedGood, NewestType
<1>3. Len(from) \in Nat \ {0} /\ Len(onto) \in Nat /\ Len(Older(from)) = Len(from) - 1
      /\ FutureKept # <<>>
  BY <1>1, <1>2, NewestType, TrailNewest
<1>4. CASE /\ Applies(step) /\ Take(step)
           /\ redo' = Older(from) /\ undo' = Pushed(onto, Opposite(step))
  <2>1. /\ Now' = Newest(FutureKept) /\ hours' = 0 /\ Stood(tower', ledger')
        /\ Trail(Older(from), Older(FutureKept), Now', ledger')
        /\ Trail(Pushed(onto, Opposite(step)), Stacked(PastKept, Now), Now', ledger')
    BY <1>1, <1>4, TakenTrails
  <2>2. Opposite(step) \in Step
    BY <1>2, <1>4, OppositeType DEF Inv
  <2>3. Len(undo') = Len(onto) + 1
    <3>1. Len(onto) < UndoCap
      BY <1>2, <1>3, NumberAssumption
    <3> QED BY <1>2, <1>4, <2>2, <3>1, PushedType
  <2>4. past' = Stacked(PastKept, Now)
    <3>1. undo' # onto
      BY <1>3, <2>3
    <3> QED BY <3>1
  <2>5. future' = Older(FutureKept)
    <3>1. CASE redo' = <<>>
      <4>1. Len(Older(FutureKept)) = 0 /\ Older(FutureKept) \in Seq(World)
        BY <1>4, <2>1, <3>1 DEF Trail
      <4>2. Older(FutureKept) = <<>>
        BY <4>1
      <4> QED BY <3>1, <4>2
    <3>2. CASE redo' # <<>>
      BY <1>3, <1>4, <3>2
    <3> QED BY <3>1, <3>2
  <2>6. HistInv'
    BY <1>1, <1>4, <2>1, <2>4, <2>5, OffMark
  <2>7. History!Redo
    BY <1>3, <2>1, <2>4, <2>5, PlainStacks DEF History!Redo
  <2> QED BY <2>6, <2>7 DEF History!Next
<1>5. CASE Lasting(step)
  BY <1>1, <1>5, NeverLasting
<1>6. CASE undo' = onto /\ redo' = from /\ UNCHANGED <<world, ledger, outside>>
  <2>1. past' = PastKept /\ future' = FutureKept
    BY <1>1, <1>3, <1>6
  <2>2. Now' = Now /\ hours' = 0 /\ Stood(tower', ledger') /\ ledger' = ledger
    BY <1>6 DEF Now, HistInv, world
  <2>3. HistInv'
    BY <1>1, <1>6, <2>1, <2>2, OffMark
  <2>4. History!Commit
    BY <2>1, <2>2, PlainStacks DEF History!Commit
  <2> QED BY <2>3, <2>4 DEF History!Next
<1> QED BY <1>4, <1>5, <1>6 DEF Redo

\* A tower the invariant keeps, of new items, is one of the plain history.
LEMMA StoodThen ==
    ASSUME Inv', \A i \in Id : tower'[i] # None => New(tower'[i])
    PROVE  Stood(tower', ledger')
BY DEF Inv, TypeOK, TowerSited, TowerStands, NoOverlap, NothingHangs, Stood, Standing

\* In an open gesture both trails begin at the mark, so an edit leaves them be.
LEMMA EditingPlain ==
    ASSUME Inv, Inv', HistInv, journal.open, UNCHANGED <<past, future, mark, undo, redo, hours>>,
           Grows(ledger, ledger'), \A i \in Id : tower'[i] # None => New(tower'[i]),
           journal'.open, ~journal'.searched, ~journal'.usedThenTaken, journal'.hour = 0,
           money' = mark[2] + journal'.cash,
           \A i \in Id : Noted(journal'.touched[i], tower'[i], mark[1][i])
    PROVE  HistInv' /\ History!Next
<1>1. mark # NoMark /\ Marked /\ Base = mark /\ Base' = mark' /\ mark' = mark
  BY DEF HistInv, Base
<1>2. Stood(tower', ledger')
  BY StoodThen
<1>3. Stood(mark'[1], ledger')
  BY <1>1, StoodKept DEF Marked
<1>4. Marked'
  BY <1>1, <1>3 DEF Marked
<1>5. Trail(undo', past', Base', ledger') /\ Trail(redo', future', Base', ledger')
  <2>1. Trail(undo, past, mark, ledger) /\ Trail(redo, future, mark, ledger)
    BY <1>1 DEF HistInv
  <2>2. Trail(undo, past, mark, ledger') /\ Trail(redo, future, mark, ledger')
    BY <2>1, TrailKept
  <2> QED BY <1>1, <2>2
<1>6. hours' = 0
  BY DEF HistInv
<1>7. HistInv'
  BY <1>1, <1>2, <1>4, <1>5, <1>6 DEF HistInv
<1>8. Now' \in World
  BY DEF Now, World, Inv, TypeOK
<1>9. History!Edit
  BY <1>1, <1>8 DEF History!Edit
<1> QED BY <1>7, <1>9 DEF History!Next

\* What a note about the item i changes, where every item is new: nothing
\* but what it says of that item, and that stays what the gesture found.
NotesOnly(j, n, i, found) ==
    /\ n.open /\ n.cash = j.cash /\ n.searched = j.searched /\ n.hour = j.hour
    /\ n.usedThenTaken = j.usedThenTaken
    /\ \A k \in Id : k # i => n.touched[k] = j.touched[k]
    /\ \A y : Noted(n.touched[i], y, found)

LEMMA EditNoted ==
    ASSUME NEW j \in Journal, j.open, NEW i \in Id, NEW x \in Item, New(x),
           NEW found, Noted(j.touched[i], x, found), found # None => New(found)
    PROVE  NotesOnly(j, NoteEdit(j, i, x), i, found)
<1> DEFINE n    == NoteEdit(j, i, x)
           seen == j.touched[i]
<1>1. seen \in Touch \cup {None} /\ None \notin Item /\ None \notin Touch
  BY FactAssumption DEF Journal
<1>2. CASE seen = None
  <2>1. n = [j EXCEPT !.touched[i] = [how |-> "was", item |-> x]]
    BY <1>2 DEF NoteEdit
  <2>2. [how |-> "was", item |-> x] \in Touch
    BY DEF Touch
  <2>3. /\ n.open /\ n.cash = j.cash /\ n.searched = j.searched /\ n.hour = j.hour
        /\ n.usedThenTaken = j.usedThenTaken
        /\ n.touched = [j.touched EXCEPT ![i] = [how |-> "was", item |-> x]]
    BY <2>1 DEF Journal
  <2>4. /\ \A k \in Id : k # i => n.touched[k] = j.touched[k]
        /\ n.touched[i] = [how |-> "was", item |-> x]
    BY <2>3 DEF Journal
  <2>5. x = found
    BY <1>1, <1>2 DEF Noted
  <2> HIDE DEF n
  <2>9. NotesOnly(j, n, i, found)
    BY <1>1, <2>2, <2>3, <2>4, <2>5 DEF Noted, NotesOnly
  <2> QED BY <2>9 DEF n
<1>3. CASE seen # None
  <2>1. n = j \/ (seen.how = "was" /\ n = NoteBought(j, seen.item, x))
    BY <1>3 DEF NoteEdit
  <2>2. \A y : Noted(seen, y, found)
    BY <1>3 DEF Noted
  <2>3. CASE n = j
    BY <2>2, <2>3 DEF NotesOnly
  <2>4. CASE seen.how = "was" /\ n = NoteBought(j, seen.item, x)
    <3>1. seen.item = found /\ seen.item \in Item
      BY <1>1, <1>3, <2>4 DEF Noted, Touch
    <3>2. x.rides = seen.item.rides
      BY <1>1, <3>1 DEF New
    <3>3. n = j \/ n = [j EXCEPT !.tookOwn = TRUE,
                                 !.usedThenTaken = @ \/ x.rides # seen.item.rides]
      BY <2>4 DEF NoteBought
    <3>4. /\ n.open /\ n.cash = j.cash /\ n.searched = j.searched /\ n.hour = j.hour
          /\ n.usedThenTaken = j.usedThenTaken /\ n.touched = j.touched
      BY <3>2, <3>3 DEF Journal
    <3> HIDE DEF n
    <3>5. NotesOnly(j, n, i, found)
      BY <2>2, <3>4 DEF NotesOnly
    <3> QED BY <3>5 DEF n
  <2> QED BY <2>1, <2>3, <2>4
<1> QED BY <1>2, <1>3

LEMMA OutNoted ==
    ASSUME NEW j \in Journal, j.open, NEW i \in Id, NEW x \in Item, New(x),
           j.touched[i] # None => j.touched[i].item.site = x.site,
           NEW found, Noted(j.touched[i], x, found), found # None => New(found)
    PROVE  NotesOnly(j, NoteOut(j, i, x), i, found)
<1> DEFINE n    == NoteOut(j, i, x)
           seen == j.touched[i]
<1>1. seen \in Touch \cup {None} /\ None \notin Item /\ None \notin Touch
  BY FactAssumption DEF Journal
<1>2. CASE seen = None
  <2>1. n = [j EXCEPT !.touched[i] = [how |-> "was", item |-> x]]
    BY <1>2 DEF NoteOut
  <2>2. [how |-> "was", item |-> x] \in Touch
    BY DEF Touch
  <2>3. /\ n.open /\ n.cash = j.cash /\ n.searched = j.searched /\ n.hour = j.hour
        /\ n.usedThenTaken = j.usedThenTaken
        /\ n.touched = [j.touched EXCEPT ![i] = [how |-> "was", item |-> x]]
    BY <2>1 DEF Journal
  <2>4. /\ \A k \in Id : k # i => n.touched[k] = j.touched[k]
        /\ n.touched[i] = [how |-> "was", item |-> x]
    BY <2>3 DEF Journal
  <2>5. x = found
    BY <1>1, <1>2 DEF Noted
  <2> HIDE DEF n
  <2>9. NotesOnly(j, n, i, found)
    BY <1>1, <2>2, <2>3, <2>4, <2>5 DEF Noted, NotesOnly
  <2> QED BY <2>9 DEF n
<1>3. CASE seen # None /\ seen.how = "was"
  <2>1. seen.item = found /\ found \in Item /\ New(found) /\ found.site = x.site
    BY <1>1, <1>3 DEF Noted, Touch
  <2>2. Leaving(x, found) = found
    <3> DEFINE z == Leaving(x, found)
    <3>1. z \in Item
      BY <2>1, LeavingType
    <3>2. /\ z.site = x.site /\ z.use = x.use /\ z.sold = x.sold /\ z.rides = x.rides
          /\ z.name = found.name /\ z.cars = found.cars /\ z.rent = found.rent
      BY DEF Leaving, Item, New
    <3> HIDE DEF z
    <3>3. New(z) /\ SameConfig(z, found)
      BY <3>2 DEF New, SameConfig
    <3>4. z = found
      BY <2>1, <3>1, <3>2, <3>3, NewSame
    <3> QED BY <3>4 DEF z
  <2>3. PICK b : /\ n = [b EXCEPT !.touched[i].item = found]
                 /\ b = j \/ b = NoteBought(j, found, x)
    BY <1>3, <2>1, <2>2 DEF NoteOut
  <2>4. /\ b \in Journal /\ b.open /\ b.cash = j.cash /\ b.searched = j.searched
        /\ b.hour = j.hour /\ b.usedThenTaken = j.usedThenTaken /\ b.touched = j.touched
    <3>1. x.rides = found.rides
      BY <2>1 DEF New
    <3>2. b = j \/ b = [j EXCEPT !.tookOwn = TRUE,
                                 !.usedThenTaken = @ \/ x.rides # found.rides]
      BY <2>3 DEF NoteBought
    <3>3. b \in Journal
      BY <2>3, NoteBoughtType
    <3> QED BY <3>1, <3>2, <3>3 DEF Journal
  <2>5. n = [b EXCEPT !.touched = [b.touched EXCEPT ![i] = [seen EXCEPT !.item = found]]]
    BY <2>3, <2>4
  <2>6. /\ n.open /\ n.cash = j.cash /\ n.searched = j.searched /\ n.hour = j.hour
        /\ n.usedThenTaken = j.usedThenTaken
        /\ n.touched = [j.touched EXCEPT ![i] = [seen EXCEPT !.item = found]]
    BY <2>4, <2>5 DEF Journal
  <2>7. [seen EXCEPT !.item = found] = seen
    BY <1>1, <1>3, <2>1 DEF Touch
  <2>8. n.touched[i] = seen /\ \A k \in Id : k # i => n.touched[k] = j.touched[k]
    BY <2>6, <2>7 DEF Journal
  <2> HIDE DEF n
  <2>9. NotesOnly(j, n, i, found)
    BY <1>3, <2>1, <2>6, <2>8 DEF Noted, NotesOnly
  <2> QED BY <2>9 DEF n
<1>4. CASE seen # None /\ seen.how = "added"
  <2>1. found = None /\ New(seen.item) /\ seen.item \in Item /\ seen.item.site = x.site
    BY <1>1, <1>4 DEF Noted, Touch
  <2>2. UseOf(x) = UseOf(seen.item) /\ x.rides = 0
    <3>1. x.use = seen.item.use /\ x.sold = seen.item.sold
      <4>1. x.sold \in BOOLEAN /\ seen.item.sold \in BOOLEAN
        BY <2>1 DEF Item
      <4> QED BY <2>1, <4>1, NewAlike
    <3> QED BY <3>1 DEF UseOf, New
  <2>3. /\ n.open /\ n.cash = j.cash /\ n.searched = j.searched /\ n.hour = j.hour
        /\ n.usedThenTaken = j.usedThenTaken /\ n.touched = j.touched
    <3>1. CASE IsShaft(x)
      <4>1. n = [j EXCEPT !.tookOwn = TRUE, !.usedThenTaken = @ \/ x.rides > 0]
        BY <1>4, <3>1 DEF NoteOut
      <4> QED BY <2>2, <4>1 DEF Journal
    <3>2. CASE ~IsShaft(x)
      <4>1. n = [j EXCEPT !.touched = [j.touched EXCEPT ![i] = seen],
                          !.tookOwn = @ \/ IsFloor(x)]
        BY <1>4, <2>2, <3>2 DEF NoteOut
      <4>2. [j.touched EXCEPT ![i] = seen] = j.touched
        BY DEF Journal
      <4> QED BY <4>1, <4>2 DEF Journal
    <3> QED BY <3>1, <3>2
  <2> HIDE DEF n
  <2>9. NotesOnly(j, n, i, found)
    BY <1>4, <2>1, <2>3 DEF Noted, NotesOnly
  <2> QED BY <2>9 DEF n
<1> QED BY <1>1, <1>2, <1>3, <1>4 DEF Noted

\* A command that notes one item and changes or removes it.
LEMMA ItemPlain ==
    ASSUME Inv, Inv', HistInv, journal.open, UNCHANGED <<past, future, mark>>,
           NEW i \in Id, NEW y \in Item \cup {None}, y # None => New(y),
           NEW amount \in Int, NEW n \in Journal, Edited(i, y, n, amount),
           n.open, n.cash = journal.cash, n.searched = journal.searched,
           n.hour = journal.hour, n.usedThenTaken = journal.usedThenTaken,
           \A k \in Id : k # i => n.touched[k] = journal.touched[k],
           Noted(n.touched[i], y, mark[1][i])
    PROVE  HistInv' /\ History!Next
<1>1. /\ tower' = [tower EXCEPT ![i] = y] /\ money' = money + amount
      /\ journal' = [n EXCEPT !.cash = @ + amount]
      /\ UNCHANGED <<undo, redo, hours, ledger>>
  BY DEF Edited, Paid
<1>2. /\ Marked /\ \A k \in Id : tower[k] # None => New(tower[k])
      /\ tower \in [Id -> Item \cup {None}] /\ money \in Int /\ journal.cash \in Int
      /\ mark[2] \in Int
  BY DEF HistInv, Stood, Marked, World, Inv, TypeOK, Journal
<1>3. /\ journal'.open /\ journal'.cash = journal.cash + amount
      /\ journal'.touched = n.touched /\ ~journal'.searched /\ ~journal'.usedThenTaken
      /\ journal'.hour = 0
  BY <1>1, <1>2 DEF Journal, Marked
<1>4. ASSUME NEW k \in Id
      PROVE  /\ tower'[k] # None => New(tower'[k])
             /\ Noted(journal'.touched[k], tower'[k], mark[1][k])
  <2>1. CASE k = i
    BY <1>1, <1>2, <1>3, <2>1
  <2>2. CASE k # i
    BY <1>1, <1>2, <1>3, <2>2 DEF Marked
  <2> QED BY <2>1, <2>2
<1>5. money' = mark[2] + journal'.cash
  <2>1. money = mark[2] + journal.cash
    BY <1>2 DEF Marked
  <2>2. \A m, c, b, a \in Int : b = m + c => b + a = m + (c + a)
    OBVIOUS
  <2>3. money + amount = mark[2] + (journal.cash + amount)
    BY <1>2, <2>1, <2>2
  <2> QED BY <1>1, <1>3, <2>3
<1>6. Grows(ledger, ledger')
  BY <1>1 DEF Grows
<1> QED BY <1>1, <1>3, <1>4, <1>5, <1>6, EditingPlain

\* What stands there, and what the gesture found there.
LEMMA Here ==
    ASSUME Inv, HistInv, journal.open, NEW i \in Id, tower[i] # None
    PROVE  /\ journal \in Journal /\ tower[i] \in Item /\ New(tower[i])
           /\ Noted(journal.touched[i], tower[i], mark[1][i])
           /\ mark[1][i] # None => New(mark[1][i])
           /\ journal.touched[i] # None => journal.touched[i].item.site = tower[i].site
<1>1. Marked /\ journal \in Journal /\ tower[i] \in Item
  BY DEF HistInv, Inv, TypeOK
<1>2. New(tower[i]) /\ SitedIn(i, tower[i], ledger)
  BY DEF HistInv, Stood
<1>3. journal.touched[i] # None => SitedIn(i, journal.touched[i].item, ledger)
  BY DEF Inv, JournalSited
<1> QED BY <1>1, <1>2, <1>3 DEF Marked, Stood, SitedIn

LEMMA SellPlain ==
    ASSUME Inv, Inv', HistInv, journal.open, UNCHANGED <<past, future, mark>>,
           NEW i \in Id, Sell(i)
    PROVE  HistInv' /\ History!Next
<1> DEFINE x == tower[i]
           n == NoteOut(journal, i, x)
           amount == IF x.use = "gutted" THEN 0 ELSE Refund(KindOf(x))
           found == mark[1][i]
<1>1. x # None /\ Edited(i, None, n, amount)
  BY DEF Sell
<1>2. /\ journal \in Journal /\ x \in Item /\ New(x) /\ Noted(journal.touched[i], x, found)
      /\ found # None => New(found)
      /\ journal.touched[i] # None => journal.touched[i].item.site = x.site
  BY <1>1, Here
<1>3. n \in Journal /\ amount \in Int
  <2>1. KindOf(x) \in Kinds
    BY <1>2, GeometryAssumption DEF KindOf, Item
  <2> QED BY <1>2, <2>1, NoteOutType, NumbersType
<1> HIDE DEF x, n, amount, found
<1>4. /\ n.open /\ n.cash = journal.cash /\ n.searched = journal.searched
      /\ n.hour = journal.hour /\ n.usedThenTaken = journal.usedThenTaken
      /\ \A k \in Id : k # i => n.touched[k] = journal.touched[k]
      /\ \A y : Noted(n.touched[i], y, found)
  <2>1. n = NoteOut(journal, i, x)
    BY DEF n
  <2>2. /\ journal \in Journal /\ journal.open /\ i \in Id /\ x \in Item /\ New(x)
        /\ journal.touched[i] # None => journal.touched[i].item.site = x.site
        /\ Noted(journal.touched[i], x, found) /\ (found # None => New(found))
    BY <1>2
  <2>3. NotesOnly(journal, NoteOut(journal, i, x), i, found)
    BY <2>2, OutNoted
  <2> QED BY <2>1, <2>3 DEF NotesOnly
<1>5. Noted(n.touched[i], None, mark[1][i])
  BY <1>4 DEF found
<1> QED BY <1>1, <1>3, <1>4, <1>5, ItemPlain

LEMMA EditPlain ==
    ASSUME Inv, Inv', HistInv, journal.open, UNCHANGED <<past, future, mark>>,
           NEW i \in Id, AddCar(i) \/ RemoveCar(i) \/ Reprice(i) \/ Rename(i)
    PROVE  HistInv' /\ History!Next
<1> DEFINE x == tower[i]
           n == NoteEdit(journal, i, x)
           found == mark[1][i]
<1>1. x # None
  BY DEF AddCar, RemoveCar, Reprice, Rename
<1>2. /\ journal \in Journal /\ x \in Item /\ New(x) /\ Noted(journal.touched[i], x, found)
      /\ found # None => New(found)
  BY <1>1, Here
<1>3. PICK y \in Item, amount \in Int : Edited(i, y, n, amount) /\ New(y)
  <2>1. CASE AddCar(i)
    <3>1. [x EXCEPT !.cars = @ + 1] \in Item /\ New([x EXCEPT !.cars = @ + 1])
      BY <1>2, <2>1, NumberAssumption DEF AddCar, Item, New
    <3>2. Edited(i, [x EXCEPT !.cars = @ + 1], n, -CarPrice) /\ -CarPrice \in Int
      BY <2>1, NumbersType DEF AddCar
    <3> QED BY <3>1, <3>2
  <2>2. CASE RemoveCar(i)
    <3>1. [x EXCEPT !.cars = @ - 1] \in Item /\ New([x EXCEPT !.cars = @ - 1])
      BY <1>2, <2>2, NumberAssumption DEF RemoveCar, Item, New
    <3>2. Edited(i, [x EXCEPT !.cars = @ - 1], n, CarRefund) /\ CarRefund \in Int
      BY <2>2, NumbersType DEF RemoveCar
    <3> QED BY <3>1, <3>2
  <2>3. CASE Reprice(i)
    <3>1. PICK rent \in Rents : Edited(i, [x EXCEPT !.rent = rent], n, 0)
      BY <2>3 DEF Reprice
    <3>2. [x EXCEPT !.rent = rent] \in Item /\ New([x EXCEPT !.rent = rent])
      BY <1>2 DEF Item, New
    <3> QED BY <3>1, <3>2
  <2>4. CASE Rename(i)
    <3>1. PICK name \in Names : Edited(i, [x EXCEPT !.name = name], n, 0)
      BY <2>4 DEF Rename
    <3>2. [x EXCEPT !.name = name] \in Item /\ New([x EXCEPT !.name = name])
      BY <1>2 DEF Item, New
    <3> QED BY <3>1, <3>2
  <2> QED BY <2>1, <2>2, <2>3, <2>4
<1>4. n \in Journal
  BY <1>2, NoteEditType
<1> HIDE DEF x, n, found
<1>5. /\ n.open /\ n.cash = journal.cash /\ n.searched = journal.searched
      /\ n.hour = journal.hour /\ n.usedThenTaken = journal.usedThenTaken
      /\ \A k \in Id : k # i => n.touched[k] = journal.touched[k]
      /\ \A z : Noted(n.touched[i], z, found)
  <2>1. n = NoteEdit(journal, i, x)
    BY DEF n
  <2>2. /\ journal \in Journal /\ journal.open /\ i \in Id /\ x \in Item /\ New(x)
        /\ Noted(journal.touched[i], x, found) /\ (found # None => New(found))
    BY <1>2
  <2>3. NotesOnly(journal, NoteEdit(journal, i, x), i, found)
    BY <2>2, EditNoted
  <2> QED BY <2>1, <2>3 DEF NotesOnly
<1>6. Noted(n.touched[i], y, mark[1][i])
  BY <1>5 DEF found
<1> QED BY <1>3, <1>4, <1>5, <1>6, ItemPlain

\* What a build adds is new, and the balance moves by what the journal notes.
LEMMA BuildPlain ==
    ASSUME Inv, Inv', HistInv, journal.open, Buried = {}, UNCHANGED <<past, future, mark>>,
           NEW s \in Site, Build(s)
    PROVE  HistInv' /\ History!Next
<1> DEFINE cost == Price[Kind[s]] + Cardinality(Missing(s)) * Price["floor"]
<1>1. /\ TypeOK /\ nextId + Cardinality(Missing(s)) <= MaxId
      /\ UNCHANGED <<hours, undo, redo>>
  BY DEF Build, Inv
<1>2. PICK at \in Layouts(s), gold \in IF Searches(s) THEN Treasures ELSE {0} :
        /\ tower' = [i \in Id |-> IF Added(at)[i] = None THEN tower[i] ELSE Added(at)[i]]
        /\ journal' = [NoteIn(Paid(journal, -cost), Added(at))
                         EXCEPT !.searched = @ \/ (journal.open /\ Searches(s))]
        /\ money' = money - cost + gold
        /\ ledger' = [i \in Id |->
              IF Added(at)[i] = None THEN ledger[i]
              ELSE [site |-> PlaceOf(at, i), sale |-> None,
                    used |-> IF Searches(PlaceOf(at, i)) THEN 1 ELSE 0]]
  BY Zenon DEF Build
<1>3. ~Searches(s) /\ gold = 0
  BY DEF Searches
<1>4. /\ DOMAIN at = Missing(s) \cup {s}
      /\ Cardinality(Missing(s)) \in Nat
      /\ \A p \in DOMAIN at :
            /\ at[p] \in Id /\ at[p] >= nextId /\ p \in Site
            /\ Added(at)[at[p]] = Placed(p) /\ Placed(p) # None
      /\ \A i \in Id : Added(at)[i] = None \/ \E p \in DOMAIN at : at[p] = i
  BY <1>1, BuildIds
<1>5. cost \in Int
  <2>1. Kind[s] \in Kinds /\ "floor" \in Kinds
    BY GeometryAssumption DEF Kinds
  <2>2. Price[Kind[s]] \in Nat /\ Price["floor"] \in Nat
    BY <2>1, NumbersType
  <2>3. \A n, a, b \in Nat : a + n * b \in Int
    OBVIOUS
  <2> QED BY <1>4, <2>2, <2>3
<1> HIDE DEF cost
<1>6. Marked /\ journal \in Journal /\ money \in Int /\ journal.cash \in Int /\ mark[2] \in Int
  BY DEF HistInv, Marked, World, Inv, TypeOK, Journal
<1>7. /\ journal'.open /\ ~journal'.searched /\ ~journal'.usedThenTaken /\ journal'.hour = 0
      /\ journal'.cash = journal.cash + (-cost)
      /\ \A i \in Id : journal'.touched[i] =
             IF Added(at)[i] # None
             THEN [how |-> "added", item |-> Added(at)[i]] ELSE journal.touched[i]
  BY <1>2, <1>3, <1>5, <1>6 DEF NoteIn, Paid, Journal, Marked
<1>8. money' = mark[2] + journal'.cash
  <2>1. \A m, b, j, c \in Int : b = m + j => b - c + 0 = m + (j + (-c))
    OBVIOUS
  <2>2. money - cost + 0 = mark[2] + (journal.cash + (-cost))
    BY <1>5, <1>6, <2>1 DEF Marked
  <2> QED BY <1>2, <1>3, <1>7, <2>2
<1>9. ASSUME NEW i \in Id
      PROVE  /\ tower'[i] # None => New(tower'[i])
             /\ Noted(journal'.touched[i], tower'[i], mark[1][i])
  <2>1. CASE Added(at)[i] = None
    <3>1. tower'[i] = tower[i] /\ journal'.touched[i] = journal.touched[i]
      BY <1>2, <1>7, <2>1
    <3> QED BY <1>6, <3>1 DEF HistInv, Stood, Marked
  <2>2. CASE Added(at)[i] # None
    <3>1. PICK p \in DOMAIN at : at[p] = i
      BY <1>4, <2>2
    <3>2. p \in Site /\ Added(at)[i] = Placed(p)
      BY <1>4, <3>1
    <3>3. Added(at)[i] \in Item /\ New(Added(at)[i])
      BY <3>2, PlacedType DEF New, Placed
    <3>4. tower'[i] = Added(at)[i]
      BY <1>2, <2>2
    <3>5. tower[i] = None /\ journal.touched[i] = None
      <4>1. ledger[i] = None
        BY <1>4, <3>1 DEF Inv
      <4> QED BY <4>1 DEF Inv, TowerSited, JournalSited, SitedIn
    <3>6. mark[1][i] = None
      BY <1>6, <3>5 DEF Marked, Noted
    <3>7. journal'.touched[i] = [how |-> "added", item |-> Added(at)[i]]
      BY <1>7, <2>2
    <3>8. None \notin Touch /\ [how |-> "added", item |-> Added(at)[i]] \in Touch
      BY <3>3, FactAssumption DEF Touch
    <3> QED BY <3>3, <3>4, <3>6, <3>7, <3>8 DEF Noted
  <2> QED BY <2>1, <2>2
<1>10. Grows(ledger, ledger')
  BY BuildShape DEF Grows
<1> QED BY <1>1, <1>7, <1>8, <1>9, <1>10, EditingPlain

-----------------------------------------------------------------------------
(* The specification.                                                      *)

\* A game begins with new items, no steps and no gesture.
LEMMA InitHist == InitH => Inv /\ HistInv /\ History!Init
<1> SUFFICES ASSUME InitH PROVE Inv /\ HistInv /\ History!Init
  OBVIOUS
<1>1. Inv /\ past = <<>> /\ future = <<>> /\ mark = NoMark
  BY InitInv DEF InitH
<1>2. /\ tower = StartTower /\ hours = 0 /\ journal = NoJournal
      /\ undo = <<>> /\ redo = <<>>
  BY DEF InitH, Init
<1>3. \A i \in Id : tower[i] # None => New(tower[i])
  <2> SUFFICES ASSUME NEW i \in Id, tower[i] # None PROVE New(tower[i])
    OBVIOUS
  <2>1. i <= Len(Begun) /\ tower[i] = Placed(Begun[i])
    BY <1>2 DEF StartTower
  <2>2. Begun[i] \in Site
    BY <2>1, GeometryAssumption DEF Id
  <2> QED BY <2>1, <2>2, PlacedType DEF New, Placed
<1>4. Stood(tower, ledger)
  BY <1>1, <1>3 DEF Inv, TypeOK, TowerSited, TowerStands, NoOverlap, NothingHangs, Stood, Standing
<1>5. HistInv
  BY <1>1, <1>2, <1>4, TrailNone DEF HistInv, NoJournal
<1>6. History!Init
  BY <1>1, NowIsWorld DEF History!Init
<1> QED BY <1>1, <1>5, <1>6

\* Every step keeps the invariants, and is one of the plain history or none.
LEMMA StepPlain ==
    ASSUME ~Strays, Buried = {}, Inv, HistInv, [NextH]_allVars
    PROVE  Inv' /\ HistInv' /\ [History!Next]_History!vars
<1>1. CASE Closing
  <2>1. Capture \/ Commit
    BY <1>1 DEF Closing
  <2> QED BY <1>1, <2>1, CloseInv, ClosingPlain
<1>2. CASE Editing
  <2>1. CASE \E s \in Site : Build(s)
    <3>1. PICK s \in Site : Build(s)
      BY <2>1
    <3>2. journal.open /\ UNCHANGED <<past, future, mark>>
      BY <1>2, <3>1, Zenon DEF Editing, Build, CanEdit
    <3>3. Inv'
      BY <3>1, BuildInv
    <3> QED BY <3>1, <3>2, <3>3, BuildPlain
  <2>2. ASSUME NEW i \in Id, Sell(i)
        PROVE  Inv' /\ HistInv' /\ History!Next
    <3>1. journal.open /\ UNCHANGED <<past, future, mark>>
      BY <1>2, <2>2, Zenon DEF Editing, Sell, CanEdit
    <3>2. Inv'
      BY <2>2, SellInv
    <3> QED BY <2>2, <3>1, <3>2, SellPlain
  <2>3. ASSUME NEW i \in Id, AddCar(i) \/ RemoveCar(i) \/ Reprice(i) \/ Rename(i)
        PROVE  Inv' /\ HistInv' /\ History!Next
    <3>1. journal.open /\ UNCHANGED <<past, future, mark>>
      BY <1>2, <2>3, Zenon DEF Editing, AddCar, RemoveCar, Reprice, Rename, CanEdit
    <3>2. Inv'
      BY <2>3, EditInv
    <3> QED BY <2>3, <3>1, <3>2, EditPlain
  <2> QED BY <1>2, <2>1, <2>2, <2>3, Zenon DEF Editing
<1>3. CASE Stepping
  <2>1. Inv'
    BY <1>3, UndoRedoInv DEF Stepping
  <2> QED BY <1>3, <2>1, UndoPlain, RedoPlain DEF Stepping
<1>4. CASE UNCHANGED allVars
  <2>1. UNCHANGED vars /\ UNCHANGED <<past, future, mark>>
    BY <1>4 DEF allVars
  <2>2. Inv'
    BY <2>1, StutterInv
  <2>3. UNCHANGED <<tower, money, hours, journal, undo, redo, ledger>>
    BY <2>1 DEF vars, world
  <2>4. Now' = Now
    BY <2>3 DEF Now
  <2>5. HistInv'
    BY <2>1, <2>3, <2>4 DEF HistInv, Base, Marked
  <2>6. UNCHANGED History!vars
    BY <2>1, <2>4 DEF History!vars
  <2> QED BY <2>2, <2>5, <2>6
<1> QED BY <1>1, <1>2, <1>3, <1>4 DEF NextH

(* Both invariants hold as long as the game is played: every item is new,  *)
(* and the steps of each stack lead from the base to its snapshots.        *)
THEOREM HistoryInvariant ==
    ASSUME ~Strays, Buried = {}
    PROVE  SpecH => [](Inv /\ HistInv)
<1>1. InitH => Inv /\ HistInv
  BY InitHist
<1>2. (Inv /\ HistInv) /\ [NextH]_allVars => (Inv /\ HistInv)'
  BY StepPlain
<1> QED BY <1>1, <1>2, PTL DEF SpecH

(* Where every edit is made in a gesture, no time passes and there is no   *)
(* ground to dig, the engine's steps, each holding only what one gesture   *)
(* changed, are a history of whole towers and balances: an undo goes back  *)
(* to just what the gesture found and a redo to what it left, and none is  *)
(* dropped while it can still be taken.                                    *)
THEOREM WholeTowersRestored ==
    ASSUME ~Strays, Buried = {}
    PROVE  SpecH => RestoresWholeTowers
<1>1. InitH => History!Init
  BY InitHist
<1>2. (Inv /\ HistInv) /\ [NextH]_allVars => [History!Next]_History!vars
  BY StepPlain
<1>3. SpecH => [](Inv /\ HistInv)
  BY HistoryInvariant
<1> QED BY <1>1, <1>2, <1>3, PTL DEF SpecH, RestoresWholeTowers, History!Spec

(* What an undo or a redo would take then applies, but for a balance that  *)
(* cannot pay for it.                                                      *)
OnlyMoneyRefuses ==
    \A stack \in {UndoCommitted, RedoCommitted} : stack # <<>> =>
        Applies(Newest(stack)) \/ NotEnoughMoney(Newest(stack))

(* Where every edit is made in a gesture, no time passes and there is no   *)
(* ground to dig, no step is refused for good, and one is refused for now  *)
(* only where the tower cannot pay for it (sim_undo_check.rs).              *)
THEOREM RefusedOnlyForMoney ==
    ASSUME ~Strays, Buried = {}
    PROVE  SpecH => []OnlyMoneyRefuses
<1>1. Inv /\ HistInv => OnlyMoneyRefuses
  <2> SUFFICES ASSUME Inv, HistInv, NEW stack, NEW ago,
                      Trail(stack, ago, Now, ledger), stack # <<>>
               PROVE  Applies(Newest(stack)) \/ NotEnoughMoney(Newest(stack))
    BY ClosedTrails DEF OnlyMoneyRefuses
  <2>1. Goes(Newest(stack), Now, Newest(ago), ledger) /\ hours = 0
    BY TrailNewest DEF HistInv
  <2>2. Leads(Newest(stack), tower, Newest(ago)[1], ledger)
    BY <2>1 DEF Goes, Now
  <2> QED BY <2>1, <2>2, LeadsApplies DEF Applies
<1> QED BY <1>1, HistoryInvariant, PTL
==============================================================================
