------------------------------ MODULE UndoTower ------------------------------
(***************************************************************************)
(* Undo and redo of edits to a tower that time moves on (undo.rs,          *)
(* undo_journal.rs, sim_undo.rs, sim_undo_check.rs, sim_undo_ground.rs,    *)
(* wasm_port_undo.rs), with the edit commands that feed the journal        *)
(* (build.rs, charges.rs) and what an advance of the simulation does to    *)
(* the facts a step is checked against (sim_loop.rs).                      *)
(*                                                                         *)
(* The grid is abstracted to places: a place holds at most one unit or     *)
(* shaft, and Rests says which floor tiles must hold one standing there.   *)
(* Units and shafts are records of one shape: a shaft has no use, price or *)
(* name, a unit no cars or rides.  The order of the unit list is UndoList. *)
(*                                                                         *)
(* A kind stands for the kinds of the code that share one cap: a room kind *)
(* with a cap of its own (BUILD_CAPS), or, for "shaft", all elevators,     *)
(* which share a pooled cap (POOLED_CAPS).  No kind has both.  The stairs  *)
(* and their pool are left out.                                            *)
(***************************************************************************)
EXTENDS Integers, Sequences, FiniteSets

CONSTANTS
    Site,        \* the places of the lot
    Kind,        \* what each place can hold
    Rests,       \* the floor tiles each place needs under it
    Buried,      \* places whose build digs ground that could hold treasure
    Begun,       \* the places already built at the start, in id order
    Price,       \* what a build of each kind costs
    CarPrice,    \* ADD_CAR_COST
    MaxCars,     \* Kind::max_cars
    KindCap,     \* build_cap and POOLED_CAPS: most units or shafts of each kind
    StartMoney,  \* the balance at the start
    Rents,       \* prices a player may set; Rents is never empty
    Names,       \* names a unit may have
    Flows,       \* what time may add to or take from the balance
    Treasures,   \* what a search of the ground may find, 0 for nothing
    MaxFound,    \* treasures found after which no dig searches any more
    Clock,       \* whether time passes
    Strays,      \* whether edits may come with no gesture open
    UndoCap,     \* UNDO_CAP
    MaxId,       \* bound: the last id handed out
    MaxHour,     \* bound: hourly passes run
    MaxRides,    \* bound: rides counted on a shaft
    MaxFlow,     \* bound: what time and treasure add up to, either way
    None         \* no unit, no image, nothing touched

Id    == 1..MaxId
Kinds == {"floor", "room", "condo", "shaft"}
Uses  == {"building", "idle", "let", "busy", "fire", "gutted"}

(* A unit or a shaft.  UnitUse is use and sold (ever_occupied); the facts  *)
(* an edit owns are rent and name on a unit, the cars on a shaft.          *)
Item == [site : Site, use : Uses, sold : BOOLEAN, rent : Rents, name : Names,
         cars : 0..MaxCars, rides : 0..MaxRides]

(* Before: what a touched item was when the gesture found it, or that the  *)
(* gesture added it (then item holds the use it came in with, or the use   *)
(* it had when the gesture took it out again).                             *)
Touch == [how : {"was", "added", "addedAndUsed"}, item : Item]

(* UnitChange and TransportChange.                                         *)
Image == [do : {"takeOut", "putBack", "restore"},
          want : Item, left : Item, built : BOOLEAN]

Step == [images : [Id -> Image \cup {None}], money : Int,
         searched : BOOLEAN, usedInGesture : BOOLEAN, hour : 0..MaxHour,
         held : [Kinds -> 0..MaxId]]

Journal == [open : BOOLEAN, touched : [Id -> Touch \cup {None}], cash : Int,
            searched : BOOLEAN, tookOwn : BOOLEAN, usedThenTaken : BOOLEAN,
            hour : 0..MaxHour]

(* An entry of the ledger.                                                 *)
Entry == [site : Site, used : Nat, sale : Rents \cup {None}]

DefaultRent == CHOOSE r \in Rents : TRUE
CatalogName == CHOOSE n \in Names : n = "catalog"

ASSUME GeometryAssumption ==
    /\ IsFiniteSet(Site) /\ Kind \in [Site -> Kinds]
    /\ Rests \in [Site -> SUBSET {s \in Site : Kind[s] = "floor"}]
    /\ Buried \subseteq {s \in Site : Kind[s] \in {"room", "condo"}}
    /\ Begun \in Seq(Site) /\ Len(Begun) <= MaxId
    /\ \A m, n \in DOMAIN Begun : Begun[m] = Begun[n] => m = n
    /\ \A m \in DOMAIN Begun : \A f \in Rests[Begun[m]] :
          \E n \in DOMAIN Begun : Begun[n] = f

ASSUME NumberAssumption ==
    /\ UndoCap \in Nat \ {0} /\ MaxId \in Nat /\ MaxHour \in Nat
    /\ MaxRides \in Nat /\ MaxCars \in Nat \ {0} /\ MaxFlow \in Nat
    /\ Price \in [Kinds -> Nat] /\ CarPrice \in Nat /\ StartMoney \in Nat
    /\ KindCap \in [Kinds -> Nat]
    /\ Flows \subseteq Int /\ 0 \in Flows
    /\ Treasures \subseteq Nat /\ 0 \in Treasures /\ MaxFound \in Nat
    /\ Clock \in BOOLEAN /\ Strays \in BOOLEAN

(* Floor tiles have no build cap (build_cap).                              *)
ASSUME CapAssumption == KindCap["floor"] >= MaxId

ASSUME FactAssumption ==
    /\ Rents # {} /\ "catalog" \in Names
    /\ None \notin Item /\ None \notin Touch /\ None \notin Image /\ None \notin Entry

VARIABLES
    tower,    \* Tower::units and Tower::transports, by id
    nextId,   \* Tower::next_id
    money,    \* Simulation::money
    hours,    \* Simulation::on_hour_runs
    dug,      \* Simulation::excavated
    treasuresFound,  \* Simulation::treasures_found
    journal,  \* Tower::journal
    undo,     \* UndoHistory::undo, newest last
    redo,     \* UndoHistory::redo, newest last
    ledger,   \* history: where each id was built, how much of it was used,
              \* and the price it was let or sold at
    outside   \* history: what time and treasure have added to the balance

world == <<tower, nextId, money, hours, dug, treasuresFound>>
vars  == <<tower, nextId, money, hours, dug, treasuresFound, journal, undo, redo,
           ledger, outside>>

-----------------------------------------------------------------------------
(* The tower.                                                              *)

KindOf(x)   == Kind[x.site]
IsRoom(x)   == KindOf(x) \in {"room", "condo"}
IsFloor(x)  == KindOf(x) = "floor"
IsShaft(x)  == KindOf(x) = "shaft"

Standing(t)  == {i \in Id : t[i] # None}
HeldAt(t, s) == \E i \in Standing(t) : t[i].site = s
Count(t, k)  == Cardinality({i \in Standing(t) : KindOf(t[i]) = k})
Refund(k)    == Price[k] \div 2
CarRefund    == CarPrice \div 2

(* config_eq, for units and for shafts.                                    *)
SameConfig(x, y) == x.rent = y.rent /\ x.name = y.name /\ x.cars = y.cars

(* UnitUse::as_sold.                                                       *)
UseOf(x)  == <<x.use, x.sold>>
AsSold(x) == <<IF x.use = "building" THEN "idle" ELSE x.use, x.sold>>

(* takes_cars_or_floors.                                                   *)
TakesCars(left, want) == want.cars < left.cars

(* A new unit or shaft: a room is placed to be built, a floor tile as it   *)
(* stays, an elevator with its first car.                                  *)
Placed(s) ==
    [site |-> s, sold |-> FALSE, rent |-> DefaultRent, name |-> CatalogName,
     use |-> IF Kind[s] \in {"room", "condo"} THEN "building" ELSE "idle",
     cars |-> IF Kind[s] = "shaft" THEN 1 ELSE 0, rides |-> 0]

-----------------------------------------------------------------------------
(* The journal's notes, made just before the tower changes.                *)

NoJournal == [open |-> FALSE, touched |-> [i \in Id |-> None], cash |-> 0,
              searched |-> FALSE, tookOwn |-> FALSE, usedThenTaken |-> FALSE,
              hour |-> 0]

OpenJournal == [NoJournal EXCEPT !.open = TRUE, !.hour = hours]

(* note_own_build_taken: a shaft the gesture bought cars for, written over *)
(* or taken out again.                                                     *)
NoteBought(j, found, x) ==
    IF TakesCars(x, found)
    THEN [j EXCEPT !.tookOwn = TRUE,
                   !.usedThenTaken = @ \/ x.rides # found.rides]
    ELSE j

(* unit_edit and transport_edit.                                           *)
NoteEdit(j, i, x) ==
    IF ~j.open THEN j
    ELSE IF j.touched[i] = None
         THEN [j EXCEPT !.touched[i] = [how |-> "was", item |-> x]]
         ELSE IF IsShaft(x) /\ j.touched[i].how = "was"
              THEN NoteBought(j, j.touched[i].item, x)
              ELSE j

(* Slip: the item leaves with the facts the gesture gave it.               *)
LeavingAsIs(x, found) == x

(* with_edit_facts_of and take_config_from: the item as it leaves, with    *)
(* the facts edits own as the gesture found them; a sold condo keeps its   *)
(* price.                                                                  *)
Leaving(x, found) ==
    [x EXCEPT !.name = found.name, !.cars = found.cars,
              !.rent = IF KindOf(x) = "condo" /\ x.sold THEN @ ELSE found.rent]

(* Slip: what the gesture added and took out is noted as found.            *)
NoteOutAsFound(j, i, x) ==
    IF ~j.open THEN j ELSE [j EXCEPT !.touched[i] = [how |-> "was", item |-> x]]

(* unit_out and transport_out.                                             *)
NoteOut(j, i, x) ==
    IF ~j.open THEN j
    ELSE IF j.touched[i] = None
    THEN [j EXCEPT !.touched[i] = [how |-> "was", item |-> x]]
    ELSE LET seen == j.touched[i] IN
         CASE seen.how = "was" ->
                [(IF IsShaft(x) THEN NoteBought(j, seen.item, x) ELSE j)
                    EXCEPT !.touched[i].item = Leaving(x, seen.item)]
           [] seen.how = "added" /\ IsShaft(x) ->
                [j EXCEPT !.tookOwn = TRUE, !.usedThenTaken = @ \/ x.rides > 0]
           [] seen.how = "added" /\ ~IsShaft(x) ->
                [j EXCEPT !.touched[i] =
                            IF UseOf(x) = UseOf(@.item) THEN @
                            ELSE [how |-> "addedAndUsed", item |-> x],
                          !.tookOwn = @ \/ IsFloor(x)]
           [] OTHER -> j

(* unit_in and transport_in, for the items `added` to the tower.           *)
NoteIn(j, added) ==
    IF ~j.open THEN j
    ELSE [j EXCEPT !.touched = [i \in Id |->
                IF added[i] = None THEN @[i] ELSE [how |-> "added", item |-> added[i]]]]

Paid(j, amount) == IF j.open THEN [j EXCEPT !.cash = @ + amount] ELSE j

-----------------------------------------------------------------------------
(* Closing a journal into a step (end_undo_journal).                       *)

(* Slip: a room used and taken out in the gesture that built it leaves no  *)
(* trace.                                                                  *)
UnitImageForgetsUse(seen, now) ==
    LET image(do, want, left) ==
            [do |-> do, want |-> want, left |-> left, built |-> seen.how # "was"]
    IN  IF seen.how = "was"
        THEN IF now = None THEN image("putBack", seen.item, seen.item)
             ELSE IF SameConfig(seen.item, now) THEN None
             ELSE image("restore", seen.item, now)
        ELSE IF now = None THEN None
             ELSE image("takeOut", seen.item, seen.item)

UnitImage(seen, now) ==
    LET image(do, want, left) ==
            [do |-> do, want |-> want, left |-> left, built |-> seen.how # "was"]
    IN  IF seen.how = "was"
        THEN IF now = None THEN image("putBack", seen.item, seen.item)
             ELSE IF SameConfig(seen.item, now) THEN None
             ELSE image("restore", seen.item, now)
        ELSE IF now = None /\ seen.how = "added" THEN None
             ELSE image("takeOut", seen.item, seen.item)

(* Slip: a step takes the rides of its own gesture for rides it may undo.  *)
ShaftImageKeepsRides(seen, now) ==
    LET image(do, want, left, built) ==
            [do |-> do, want |-> want, left |-> left, built |-> built]
    IN  IF seen.how = "was"
        THEN IF now = None THEN image("putBack", seen.item, seen.item, FALSE)
             ELSE IF SameConfig(seen.item, now) THEN None
             ELSE image("restore", seen.item, now, TRUE)
        ELSE IF now = None THEN None ELSE image("takeOut", seen.item, now, TRUE)

ShaftImage(seen, now) ==
    LET image(do, want, left, built) ==
            [do |-> do, want |-> want, left |-> left, built |-> built]
    IN  IF seen.how = "was"
        THEN IF now = None THEN image("putBack", seen.item, seen.item, FALSE)
             ELSE IF SameConfig(seen.item, now) THEN None
             ELSE image("restore", seen.item,
                        [now EXCEPT !.rides = seen.item.rides], TRUE)
        ELSE IF now = None THEN None
             ELSE image("takeOut", seen.item, [now EXCEPT !.rides = 0], TRUE)

ImageOf(seen, now) ==
    IF seen = None THEN None
    ELSE IF IsShaft(seen.item) THEN ShaftImage(seen, now) ELSE UnitImage(seen, now)

StepOf(j) ==
    [images |-> [i \in Id |-> ImageOf(j.touched[i], tower[i])],
     money |-> -j.cash, searched |-> j.searched, hour |-> j.hour,
     usedInGesture |-> j.usedThenTaken \/ (j.tookOwn /\ hours # j.hour),
     held |-> [k \in Kinds |-> Count(tower, k)]]

(* Step::is_empty.                                                         *)
IsEmpty(step) ==
    (\A i \in Id : step.images[i] = None) /\ step.money = 0 /\ ~step.searched

-----------------------------------------------------------------------------
(* Checking a step against the tower it meets (check_undo_step).           *)

Named(step, i)    == step.images[i] # None
Does(step, i, do) == step.images[i] # None /\ step.images[i].do = do
Want(step, i)     == step.images[i].want
Left(step, i)     == step.images[i].left
OfShaft(step, i)  == IsShaft(Want(step, i))

(* The tower finds what the image expects: there, or not there, and a      *)
(* shaft with the cars the edit left.  Otherwise the step is Stale.        *)
Expected(step, i) ==
    /\ (tower[i] = None) = Does(step, i, "putBack")
    /\ OfShaft(step, i) /\ tower[i] # None => tower[i].cars = Left(step, i).cars

(* Ground::holds: floor the step lays, or floor it does not take.          *)
Holds(step, f) ==
    \E i \in Id : \/ Does(step, i, "putBack") /\ Want(step, i).site = f
                  \/ /\ tower[i] # None /\ tower[i].site = f
                     /\ ~Does(step, i, "takeOut")

Grounded(step, x) == \A f \in Rests[x.site] : Holds(step, f)

(* Slip: a place is free whatever stands there.                            *)
HasFloorOnly(step, i) == Grounded(step, Want(step, i))

(* tiles_free_for and under_room; fits and under_shaft.                    *)
HasRoom(step, i) ==
    /\ Grounded(step, Want(step, i))
    /\ \A k \in Standing(tower) :
          tower[k].site = Want(step, i).site =>
              IF OfShaft(step, i) THEN Named(step, k) ELSE Does(step, k, "takeOut")

(* leaves_nothing_hanging_from, and still_under_shaft for the shafts.      *)
Laid(step, f) == \E i \in Id : Does(step, i, "putBack") /\ Want(step, i).site = f
(* Slip: only the shafts on a floor tile keep it.                          *)
HangsOnlyShafts(step, i) ==
    /\ ~Laid(step, tower[i].site)
    /\ \E k \in Standing(tower) :
          IsShaft(tower[k]) /\ tower[i].site \in Rests[tower[k].site] /\ ~Named(step, k)

Hangs(step, i) ==
    /\ ~Laid(step, tower[i].site)
    /\ \E k \in Standing(tower) :
          /\ tower[i].site \in Rests[tower[k].site]
          /\ IF IsShaft(tower[k]) THEN ~Named(step, k) ELSE ~Does(step, k, "takeOut")

(* puts_back and reprices_a_sold_condo.                                    *)
PutsBack(want, left, now) == want # left /\ now = left
(* Slip: a sold condo's price is put back like any other.                  *)
RepricesNothing(step, i) == FALSE
RepricesSold(step, i) ==
    /\ KindOf(tower[i]) = "condo" /\ tower[i].sold
    /\ PutsBack(Want(step, i).rent, Left(step, i).rent, tower[i].rent)

OnFire(step, i) == Does(step, i, "takeOut") /\ tower[i] # None /\ tower[i].use = "fire"

(* check_take_out: the build the step takes at its full price has been     *)
(* used, or the room a sale takes again is not as it was sold.             *)
UsedUnit(step, i) ==
    IF ~step.images[i].built THEN AsSold(tower[i]) # AsSold(Left(step, i))
    ELSE IF IsFloor(tower[i]) THEN hours # step.hour
    ELSE UseOf(tower[i]) # UseOf(Left(step, i))

(* check_shafts: the same of a shaft, or of the cars a restore takes.      *)
UsedShaft(step, i) ==
    /\ step.images[i].built
    /\ Does(step, i, "takeOut") \/ TakesCars(Left(step, i), Want(step, i))
    /\ hours # step.hour \/ tower[i].rides # Left(step, i).rides

(* What bars a step for good, image by image.                              *)
Barred(step, i) ==
    \/ ~Expected(step, i)
    \/ /\ Expected(step, i) /\ Does(step, i, "takeOut")
       /\ IF OfShaft(step, i) THEN UsedShaft(step, i)
          ELSE \/ ~OnFire(step, i) /\ UsedUnit(step, i)
               \/ IsFloor(tower[i]) /\ Hangs(step, i)
    \/ /\ Expected(step, i) /\ Does(step, i, "putBack")
       /\ ~HasRoom(step, i)
    \/ /\ Expected(step, i) /\ Does(step, i, "restore")
       /\ IF OfShaft(step, i) THEN ~HasRoom(step, i) \/ UsedShaft(step, i)
          ELSE RepricesSold(step, i)

(* kinds_added, caps_raised and within_caps: what a step adds under a cap, *)
(* and the cap, or the count the step was made with, that it must keep.    *)
Adds(step, k) ==
    Cardinality({i \in Id : Does(step, i, "putBack") /\ KindOf(Want(step, i)) = k})
  - Cardinality({i \in Standing(tower) : Does(step, i, "takeOut") /\ KindOf(tower[i]) = k})
(* Slip: the caps as they stand, before what the step adds.                *)
WithinCapsNow(step) ==
    \A k \in Kinds : Adds(step, k) > 0 => Count(tower, k) <= KindCap[k]
WithinCaps(step) ==
    \A k \in Kinds : Adds(step, k) > 0 =>
        \/ Count(tower, k) + Adds(step, k) <= KindCap[k]
        \/ Count(tower, k) <= step.held[k]

(* StepRefused::is_lasting, and the refusals that time can clear.  A step  *)
(* with any lasting refusal is refused for good.                           *)
Lasting(step) ==
    \/ step.searched \/ step.usedInGesture
    \/ \E i \in Id : Named(step, i) /\ Barred(step, i)
    \/ ~WithinCaps(step)
NotEnoughMoney(step) == step.money < 0 /\ money + step.money < 0
Passing(step) == NotEnoughMoney(step) \/ \E i \in Id : OnFire(step, i)
Applies(step) == ~Lasting(step) /\ ~Passing(step)

-----------------------------------------------------------------------------
(* Applying a step (apply_undo_step).                                      *)

(* put_unit_facts, and take_config_from for a shaft.                       *)
Restored(now, want, left) ==
    [now EXCEPT !.rent = IF PutsBack(want.rent, left.rent, @) THEN want.rent ELSE @,
                !.name = IF PutsBack(want.name, left.name, @) THEN want.name ELSE @,
                !.cars = want.cars]

AfterStep(step) ==
    [i \in Id |->
        IF ~Named(step, i) THEN tower[i]
        ELSE CASE Does(step, i, "takeOut") -> None
               [] Does(step, i, "putBack") -> Want(step, i)
               [] OTHER -> Restored(tower[i], Want(step, i), Left(step, i))]

(* Slip: the opposite of a restore expects the tower it is to give back.   *)
BackImageLeavesNow(step, i) ==
    IF ~Named(step, i) THEN None
    ELSE LET image == step.images[i] IN
         CASE image.do = "takeOut" ->
                [image EXCEPT !.do = "putBack", !.want = tower[i], !.left = tower[i]]
           [] image.do = "putBack" ->
                [image EXCEPT !.do = "takeOut", !.left = image.want]
           [] OTHER ->
                [image EXCEPT !.want = tower[i], !.left = tower[i],
                              !.built = IF OfShaft(step, i) THEN ~@ ELSE @]

(* The image of the opposite step.                                         *)
BackImage(step, i) ==
    IF ~Named(step, i) THEN None
    ELSE LET image == step.images[i] IN
         CASE image.do = "takeOut" ->
                [image EXCEPT !.do = "putBack", !.want = tower[i], !.left = tower[i]]
           [] image.do = "putBack" ->
                [image EXCEPT !.do = "takeOut", !.left = image.want]
           [] OTHER ->
                [image EXCEPT !.want = tower[i], !.left = AfterStep(step)[i],
                              !.built = IF OfShaft(step, i) THEN ~@ ELSE @]

(* Slip: the opposite step keeps the hour of the step.                     *)
OppositeKeepsHour(step) ==
    [images |-> [i \in Id |-> BackImage(step, i)], money |-> -step.money,
     searched |-> FALSE, usedInGesture |-> FALSE, hour |-> step.hour,
     held |-> [k \in Kinds |-> Count(AfterStep(step), k)]]

Opposite(step) ==
    [images |-> [i \in Id |-> BackImage(step, i)], money |-> -step.money,
     searched |-> FALSE, usedInGesture |-> FALSE, hour |-> hours,
     held |-> [k \in Kinds |-> Count(AfterStep(step), k)]]

-----------------------------------------------------------------------------
(* The two stacks (UndoHistory).                                           *)

Pushed(stack, step) ==
    IF Len(stack) < UndoCap THEN Append(stack, step) ELSE Append(Tail(stack), step)
Newest(stack) == stack[Len(stack)]
Older(stack)  == SubSeq(stack, 1, Len(stack) - 1)

Kept == journal.open /\ ~IsEmpty(StepOf(journal))
UndoCommitted == IF Kept THEN Pushed(undo, StepOf(journal)) ELSE undo
(* Slip: a new step leaves the way forward open.                           *)
RedoNeverCleared == redo
RedoCommitted == IF Kept THEN <<>> ELSE redo

-----------------------------------------------------------------------------
StartTower ==
    [i \in Id |-> IF i <= Len(Begun) THEN Placed(Begun[i]) ELSE None]
StartLedger ==
    [i \in Id |-> IF i <= Len(Begun) THEN [site |-> Begun[i], used |-> 1, sale |-> None]
                               ELSE None]

Init ==
    /\ tower = StartTower /\ nextId = Len(Begun) + 1
    /\ money = StartMoney /\ hours = 0 /\ dug = {} /\ treasuresFound = 0
    /\ journal = NoJournal /\ undo = <<>> /\ redo = <<>>
    /\ ledger = StartLedger /\ outside = 0

(* undoCapture: keep what is open, then open a journal.                    *)
Capture ==
    /\ journal' = OpenJournal
    /\ undo' = UndoCommitted /\ redo' = RedoCommitted
    /\ UNCHANGED <<world, ledger, outside>>

(* undoCommit, and undoDiscard, which keeps a change all the same.         *)
Commit ==
    /\ journal.open /\ journal' = NoJournal
    /\ undo' = UndoCommitted /\ redo' = RedoCommitted
    /\ UNCHANGED <<world, ledger, outside>>

CanEdit == journal.open \/ Strays

(* The edit commands note their cash and change one item.                  *)
Edited(i, x, j, amount) ==
    /\ tower' = [tower EXCEPT ![i] = x]
    /\ journal' = Paid(j, amount)
    /\ money' = money + amount
    /\ UNCHANGED <<nextId, hours, dug, treasuresFound, undo, redo, ledger, outside>>

(* build and build_transport at place s.  A room's build first lays the    *)
(* floor missing under it, each tile with an id of its own.  A dig in      *)
(* fresh ground searches it until enough is found; the treasure found is   *)
(* no part of the edit's cash.                                             *)
Missing(s)  == {f \in Rests[s] : ~HeldAt(tower, f)}
Searches(s) == s \in Buried \ dug /\ treasuresFound < MaxFound

(* The ids the places built get, and the items they are.                   *)
Layouts(s) ==
    LET last == nextId + Cardinality(Missing(s))
    IN  {at \in [Missing(s) \cup {s} -> nextId..last] :
            at[s] = last /\ \A p, q \in DOMAIN at : at[p] = at[q] => p = q}
PlaceOf(at, i) == CHOOSE p \in DOMAIN at : at[p] = i
Added(at) ==
    [i \in Id |-> IF \E p \in DOMAIN at : at[p] = i THEN Placed(PlaceOf(at, i)) ELSE None]

Build(s) ==
    /\ CanEdit /\ ~HeldAt(tower, s)
    /\ Missing(s) # {} => Kind[s] \in {"room", "condo"}
    /\ \A f \in Missing(s) : \A g \in Rests[f] : HeldAt(tower, g)
    /\ Count(tower, Kind[s]) < KindCap[Kind[s]]
    /\ nextId + Cardinality(Missing(s)) <= MaxId
    /\ \E at \in Layouts(s) : \E gold \in IF Searches(s) THEN Treasures ELSE {0} :
          LET cost == Price[Kind[s]] + Cardinality(Missing(s)) * Price["floor"]
          IN
          /\ money >= cost /\ outside + gold <= MaxFlow
          /\ tower' = [i \in Id |-> IF Added(at)[i] = None THEN tower[i] ELSE Added(at)[i]]
          /\ journal' = [NoteIn(Paid(journal, -cost), Added(at))
                            EXCEPT !.searched = @ \/ (journal.open /\ Searches(s))]
          /\ money' = money - cost + gold
          /\ outside' = outside + gold
          /\ treasuresFound' = IF gold = 0 THEN treasuresFound ELSE treasuresFound + 1
          /\ ledger' = [i \in Id |->
                IF Added(at)[i] = None THEN ledger[i]
                ELSE [site |-> PlaceOf(at, i), sale |-> None,
                      used |-> IF Searches(PlaceOf(at, i)) THEN 1 ELSE 0]]
    /\ nextId' = nextId + Cardinality(Missing(s)) + 1
    /\ dug' = dug \cup ({s} \cap Buried)
    /\ UNCHANGED <<hours, undo, redo>>

(* remove_facility.  A tile is picked only where nothing stands on it      *)
(* (sell_at, demolishTile), and refused under a story (removal_reason); a  *)
(* burning room is refused, and a gutted one pays nothing.                 *)
Sell(i) ==
    /\ CanEdit /\ tower[i] # None /\ tower[i].use # "fire"
    /\ \A k \in Standing(tower) : tower[i].site \notin Rests[tower[k].site]
    /\ Edited(i, None, NoteOut(journal, i, tower[i]),
              IF tower[i].use = "gutted" THEN 0 ELSE Refund(KindOf(tower[i])))

AddCar(i) ==
    /\ CanEdit /\ tower[i] # None /\ IsShaft(tower[i])
    /\ tower[i].cars < MaxCars /\ money >= CarPrice
    /\ Edited(i, [tower[i] EXCEPT !.cars = @ + 1],
              NoteEdit(journal, i, tower[i]), -CarPrice)

(* Slip: the last car may go.                                              *)
RemoveAnyCar(i) ==
    /\ CanEdit /\ tower[i] # None /\ IsShaft(tower[i])
    /\ Edited(i, [tower[i] EXCEPT !.cars = @ - 1],
              NoteEdit(journal, i, tower[i]), CarRefund)

RemoveCar(i) ==
    /\ CanEdit /\ tower[i] # None /\ IsShaft(tower[i]) /\ tower[i].cars > 1
    /\ Edited(i, [tower[i] EXCEPT !.cars = @ - 1],
              NoteEdit(journal, i, tower[i]), CarRefund)

(* price_unit: a sold condo keeps its price.                               *)
Reprice(i) ==
    /\ CanEdit /\ tower[i] # None /\ IsRoom(tower[i])
    /\ ~(KindOf(tower[i]) = "condo" /\ tower[i].sold)
    /\ \E rent \in Rents \ {tower[i].rent} :
          Edited(i, [tower[i] EXCEPT !.rent = rent],
                 NoteEdit(journal, i, tower[i]), 0)

(* set_label.                                                              *)
Rename(i) ==
    /\ CanEdit /\ tower[i] # None /\ IsRoom(tower[i])
    /\ \E name \in Names \ {tower[i].name, "tenant"} :
          Edited(i, [tower[i] EXCEPT !.name = name],
                 NoteEdit(journal, i, tower[i]), 0)

(* What one advance may make of an item: a room opens once built; a tenant *)
(* moves in, comes and goes, moves out; a room burns and is gutted; a      *)
(* shaft is ridden.                                                        *)
Ridden(x) == IF x.rides < MaxRides THEN {[x EXCEPT !.rides = @ + 1]} ELSE {}
Lived(x, hourly) ==
    CASE x.use = "building" -> {[x EXCEPT !.use = "idle"]}
      [] x.use = "idle" ->
            {[x EXCEPT !.use = "fire"]} \cup
            (IF hourly THEN {[x EXCEPT !.use = "let", !.sold = TRUE, !.name = n] :
                                n \in {x.name} \cup (Names \cap {"tenant"})} ELSE {})
      [] x.use \in {"let", "busy"} ->
            {[x EXCEPT !.use = "fire"],
             [x EXCEPT !.use = IF @ = "let" THEN "busy" ELSE "let"]} \cup
            (IF hourly THEN {[x EXCEPT !.use = "idle", !.sold = FALSE,
                                       !.name = CatalogName]} ELSE {})
      [] x.use = "fire" ->
            {[x EXCEPT !.use = "gutted", !.sold = FALSE, !.name = CatalogName]}
      [] x.use = "gutted" -> {}
Moved(x, hourly) ==
    IF IsShaft(x) THEN Ridden(x) ELSE IF IsRoom(x) THEN Lived(x, hourly) ELSE {}

(* What an item has been used for: a room once it opens, a floor tile or a *)
(* shaft by the hour, a shaft by a ride; a shaft counts its cars.          *)
Used(entry, was, now, hourly) ==
    LET used   == (IF IsRoom(now) THEN now.use # "building" ELSE hourly) \/ was # now
        extent == IF IsShaft(now) THEN now.cars ELSE 1
    IN  [entry EXCEPT !.used = IF used /\ extent > @ THEN extent ELSE @,
                      !.sale = IF ~now.sold THEN None
                               ELSE IF was.sold THEN @ ELSE now.rent]

(* advance_step, with the journal off the tower.  At most one item moves;  *)
(* a step that moves several is a run of these.  Answering an emergency    *)
(* and starting a fire (outside_the_gesture) are advances too.             *)
Advance ==
    Clock /\ \E hourly \in BOOLEAN :
       /\ hourly => hours < MaxHour
       /\ hours' = IF hourly THEN hours + 1 ELSE hours
       /\ \/ \E i \in Standing(tower) : \E x \in Moved(tower[i], hourly) :
                tower' = [tower EXCEPT ![i] = x]
          \/ hourly /\ tower' = tower
       /\ \E flow \in IF hourly THEN Flows ELSE {0} :
             /\ outside + flow \in -MaxFlow..MaxFlow
             /\ money' = money + flow /\ outside' = outside + flow
       /\ ledger' = [i \in Id |-> IF tower'[i] = None THEN ledger[i]
                                   ELSE Used(ledger[i], tower[i], tower'[i], hourly)]
       /\ UNCHANGED <<nextId, dug, treasuresFound, journal, undo, redo>>

(* port step(): close the gesture, pop, apply, keep the opposite.  A step  *)
(* refused for now stays; one refused for good is dropped, and from the    *)
(* redo trail drops the rest with it.                                      *)
Take(step) ==
    /\ tower' = AfterStep(step) /\ money' = money + step.money
    /\ UNCHANGED <<nextId, hours, dug, treasuresFound, ledger, outside>>

Undo ==
    /\ UndoCommitted # <<>>
    /\ journal' = NoJournal
    /\ LET step == Newest(UndoCommitted) IN
       \/ /\ Applies(step) /\ Take(step)
          /\ undo' = Older(UndoCommitted)
          /\ redo' = Pushed(RedoCommitted, Opposite(step))
       \/ /\ Lasting(step)
          /\ undo' = Older(UndoCommitted) /\ redo' = RedoCommitted
          /\ UNCHANGED <<world, ledger, outside>>
       \/ /\ ~Lasting(step) /\ Passing(step)
          /\ undo' = UndoCommitted /\ redo' = RedoCommitted
          /\ UNCHANGED <<world, ledger, outside>>

Redo ==
    /\ RedoCommitted # <<>>
    /\ journal' = NoJournal
    /\ LET step == Newest(RedoCommitted) IN
       \/ /\ Applies(step) /\ Take(step)
          /\ redo' = Older(RedoCommitted)
          /\ undo' = Pushed(UndoCommitted, Opposite(step))
       \/ /\ Lasting(step)
          /\ redo' = <<>> /\ undo' = UndoCommitted
          /\ UNCHANGED <<world, ledger, outside>>
       \/ /\ ~Lasting(step) /\ Passing(step)
          /\ undo' = UndoCommitted /\ redo' = RedoCommitted
          /\ UNCHANGED <<world, ledger, outside>>

(* Another tower is adopted (a load, a new game): its ids start again, and *)
(* the journal and every step go with the old one.                         *)
Adopt ==
    /\ tower' = StartTower /\ nextId' = Len(Begun) + 1
    /\ money' = StartMoney /\ hours' = 0 /\ dug' = {} /\ treasuresFound' = 0
    /\ journal' = NoJournal /\ undo' = <<>> /\ redo' = <<>>
    /\ ledger' = StartLedger /\ outside' = 0

Next ==
    \/ Capture \/ Commit
    \/ \E s \in Site : Build(s)
    \/ \E i \in Id : Sell(i) \/ AddCar(i) \/ RemoveCar(i) \/ Reprice(i) \/ Rename(i)
    \/ Advance
    \/ Undo \/ Redo \/ Adopt

Spec == Init /\ [][Next]_vars
-----------------------------------------------------------------------------
(* Properties.                                                             *)

(* Every variable holds what its Rust type and the guards let it hold.     *)
TypeOK ==
    /\ tower \in [Id -> Item \cup {None}]
    /\ nextId \in 1..MaxId + 1 /\ money \in Int /\ hours \in 0..MaxHour
    /\ dug \subseteq Buried /\ treasuresFound \in 0..MaxFound
    /\ journal \in Journal /\ undo \in Seq(Step) /\ redo \in Seq(Step)
    /\ ledger \in [Id -> Entry \cup {None}] /\ outside \in Int

(* No step stands a unit or a shaft where another stands, or leaves one    *)
(* where its floor is gone, whatever order edits, undos and redos come in  *)
(* (sim_undo_check.rs, sim_undo_ground.rs).                                *)
NoOverlap ==
    \A i, k \in Standing(tower) : tower[i].site = tower[k].site => i = k
NothingHangs ==
    \A i \in Standing(tower) : \A f \in Rests[tower[i].site] : HeldAt(tower, f)
TowerStands == NoOverlap /\ NothingHangs

(* No undo or redo takes the tower past a build cap, or, in a tower that    *)
(* began over it, past what it began with (within_caps).                   *)
Limit(k) == IF Count(StartTower, k) > KindCap[k] THEN Count(StartTower, k)
                                                ELSE KindCap[k]
CapsKept == \A k \in Kinds : Count(tower, k) <= Limit(k)

(* The steps back and the steps forward together never outgrow one stack,  *)
(* so an undo never pushes a step off the redo stack (UNDO_CAP).           *)
TrailBounded == Len(undo) + Len(redo) <= UndoCap

(* What the two rest on.  An id names one build for good: every record of  *)
(* it, in the tower, the journal and the steps, has the place it was built *)
(* at (led is the ledger), and an id not handed out yet is nowhere.        *)
SitedIn(i, x, led)   == led[i] # None /\ x.site = led[i].site
TowerSited(t, led)   == \A i \in Id : t[i] # None => SitedIn(i, t[i], led)
JournalSited(j, led) ==
    \A i \in Id : j.touched[i] # None => SitedIn(i, j.touched[i].item, led)
StepSited(step, led) ==
    \A i \in Id : Named(step, i) => SitedIn(i, Want(step, i), led)

(* What the gesture found stood apart, and so does what a step leaves      *)
(* standing of the items it names.                                         *)
WasFound(j, t, i) ==
    IF j.touched[i] = None THEN t[i] # None ELSE j.touched[i].how = "was"
FoundApart(j, t, led) ==
    j.open => \A i, k \in Id :
        WasFound(j, t, i) /\ WasFound(j, t, k) /\ led[i].site = led[k].site => i = k
Stays(step, i) == Named(step, i) /\ ~Does(step, i, "takeOut")
StepApart(step, led) ==
    \A i, k \in Id :
        Stays(step, i) /\ Stays(step, k) /\ led[i].site = led[k].site => i = k
GoodSteps(stack, led) ==
    \A m \in DOMAIN stack : StepSited(stack[m], led) /\ StepApart(stack[m], led)

Inv ==
    /\ TypeOK
    /\ \A i \in Id : i >= nextId => ledger[i] = None
    /\ TowerSited(tower, ledger) /\ JournalSited(journal, ledger)
    /\ FoundApart(journal, tower, ledger)
    /\ GoodSteps(undo, ledger) /\ GoodSteps(redo, ledger)
    /\ TowerStands /\ TrailBounded

(* The least that the build with id i must have cost the player by now:    *)
(* its price and that of its cars while it stands, and, for what was used  *)
(* of it and is gone, the price less what a sale pays back.                *)
More(n, than) == IF n > than THEN n - than ELSE 0
Cost(i) ==
    LET k     == Kind[ledger[i].site]
        used  == ledger[i].used
        cars  == IF tower[i] = None THEN 0 ELSE tower[i].cars
        stood == tower[i] # None
        lost  == More(used, IF cars > 1 THEN cars ELSE 1) * (CarPrice - CarRefund)
    IN  IF ledger[i] = None \/ (~stood /\ used = 0) THEN 0
        ELSE (IF stood THEN Price[k] ELSE Price[k] - Refund(k))
             + (IF k = "shaft" THEN More(cars, 1) * CarPrice + lost ELSE 0)
Costs == LET Upto[i \in 0..MaxId] == IF i = 0 THEN 0 ELSE Upto[i - 1] + Cost(i)
         IN  Upto[MaxId]
Begins == LET Upto[n \in 0..Len(Begun)] ==
                  IF n = 0 THEN 0 ELSE Upto[n - 1] + Price[Kind[Begun[n]]]
          IN  Upto[Len(Begun)]

(* No order of edits, undos and redos, with time between them, takes back  *)
(* at its full price a build that was used: what is left of the money that *)
(* came from outside is never more than the builds allow (undo.rs:27-35).  *)
NoFreeUse == money + Costs <= StartMoney + outside + Begins

(* A condo keeps the price it sold at, through undos and redos of price    *)
(* changes made before it sold and of sales that take it away              *)
(* (StepRefused::PriceFixed, Unit::with_edit_facts_of).                    *)
SoldPriceFixed ==
    \A i \in Standing(tower) :
        KindOf(tower[i]) = "condo" /\ tower[i].sold => tower[i].rent = ledger[i].sale

(* Directly after a step applied, the opposite step is there and gives     *)
(* back the tower and the balance it replaced, and nothing bars it but a   *)
(* balance too low (apply_undo_step answers the step that reverses it).    *)
TakesBack(stack) ==
    LET step == Newest(stack)
    IN  ~Lasting(step)' /\ AfterStep(step)' = tower /\ (money + step.money)' = money
StepReverses ==
    [][/\ Undo /\ redo' # RedoCommitted => TakesBack(redo)
       /\ Redo /\ undo' # UndoCommitted => TakesBack(undo)]_vars
=============================================================================
