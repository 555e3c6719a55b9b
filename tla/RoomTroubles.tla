----------------------------- MODULE RoomTroubles -----------------------------
(***************************************************************************)
(* What befalls the rooms of a tower: fires that spread and burn out, bomb *)
(* threats, the choices the player is given and their deadline (events.rs),*)
(* hotel rooms left dirty, the roaches that come of it, the maids sent out *)
(* (housekeeping.rs, economy/traffic.rs), and the exterminator booked for  *)
(* the next day (services.rs).  They all move the one state of a room, at  *)
(* hours of their own, while the player sells, rebuilds and undoes sales,  *)
(* and saves are loaded.                                                   *)
(*                                                                         *)
(* Dice are choices: who is put out, what catches fire, which guests come  *)
(* or stay.  The star rating and the balance are abstracted to whether an  *)
(* event may come and whether a fee can be paid.  Which crew takes a room, *)
(* and whether a maid gets there, is any.  Construction, satisfaction,     *)
(* Santa and the thief, who change no room, are left out.                  *)
(***************************************************************************)
EXTENDS Integers, Sequences, FiniteSets, SequencesExt

CONSTANTS
    Id,          \* ids of rooms, those rebuilt included
    Begun,       \* towers to begin with: sets of rooms
    Place,       \* Place[i]: its floor and its place on the floor
    Kind,        \* Kind[i]: "hotel", "security" or "office"
    InfestDays,  \* INFEST_DAYS
    Radius,      \* floors a bomb reaches
    MaxEdits,    \* bound: sales and rebuilds
    None

Dirt == 0..InfestDays - 1
Room == [is : {"empty", "asleep", "dirty", "infested", "fire", "gutted"}, days : Dirt]

ASSUME RoomAssumption ==
    /\ IsFiniteSet(Id) /\ Place \in [Id -> Int \X Int]
    /\ Begun \subseteq {S \in SUBSET Id : \A i, j \in S : Place[i] = Place[j] => i = j}
    /\ Kind \in [Id -> {"hotel", "security", "office"}]
    /\ InfestDays \in Nat \ {0} /\ Radius \in Nat /\ MaxEdits \in Nat
    /\ None \notin Room /\ None \notin {0, 1} /\ \A S \in SUBSET Id : S # None
    /\ None \notin {"fireRescue", "bombThreat"}

VARIABLES
    rooms,    \* Tower::units by id, None where there is none
    sold,     \* what undo would put back of a room sold, or None
    active,   \* EventSystem::active, in the order they caught fire
    pending,  \* EventSystem::pending
    maids,    \* Housekeeping::assigned_room: rooms a maid is out to
    due,      \* extermination_due_day: None, 0 today, 1 tomorrow
    billed,   \* extermination_room_ids, or None
    phase,    \* night until 8:00, day until 17:00, evening until midnight
    edits,    \* sales and rebuilds so far
    seen,     \* history: mornings in a row that found the room dirty
    paid      \* history: the rooms the booking was paid for

crew == <<maids, phase>>
hire == <<due, billed, paid>>
vars == <<rooms, sold, active, pending, maids, due, billed, phase, edits, seen, paid>>

-----------------------------------------------------------------------------
(* Rooms.                                                                  *)

Built(rs)      == {i \in Id : rs[i] # None}
In(rs, states) == {i \in Built(rs) : rs[i].is \in states}
Clean(state)   == [is |-> state, days |-> 0]
Hotel(rs)      == {i \in Built(rs) : Kind[i] = "hotel"}

\* is_operational, of rooms already built.
Works(rs)      == Built(rs) \ In(rs, {"fire", "gutted"})
WorksOf(rs, k) == {i \in Works(rs) : Kind[i] = k}

\* room_at, as a set of no room or one.
RoomAt(rs, floor, x) == {i \in Built(rs) : Place[i] = <<floor, x>>}

\* Some rooms change state, and keep or lose their dirty_days.
Turned(rs, some, state) ==
    [i \in Id |-> IF i \in some THEN [rs[i] EXCEPT !.is = state] ELSE rs[i]]
Renewed(rs, some, state) == [i \in Id |-> IF i \in some THEN Clean(state) ELSE rs[i]]

\* The dirty mornings, once the rooms are rs.
SeenIn(rs, morning) ==
    [i \in Id |-> IF rs[i] = None \/ rooms[i] = None THEN seen[i]
                  ELSE IF rs[i].is # "dirty" \/ rooms[i].is # "dirty" THEN 0
                  ELSE IF morning THEN seen[i] + 1 ELSE seen[i]]

-----------------------------------------------------------------------------
(* Fires and bombs: functions of the rooms and the fires in hand.          *)

Blaze == [rooms |-> rooms, active |-> active]

\* start_fire and the end of spread_fire_to.
Ignited(at, i) ==
    [rooms |-> Turned(at.rooms, {i}, "fire"), active |-> Append(at.active, i)]

\* shift_remove: the fires without some rooms, in their order.
Struck(fires, some) ==
    LET left[n \in 0..Len(fires)] ==
            IF n = 0 THEN <<>>
            ELSE IF fires[n] \in some THEN left[n - 1] ELSE Append(left[n - 1], fires[n])
    IN  left[Len(fires)]

\* gut, and the room struck off the fires.
Gutted(at, some) ==
    [rooms |-> Renewed(at.rooms, some, "gutted"), active |-> Struck(at.active, some)]

\* Slip: the rooms of a kind are counted as they were before the day's fires.
SpreadToCountedBefore(at, target) ==
    LET takes == {i \in target : /\ i \in Works(at.rooms)
                                 /\ Cardinality(WorksOf(rooms, Kind[i])) > 1}
    IN  IF takes = {} THEN at ELSE Ignited(at, CHOOSE i \in takes : TRUE)

\* spread_fire_to: never to the last room of its kind that works.
SpreadTo(at, target) ==
    LET takes == {i \in target : /\ i \in Works(at.rooms)
                                 /\ Cardinality(WorksOf(at.rooms, Kind[i])) > 1}
    IN  IF takes = {} THEN at ELSE Ignited(at, CHOOSE i \in takes : TRUE)

\* One turn of process_fires: a room put out is gutted; one that is not lights
\* the room to its left, or if there is none its right, and the one above.
Burned(at, i, out) ==
    LET floor  == Place[i][1]
        x      == Place[i][2]
        left   == RoomAt(at.rooms, floor, x - 1)
        beside == IF left # {} THEN left ELSE RoomAt(at.rooms, floor, x + 1)
        spread == SpreadTo(at, beside)
    IN  IF i \notin In(at.rooms, {"fire"})
        THEN [at EXCEPT !.active = Struck(@, {i})]
        ELSE IF i \in out THEN Gutted(at, {i})
        ELSE SpreadTo(spread, RoomAt(spread.rooms, floor + 1, x))

\* process_fires, over the fires there are when it starts: after[n] is the blaze
\* once the first n of them had their turn.
AfterFires(at, out) ==
    LET after[n \in 0..Len(at.active)] ==
            IF n = 0 THEN at ELSE Burned(after[n - 1], at.active[n], out)
    IN  after[Len(at.active)]

\* Slip: a burning room the bomb guts stays among the fires.
BombedLeavesFires(at) ==
    LET reach(i) == {j \in Built(at.rooms) :
                        Place[j][1] - Place[i][1] \in -Radius..Radius}
    IN  IF (\E i \in Built(at.rooms) : Kind[i] = "security") \/ Works(at.rooms) = {}
        THEN {at}
        ELSE {[at EXCEPT !.rooms = Renewed(@, reach(i), "gutted")] : i \in Works(at.rooms)}

\* bomb_threat: any security office, a gutted one too, finds the bomb; without
\* one it guts the floors around some room.
Bombed(at) ==
    LET reach(i) == {j \in Built(at.rooms) :
                        Place[j][1] - Place[i][1] \in -Radius..Radius}
    IN  IF (\E i \in Built(at.rooms) : Kind[i] = "security") \/ Works(at.rooms) = {}
        THEN {at} ELSE {Gutted(at, reach(i)) : i \in Works(at.rooms)}

\* resolve_choice_from, not paid: a fire burns on, a bomb goes off.
Declined(at) == IF pending = "bombThreat" THEN Bombed(at) ELSE {at}

\* The player pays: extinguish_all guts what burns, a ransom changes no room.
Paid(at) ==
    IF pending = "bombThreat" THEN at
    ELSE [rooms |-> Renewed(at.rooms, ToSet(at.active) \cap In(at.rooms, {"fire"}), "gutted"),
          active |-> <<>>]

\* The new event of the daily roll, if any, as the blaze and the choice after it.
Events(at) ==
    {<<at, None>>, <<at, "bombThreat">>} \cup
    IF at.active # <<>> THEN {}
    ELSE {<<Ignited(at, i), "fireRescue">> : i \in Works(at.rooms)}

-----------------------------------------------------------------------------
(* Dirt, roaches and maids.                                                *)

\* Slip: a room is infested a morning too late.
EscalatedLate(rs) ==
    [i \in Id |-> IF i \notin Hotel(rs) \cap In(rs, {"dirty"}) THEN rs[i]
                  ELSE IF rs[i].days >= InfestDays THEN Clean("infested")
                  ELSE [rs[i] EXCEPT !.days = @ + 1]]

\* escalate_infestations.
Escalated(rs) ==
    [i \in Id |-> IF i \notin Hotel(rs) \cap In(rs, {"dirty"}) THEN rs[i]
                  ELSE IF rs[i].days + 1 >= InfestDays THEN Clean("infested")
                  ELSE [rs[i] EXCEPT !.days = @ + 1]]

\* spread_cockroaches: from the rooms infested before it, into their neighbours
\* on the floor that a guest has or may have.
Crept(rs) ==
    LET sources == Hotel(rs) \cap In(rs, {"infested"})
        near(i) == RoomAt(rs, Place[i][1], Place[i][2] - 1)
                   \cup RoomAt(rs, Place[i][1], Place[i][2] + 1)
    IN  Turned(rs, {i \in Hotel(rs) \cap In(rs, {"asleep", "empty"}) :
                       \E m \in sources : i \in near(m)}, "dirty")

\* Guests who check out leave their room dirty.
CheckedOut(rs, some) == Turned(rs, some, "dirty")

\* resolve_extermination: on its day, the rooms billed that are infested still;
\* a booking without a list treats them all.
Exterminated(rs) ==
    IF due # 0 THEN rs
    ELSE Renewed(rs, {i \in Hotel(rs) \cap In(rs, {"infested"}) : billed # None => i \in billed},
                 "empty")

\* dispatch_housekeepers, the last thing its callers do to the rooms and crews:
\* maids go out to some of the dirty rooms nobody was sent to.
Dispatched(rs, out) == {out \cup more : more \in SUBSET
    ((Hotel(rs) \cap In(rs, {"dirty"})) \ out)}

\* Slip: a room whose maid is back is clean, whatever became of it.
CleanedAnyway(rs, i) == IF i \in Built(rs) THEN Renewed(rs, {i}, "empty") ELSE rs
\* Slip: its dirty days are not forgotten.
CleanedUncounted(rs, i) == IF i \in In(rs, {"dirty"}) THEN Turned(rs, {i}, "empty") ELSE rs

\* on_housekeeper_result of a maid who got there.
Cleaned(rs, i) == IF i \in In(rs, {"dirty"}) THEN Renewed(rs, {i}, "empty") ELSE rs

-----------------------------------------------------------------------------
(* The day.                                                                *)

Init ==
    /\ rooms \in {[i \in Id |-> IF i \in S THEN Clean("empty") ELSE None] : S \in Begun}
    /\ sold = [i \in Id |-> None] /\ active = <<>> /\ pending = None
    /\ maids = {} /\ due = None /\ billed = None /\ phase = "evening" /\ edits = 0
    /\ seen = [i \in Id |-> 0] /\ paid = {}

Becomes(rs, morning) == rooms' = rs /\ seen' = SeenIn(rs, morning)
Burns(at) == Becomes(at.rooms, FALSE) /\ active' = at.active

\* on_day: maybe_random_event.  A choice not made by now is declined first.
Midnight ==
    /\ phase = "evening" /\ phase' = "night"
    /\ \E at \in IF pending = None THEN {Blaze} ELSE Declined(Blaze) :
       \E out \in SUBSET ToSet(at.active) :
       \E event \in Events(AfterFires(at, out)) :
          Burns(event[1]) /\ pending' = event[2]
    /\ due' = IF due = 1 THEN 0 ELSE due
    /\ UNCHANGED <<sold, maids, billed, edits, paid>>

\* The hour of 8: hotel_checkout, from which some guests stay on into the day
\* and which forgets the last shift's assignments, then the exterminator.  No
\* maid is out for so long: they give up within nine hours of the last dispatch.
Morning ==
    /\ phase = "night" /\ phase' = "day" /\ maids = {}
    /\ LET crept == Crept(Escalated(rooms)) IN
       \E leaving \in SUBSET (Hotel(crept) \cap In(crept, {"asleep"})) :
          LET rs == Exterminated(CheckedOut(crept, leaving))
          IN  Becomes(rs, TRUE) /\ maids' \in Dispatched(rs, {})
    /\ due' = IF due = 0 THEN None ELSE due
    /\ billed' = IF due = 0 THEN None ELSE billed
    /\ paid' = IF due = 0 THEN {} ELSE paid
    /\ UNCHANGED <<sold, active, pending, edits>>

\* The hours from 14: hotel_late_checkout.
Afternoon ==
    /\ phase = "day" /\ phase' = "evening"
    /\ LET rs == CheckedOut(rooms, Hotel(rooms) \cap In(rooms, {"asleep"}))
       IN  Becomes(rs, FALSE) /\ maids' \in Dispatched(rs, maids)
    /\ UNCHANGED <<sold, active, pending, hire, edits>>

\* The hours from 17: attempt_move_ins.
CheckIn ==
    /\ phase = "evening" /\ maids' \in Dispatched(rooms, maids)
    /\ \E guests \in SUBSET (Hotel(rooms) \cap In(rooms, {"empty"})) :
          Becomes(Turned(rooms, guests, "asleep"), FALSE)
    /\ UNCHANGED <<sold, active, pending, hire, phase, edits>>

\* A maid is done or has given up; the crews go out again while the shift lasts.
MaidBack(i) ==
    /\ i \in maids
    /\ \E rs \in {rooms, Cleaned(rooms, i)} :
          /\ Becomes(rs, FALSE)
          /\ IF phase = "night" THEN maids' = maids \ {i}
             ELSE maids' \in Dispatched(rs, maids \ {i})
    /\ UNCHANGED <<sold, active, pending, hire, phase, edits>>

-----------------------------------------------------------------------------
(* The player.                                                             *)

\* resolve_choice: an acceptance the tower cannot pay for is a refusal.
ResolveChoice ==
    /\ pending # None /\ pending' = None
    /\ \E at \in Declined(Blaze) \cup {Paid(Blaze)} : Burns(at)
    /\ UNCHANGED <<sold, crew, hire, edits>>

\* call_exterminator.
CallExterminator ==
    /\ due = None /\ Hotel(rooms) \cap In(rooms, {"infested"}) # {}
    /\ due' = 1 /\ billed' = Hotel(rooms) \cap In(rooms, {"infested"}) /\ paid' = billed'
    /\ UNCHANGED <<rooms, sold, active, pending, crew, edits, seen>>

\* remove_facility, refused for a burning room.
Sell(i) ==
    /\ i \in Built(rooms) \ In(rooms, {"fire"}) /\ edits < MaxEdits
    /\ rooms' = [rooms EXCEPT ![i] = None] /\ sold' = [sold EXCEPT ![i] = rooms[i]]
    /\ edits' = edits + 1
    /\ UNCHANGED <<active, pending, crew, hire, seen>>

Free(i) == \A j \in Built(rooms) : Place[j] # Place[i]

\* The sale undone: the room as it was sold.
PutBack(i) ==
    /\ sold[i] # None /\ Free(i)
    /\ rooms' = [rooms EXCEPT ![i] = sold[i]] /\ sold' = [sold EXCEPT ![i] = None]
    /\ UNCHANGED <<active, pending, crew, hire, edits, seen>>

\* A new room in the place of one sold, under a new id.
Build(i) ==
    /\ rooms[i] = None /\ sold[i] = None /\ Free(i) /\ edits < MaxEdits
    /\ rooms' = [rooms EXCEPT ![i] = Clean("empty")] /\ edits' = edits + 1
    /\ UNCHANGED <<sold, active, pending, crew, hire, seen>>

\* coerce_dirty_days: only a dirty room is loaded with its days.
Loaded(rs) ==
    [i \in Id |-> IF i \in Built(rs) \ In(rs, {"dirty"}) THEN Clean(rs[i].is) ELSE rs[i]]

\* Slip: the list of rooms billed is not in the save.
ReloadForgetsBilled ==
    /\ Becomes(Loaded(rooms), FALSE) /\ active' \in SetToSeqs(In(rooms, {"fire"}))
    /\ sold' = [i \in Id |-> None] /\ maids' = {} /\ billed' = None
    /\ UNCHANGED <<pending, due, phase, edits, paid>>

\* A save is loaded: the fires are found by the rooms' states, in the order of
\* the list; nobody is out, and there is nothing to undo.
Reload ==
    /\ Becomes(Loaded(rooms), FALSE) /\ active' \in SetToSeqs(In(rooms, {"fire"}))
    /\ sold' = [i \in Id |-> None] /\ maids' = {}
    /\ UNCHANGED <<pending, hire, phase, edits>>

Next ==
    \/ Midnight \/ Morning \/ Afternoon \/ CheckIn
    \/ ResolveChoice \/ CallExterminator \/ Reload
    \/ \E i \in Id : MaidBack(i) \/ Sell(i) \/ PutBack(i) \/ Build(i)

Spec == Init /\ [][Next]_vars

-----------------------------------------------------------------------------
(* What must hold.                                                         *)

TypeOK ==
    /\ rooms \in [Id -> Room \cup {None}] /\ sold \in [Id -> Room \cup {None}]
    /\ active \in Seq(Id) /\ pending \in {None, "fireRescue", "bombThreat"}
    /\ maids \subseteq Id /\ due \in {None, 0, 1} /\ billed \in (SUBSET Id) \cup {None}
    /\ phase \in {"night", "day", "evening"} /\ edits \in 0..MaxEdits
    /\ seen \in [Id -> Dirt] /\ paid \subseteq Id

\* The fires the daily pass goes through are the rooms that burn, each once: no
\* room burns outside the pass, for ever, whoever sold, bombed, saved or loaded;
\* and a rescue is on offer only while there is a fire to put out.
FiresTracked ==
    /\ ToSet(active) = In(rooms, {"fire"}) /\ Len(active) = Cardinality(ToSet(active))
    /\ pending = "fireRescue" => active # <<>>

\* A blaze never takes the last working room of its kind by spreading: where a
\* day leaves a kind without any and no room was gutted unburned, the one room
\* that burns is where the fire began (spread_fire_to's count is of the rooms as
\* they are in the middle of the pass).
LastOfKindKept ==
    [][\A k \in {Kind[i] : i \in Id} :
        /\ WorksOf(rooms, k) # {} /\ WorksOf(rooms, k)' = {}
        /\ \A i \in Works(rooms) : rooms'[i] # None /\ rooms'[i].is # "gutted"
        => Len(active') = 1]_vars

\* A room that burns ends as a shell, and a shell stays one until it is sold,
\* whoever was on the way to it: a maid, a guest, the exterminator or roaches.
RuinsStay ==
    [][\A i \in Id :
        /\ i \in In(rooms, {"fire"}) => i \in In(rooms', {"fire", "gutted"})
        /\ i \in In(rooms, {"gutted"}) => rooms'[i] = None \/ i \in In(rooms', {"gutted"})]_vars

\* Roaches leave a room only by an exterminator who was paid for that room
\* (extermination_room_ids), or with the room.
OnlyPaidTreated ==
    [][\A i \in In(rooms, {"infested"}) :
        i \in In(rooms', {"empty", "asleep", "dirty"}) => i \in paid]_vars

\* A room breeds roaches only once InfestDays mornings in a row have found it
\* dirty, however often it was cleaned, sold or taken back before (INFEST_DAYS,
\* and the dirty_days every way out of the dirt must reset).
NeglectCounted ==
    [][\A i \in In(rooms, {"dirty"}) :
        i \in In(rooms', {"infested"}) => seen[i] + 1 >= InfestDays]_vars
=============================================================================
