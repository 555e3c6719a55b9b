---------------------------- MODULE ElevatorShaft ----------------------------
(***************************************************************************)
(* One elevator shaft and the people who use it: the dispatch controller   *)
(* that moves the cars (dispatch.rs move_cars) and the crowd that boards    *)
(* and leaves them (crowd/motion.rs), as the simulation step runs them, one *)
(* chunk of game time after another (sim_loop.rs).  Between two chunks the  *)
(* hour may turn, and with it the number of cars the schedule runs, and the *)
(* player may edit the shaft: skip a stop, buy or sell cars, change the     *)
(* schedule and the homes of the cars in it, sell the shaft and undo the    *)
(* sale.                                                                    *)
(*                                                                         *)
(* A position is a whole floor and a chunk moves a car Steps floors: the    *)
(* tolerances of the code (0.05, 0.2, 0.25 of a floor) become equality.     *)
(* The statistical estimate of people waiting (accumulate_waiting) calls    *)
(* the cars to any set of floors among Estimates, afresh each chunk.        *)
(***************************************************************************)
EXTENDS Integers, Sequences, FiniteSetsExt, SequencesExt

CONSTANTS
    Top,         \* the shaft serves floors 0 .. Top
    MaxCars,     \* the most cars the shaft may have (Kind::max_cars)
    Capacity,    \* riders a car holds (CAR_CAPACITY)
    Lobbies,     \* the floors that have a lobby
    Homes,       \* the home floors a schedule may list, car after car
    Skips,       \* sets of floors a shaft in a save may skip
    Steps,       \* floors a car travels in a chunk: the chunk lengths
    Dwell,       \* the time a car stands at a stop, in the unit of Steps
    Responses,   \* what the player may set as the waiting car response
    Estimates,   \* sets of floors the statistical estimate may call from
    People,      \* the people who may use the shaft
    Trips,       \* the trips <<from, to>> they may take on it
    MaxEdits     \* bound on the player's edits of the shaft, not its undos

Floors == 0 .. Top
Cars == 1 .. MaxCars

\* A home is any floor of the span (Schedule::coerce): a home that is no stop
\* snaps to one when it is set, but may come so out of an older save.
ASSUME ShaftAssumption ==
    /\ Top \in Nat \ {0} /\ MaxCars \in Nat \ {0} /\ Capacity \in Nat \ {0}
    /\ Lobbies \subseteq Floors /\ Homes \subseteq Seq(Floors)
    /\ Skips \subseteq SUBSET (1 .. Top - 1)
    /\ Steps \subseteq Nat \ {0} /\ Dwell \in Nat
    /\ Responses \subseteq Nat /\ Estimates \subseteq SUBSET Floors
    /\ Trips \subseteq {t \in Floors \X Floors : t[1] # t[2]}
    /\ MaxEdits \in Nat

VARIABLES
    standing,  \* the shaft is in the tower
    cars,      \* its cars: the position and the direction of each
    dwell,     \* dispatch's dwell timers, one per car it last saw
    active,    \* how many cars the schedule runs this hour
    response,  \* how many floors short of its span a parked car answers
    homes,     \* the homes its schedule lists, for no more cars than it has
    skipped,   \* the floors the player has taken off its stops
    closed,    \* the crowd's copy of the cars it may not board
    crowd,     \* the people using the shaft, in the order they set out
    riders,    \* the crowd's count of seats taken in each car
    beat,      \* the parity of the chunks run so far
    edits      \* the player's edits so far (a bound of the model)
vars == <<standing, cars, dwell, active, response, homes, skipped, closed,
          crowd, riders, beat, edits>>

Person == [id : People, st : {"ToShaft", "Waiting", "Riding"},
           from : Floors, to : Floors, car : 0 .. MaxCars, fy : Floors]
Car == [pos : Floors, dir : {-1, 0, 1}]

Fleet == DOMAIN cars
Stops == Floors \ skipped
In(st) == {p \in ToSet(crowd) : p.st = st}
AboardOf(c) == {p \in In("Riding") : p.car = c}
StoodDown == {c \in Fleet : c > active}
Apart(f, g) == Max({f - g, g - f})

\* Where a car waits when nothing calls it: the home its schedule lists, or else
\* the lowest stop with a lobby, or else the lowest stop.
IdleFloor == Min(IF Stops \cap Lobbies # {} THEN Stops \cap Lobbies ELSE Stops)
Home(c) == IF c \in DOMAIN homes THEN homes[c] ELSE IdleFloor

\* snap_homes_to_stops: a home that is no stop becomes the nearest one, the lower
\* of two.
SnapHome(f, stops) == Min({s \in stops : \A o \in stops : Apart(s, f) <= Apart(o, f)})
SnapHomes(list, stops) == [c \in DOMAIN list |-> SnapHome(list[c], stops)]

\* Schedule::coerce: homes for the cars there are.
CutHomes(list, n) == SubSeq(list, 1, Min({Len(list), n}))

-----------------------------------------------------------------------------
(* The dispatch controller.                                                *)

\* A parked car answers a hall call no further away than this.
Reach == Max({0, Top - response})

\* The nearest floor of a set strictly ahead of a car, as a set of at most one.
Nearest(set, pos, dir) ==
    LET ahead == {f \in set : (f - pos) * dir > 0}
    IN  {f \in ahead : \A g \in ahead : (f - pos) * dir <= (g - pos) * dir}

\* A step of t floors from pos towards floor f.
Toward(pos, f, t) == IF f > pos THEN Min({f, pos + t}) ELSE Max({f, pos - t})
Way(pos, f) == IF f > pos THEN 1 ELSE -1

\* A car that no longer runs and has nobody aboard goes home and parks.
GoHome(c, t) ==
    LET there == Toward(cars[c].pos, Home(c), t)
    IN  [pos |-> there,
         dir |-> IF there = Home(c) THEN 0 ELSE Way(cars[c].pos, Home(c))]

\* Slip: a stood-down car drops its riders' floors with its hall calls.
AskedOfRunningCarsOnly(c, called, claimed) ==
    LET cab == {p.to : p \in AboardOf(c)} \cap Stops
    IN  IF c \in StoodDown THEN {} ELSE ((called \cap Stops) \ claimed) \cup cab

\* What car c may be asked to serve: hall calls and the estimate's calls that
\* no car before it has claimed, unless it is stood down, and its riders' floors.
Asked(c, called, claimed) ==
    LET cab == {p.to : p \in AboardOf(c)} \cap Stops
    IN  IF c \in StoodDown THEN cab ELSE ((called \cap Stops) \ claimed) \cup cab

\* Slip: the reach leaves out the stop at its very end.
TargetShortOfReach(c, called, claimed) ==
    LET pos == cars[c].pos
        heading == IF cars[c].dir = 0 THEN 1 ELSE cars[c].dir
        held(set) == {f \in set : \/ cars[c].dir # 0
                                  \/ Apart(f, pos) < Reach
                                  \/ f \in {p.to : p \in AboardOf(c)}}
        on == held(Nearest(Asked(c, called, claimed), pos, heading))
        back == held(Nearest(Asked(c, called, claimed), pos, -heading))
    IN  [stop |-> IF on # {} THEN on ELSE back,
         dir |-> IF on # {} THEN heading ELSE -heading]

\* The stop car c heads for, if any: ahead first, then behind it.  A parked car
\* leaves a stop out of its reach alone, unless a rider asked for it.
TargetOf(c, called, claimed) ==
    LET pos == cars[c].pos
        heading == IF cars[c].dir = 0 THEN 1 ELSE cars[c].dir
        held(set) == {f \in set : \/ cars[c].dir # 0
                                  \/ Apart(f, pos) <= Reach
                                  \/ f \in {p.to : p \in AboardOf(c)}}
        on == held(Nearest(Asked(c, called, claimed), pos, heading))
        back == held(Nearest(Asked(c, called, claimed), pos, -heading))
    IN  [stop |-> IF on # {} THEN on ELSE back,
         dir |-> IF on # {} THEN heading ELSE -heading]

\* One car's move within a chunk of length t, after the cars before it.  The
\* accumulator holds the moved cars, their timers and the stops they claimed.
MoveCar(k, c, t, called, timers) ==
    LET pos == cars[c].pos
        left == Max({0, t - timers[c]})
        target == TargetOf(c, called, k.claimed)
        goal == IF target.stop # {} THEN CHOOSE f \in target.stop : TRUE ELSE Home(c)
        there == Toward(pos, goal, left)
        became(car, timer, claims) ==
            [cars |-> Append(k.cars, car), dwell |-> Append(k.dwell, timer),
             claimed |-> k.claimed \cup (claims \cap Stops)]
    IN  IF c \in StoodDown /\ AboardOf(c) = {} THEN became(GoHome(c, t), 0, {})
        ELSE IF left = 0 THEN became(cars[c], timers[c] - t, {pos})
        ELSE IF target.stop = {} /\ pos = Home(c)
             THEN became([pos |-> pos, dir |-> 0], 0, {})
        ELSE became([pos |-> there,
                     dir |-> IF there # goal THEN Way(pos, goal)
                             ELSE IF there = Top THEN -1
                             ELSE IF there = 0 THEN 1 ELSE target.dir],
                    IF there = goal THEN Dwell ELSE 0, target.stop)

\* The floors that call, and the timers, begun again when the fleet has changed.
Called(estimate) == {p.from : p \in In("Waiting")} \cup estimate
Timers == IF Len(dwell) = Len(cars) THEN dwell ELSE [c \in Fleet |-> 0]

\* move_cars: the cars in order, each passing by what an earlier one claimed.
MoveCars(t, estimate) ==
    LET after[c \in 0 .. Len(cars)] ==
            IF c = 0 THEN [cars |-> <<>>, dwell |-> <<>>, claimed |-> {}]
            ELSE MoveCar(after[c - 1], c, t, Called(estimate), Timers)
    IN  after[Len(cars)]

-----------------------------------------------------------------------------
(* The crowd.                                                              *)

\* Slip: the seat of a rider whose car was sold is not given back.
ReleaseOnlyInCarsLeft(seats, p) ==
    IF p.car \notin Fleet THEN seats ELSE [seats EXCEPT ![p.car] = Max({0, @ - 1})]

\* release_seat: the seat of a rider is free again.
Release(seats, p) ==
    IF p.car = 0 THEN seats ELSE [seats EXCEPT ![p.car] = Max({0, @ - 1})]

\* finish and alighting both leave this shaft with the seat given back; where
\* the person walks next is outside the module.
Leave(k, p) == [crowd |-> k.crowd, riders |-> Release(k.riders, p)]
Stay(k, p) == [k EXCEPT !.crowd = Append(@, p)]

\* Slip: the crowd boards by the list of the chunk before.
BoardableLate(k, p, moved) ==
    {c \in DOMAIN moved : /\ moved[c].pos = p.from
                          /\ c \notin closed
                          /\ k.riders[c] < Capacity}

\* The first car at the floor with a free seat that the crowd may board.
Boardable(k, p, moved) ==
    {c \in DOMAIN moved : /\ moved[c].pos = p.from
                          /\ c \notin closed'
                          /\ k.riders[c] < Capacity}

\* One person's slice of a chunk, after the people before them.
Advance(k, p, moved, walked, gaveUp) ==
    IF p.id \in gaveUp \/ ~standing \/ (p.st = "Riding" /\ p.car > Len(moved))
    THEN Leave(k, p)
    ELSE CASE p.st = "ToShaft" ->
                Stay(k, IF p.id \in walked THEN [p EXCEPT !.st = "Waiting"] ELSE p)
           [] p.st = "Waiting" ->
                LET open == Boardable(k, p, moved)
                    c == Min(open)
                IN  IF open = {} THEN Stay(k, p)
                    ELSE [Stay(k, [p EXCEPT !.st = "Riding", !.car = c])
                            EXCEPT !.riders[c] = @ + 1]
           [] p.st = "Riding" ->
                LET pos == moved[p.car].pos
                IN  IF p.to \in Stops /\ (p.fy - p.to) * (pos - p.to) <= 0
                    THEN Leave(k, p)
                    ELSE Stay(k, [p EXCEPT !.fy = pos])

AdvanceAll(moved, walked, gaveUp) ==
    LET after[n \in 0 .. Len(crowd)] ==
            IF n = 0 THEN [crowd |-> <<>>, riders |-> riders]
            ELSE Advance(after[n - 1], crowd[n], moved, walked, gaveUp)
    IN  after[Len(crowd)]

-----------------------------------------------------------------------------
(* The steps.                                                              *)

\* A shaft new in the tower stands with its cars parked one above the other.
NewCars(n) == [c \in 1 .. n |-> [pos |-> Min({c - 1, Top}), dir |-> 0]]

\* place_transport builds a shaft so.  In a save its schedule may list homes, and
\* floors it skips may be among them.
Init ==
    /\ standing = TRUE
    /\ \E n \in Cars : cars = NewCars(n)
    /\ dwell = <<>> /\ active = Len(cars)
    /\ response = 0 /\ closed = {}
    /\ \/ homes = <<>> /\ skipped = {}
       \/ homes \in {h \in Homes : Len(h) <= Len(cars)} /\ skipped \in Skips
    /\ crowd = <<>> /\ riders = [c \in Cars |-> 0]
    /\ beat = 0 /\ edits = 0

\* A person sets out for the shaft (crowd.add, or the next leg of a route).
SetOut(id, from, to) ==
    /\ standing /\ {from, to} \subseteq Stops
    /\ \A p \in ToSet(crowd) : p.id # id
    /\ crowd' = Append(crowd, [id |-> id, st |-> "ToShaft", from |-> from,
                               to |-> to, car |-> 0, fy |-> from])
    /\ UNCHANGED <<standing, cars, dwell, active, response, homes, skipped,
                   closed, riders, beat, edits>>

\* One chunk: the calls are collected, the cars move, the crowd gets the list
\* of closed cars and every person advances; walked is who reaches the shaft,
\* gaveUp whose patience has run out.
Chunk(t, estimate, walked, gaveUp) ==
    LET m == MoveCars(t, estimate)
        a == AdvanceAll(cars', walked, gaveUp)
    IN  /\ IF standing THEN cars' = m.cars /\ dwell' = m.dwell /\ closed' = StoodDown
                       ELSE cars' = cars /\ dwell' = <<>> /\ closed' = {}
        /\ crowd' = a.crowd /\ riders' = a.riders /\ beat' = 1 - beat
        /\ UNCHANGED <<standing, active, response, homes, skipped, edits>>

SomeChunk ==
    \E t \in Steps, estimate \in Estimates,
       walked \in SUBSET {p.id : p \in In("ToShaft")},
       gaveUp \in {{}} \cup {{p.id} : p \in ToSet(crowd)} :
        Chunk(t, estimate, walked, gaveUp)

\* The hour turns: the row of the schedule runs another number of cars.
Hour(n) ==
    /\ n # active
    /\ active' = n
    /\ UNCHANGED <<standing, cars, dwell, response, homes, skipped, closed, crowd,
                   riders, beat, edits>>

Edit == edits < MaxEdits /\ edits' = edits + 1

\* set_stop: the ends always stop; the homes the schedule lists snap to the
\* stops there are now.
SetStop(f) ==
    /\ Edit /\ standing
    /\ skipped' = IF f \in skipped THEN skipped \ {f} ELSE skipped \cup {f}
    /\ homes' = SnapHomes(homes, Stops')
    /\ UNCHANGED <<standing, cars, dwell, active, response, closed, crowd, riders,
                   beat>>

\* Slip: the rows of the schedule are not cut to the cars that are left.
SetCarsKeepsRows(n) ==
    /\ Edit /\ standing /\ n # Len(cars)
    /\ cars' = [c \in 1 .. n |-> IF c \in Fleet THEN cars[c] ELSE [pos |-> 0, dir |-> 1]]
    /\ active' = IF n > Len(cars) /\ active = Len(cars) THEN n ELSE active
    /\ homes' = CutHomes(homes, n)
    /\ UNCHANGED <<standing, dwell, response, skipped, closed, crowd, riders,
                   beat>>

\* set_cars: new cars start at the bottom; an hour that ran every car runs the
\* new fleet, and the rows and the homes are cut to the cars that are left.
SetCars(n) ==
    /\ Edit /\ standing /\ n # Len(cars)
    /\ cars' = [c \in 1 .. n |-> IF c \in Fleet THEN cars[c] ELSE [pos |-> 0, dir |-> 1]]
    /\ active' = IF n > Len(cars) /\ active = Len(cars) THEN n ELSE Min({active, n})
    /\ homes' = CutHomes(homes, n)
    /\ UNCHANGED <<standing, dwell, response, skipped, closed, crowd, riders,
                   beat>>

\* set_schedule, the waiting car response and the homes: homes that changed
\* snap to stops, homes that did not stay as they were.
SetSchedule(r, list) ==
    LET given == CutHomes(list, Len(cars))
    IN  /\ Edit /\ standing /\ (r # response \/ given # homes)
        /\ response' = r
        /\ homes' = IF given = homes THEN given ELSE SnapHomes(given, Stops)
        /\ UNCHANGED <<standing, cars, dwell, active, skipped, closed, crowd, riders,
                       beat>>

\* The shaft is sold, which does not tell the crowd.
Sell ==
    /\ Edit /\ standing
    /\ standing' = FALSE
    /\ UNCHANGED <<cars, dwell, active, response, homes, skipped, closed, crowd,
                   riders, beat>>

\* Undo puts the shaft back with the id and the schedule it had and its cars where
\* a new shaft's stand, and does not tell the crowd either.
PutBack ==
    /\ ~standing
    /\ standing' = TRUE /\ cars' = NewCars(Len(cars))
    /\ UNCHANGED <<dwell, active, response, homes, skipped, closed, crowd,
                   riders, beat, edits>>

Next ==
    \/ SomeChunk
    \/ \E id \in People, t \in Trips : SetOut(id, t[1], t[2])
    \/ \E n \in 0 .. Len(cars) : Hour(n)
    \/ \E f \in 1 .. Top - 1 : SetStop(f)
    \/ \E n \in Cars : SetCars(n)
    \/ \E r \in Responses, list \in Homes \cup {homes} : SetSchedule(r, list)
    \/ Sell
    \/ PutBack

\* The simulation keeps stepping: a chunk, the only step that turns the beat, is
\* always enabled and is always run in the end.
Beat == beat' = 1 - beat
Spec == Init /\ [][Next]_vars /\ WF_beat(Beat)

-----------------------------------------------------------------------------
(* What must hold.                                                         *)

TypeOK ==
    /\ standing \in BOOLEAN
    /\ cars \in Seq(Car) /\ Len(cars) \in Cars
    /\ dwell \in Seq(0 .. Dwell) /\ Len(dwell) <= MaxCars
    /\ active \in 0 .. Len(cars) /\ response \in Responses \cup {0}
    /\ homes \in Seq(Floors) /\ Len(homes) <= Len(cars)
    /\ skipped \subseteq 1 .. Top - 1 /\ closed \subseteq Cars
    /\ crowd \in Seq(Person)
    /\ riders \in [Cars -> Nat] /\ beat \in {0, 1} /\ edits \in 0 .. MaxEdits

\* The seats the crowd counts as taken in a car are the people riding in it,
\* one for one, whatever happens under them: the car is sold, the shaft is sold
\* and put back, the schedule stands the car down, a rider runs out of patience
\* (motion.rs release_seat and finish; a seat lost here is lost for good, since
\* nothing recounts them).
SeatsMatchRiders == \A c \in Cars : riders[c] = Cardinality(AboardOf(c))

\* Nobody boards a car that the schedule has stood down for this chunk, even in
\* the first chunk after the hour turned (dispatch.rs closed_cars, sim_loop.rs
\* swap_closed_cars).
NobodyBoardsStoodDown ==
    [][\A p \in {q \in ToSet(crowd') : q.st = "Riding"} :
          p.car > active => \E q \in In("Riding") : q.id = p.id /\ q.car = p.car]_vars

Rides(id) == \E p \in In("Riding") : p.id = id /\ p.to \in Stops
Waits(id) == \E p \in In("Waiting") : p.id = id /\ p.from \in Stops

\* A rider whose floor is a stop does not ride for ever: the car takes them
\* there even if the schedule stands it down on the way (dispatch.rs, "still
\* takes the riders aboard to their floors"), as long as parked cars answer
\* from anywhere.
RidersArrive == \A id \in People : ~<>[](Rides(id) /\ response = 0)

\* The same whatever the waiting car response: ElevatorDispatch.ts:216 says of it
\* that a car's own cab stops are never gated (it must deliver its riders).
CabStopsNeverGated == \A id \in People : ~<>[]Rides(id)

\* A call is answered: a person does not wait for ever at a stop of a shaft that
\* runs a car with a free seat and whose parked cars answer from anywhere,
\* although each car passes by the calls an earlier car has claimed.
RoomAboard == \A c \in Fleet \ StoodDown : riders[c] < Capacity
Served == active >= 1 /\ response = 0 /\ RoomAboard
CallsAnswered == \A id \in People : ~<>[](Waits(id) /\ Served)
=============================================================================
