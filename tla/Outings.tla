------------------------------- MODULE Outings -------------------------------
(***************************************************************************)
(* The people of the crowd who go out and come back, and the counts they    *)
(* leave at the units they come from and go to: out_for_meal at home,       *)
(* customers_in and, of those, hotel_customers_in at the venue.  A count is *)
(* raised when a person sets out or arrives (crowd/spawn/meal_trips.rs,     *)
(* visits.rs, routines.rs) and lowered when they finish (motion.rs), steps  *)
(* later, by which time the unit may be sold, sold and put back by undo     *)
(* with empty counts (tower/undoing.rs), closed, or full.                   *)
(*                                                                         *)
(* How a person walks and rides is abstracted to arriving sooner or later,  *)
(* or running out of patience on the way.  Opening hours, the crowd's       *)
(* random draws and whether a home shows anybody to leave it are abstracted *)
(* to any person setting out at any time.                                   *)
(***************************************************************************)
EXTENDS Integers, FiniteSets

CONSTANTS
    People,   \* the people out at one time
    Unit,     \* the units the model is about
    Kind,     \* Kind[u]: "hotel", "room" (office, condo), "venue", "hall"
    Cap,      \* Cap[u]: people a venue or a hall takes
    None

Homes == {u \in Unit : Kind[u] \in {"hotel", "room"}}
Places == Unit \ Homes

ASSUME OutingsAssumption ==
    /\ IsFiniteSet(People)
    /\ Kind \in [Unit -> {"hotel", "room", "venue", "hall"}]
    /\ Cap \in [Places -> Nat \ {0}]
    /\ None \notin Unit

VARIABLES
    people,     \* who is out, and what each will settle at the end
    standing,   \* the units in the tower
    open,       \* the places with a tenant (is_tenanted, is_operational)
    out,        \* out_for_meal of each home
    customers,  \* customers_in of each place
    hotel,      \* hotel_customers_in of each place
    putBack     \* units an undo or redo has put back since the tower loaded
vars == <<people, standing, open, out, customers, hotel, putBack>>

Person == [st : {"Out", "Inside", "Back"}, origin : Homes \cup {None},
           meal : Places \cup {None}, venue : Places \cup {None}, guest : BOOLEAN]

ASSUME NoneAssumption == None \notin Person

AbsentPeople == {p \in People : people[p] = None}
Abroad == People \ AbsentPeople
HasRoom(v) == customers[v] < Cap[v]

Init ==
    /\ people = [p \in People |-> None]
    /\ standing = Unit /\ open = Places
    /\ out = [u \in Homes |-> 0]
    /\ customers = [v \in Places |-> 0] /\ hotel = [v \in Places |-> 0]
    /\ putBack = {}

-----------------------------------------------------------------------------
(* People.                                                                 *)

\* A person leaves home u.
Raise(p, u, meal, st) ==
    /\ p \in AbsentPeople /\ u \in standing
    /\ people' = [people EXCEPT ![p] =
            [st |-> st, origin |-> u, meal |-> meal, venue |-> None, guest |-> FALSE]]
    /\ out' = [out EXCEPT ![u] = @ + 1]
    /\ UNCHANGED <<standing, open, customers, hotel, putBack>>

\* spawn_meal_outbound, spawn_venue_visit: to a place that is open and has room.
SetOut(p, u, v) == v \in standing \cap open /\ HasRoom(v) /\ Raise(p, u, v, "Out")

\* spawn_sales_call: out of an office to the lobby, a stay there, and back.
SalesCall(p, u) == Kind[u] = "room" /\ Raise(p, u, None, "Out")

\* spawn_school_departure: out of a home, and finished at the door.
SchoolRun(p, u) == Kind[u] = "room" /\ Raise(p, u, None, "Back")

\* spawn_venue_visit from the street: nobody's count at home.
VisitFromStreet(p, v) ==
    /\ p \in AbsentPeople /\ Kind[v] = "hall"
    /\ v \in standing \cap open /\ HasRoom(v)
    /\ people' = [people EXCEPT ![p] =
            [st |-> "Out", origin |-> None, meal |-> v, venue |-> None, guest |-> FALSE]]
    /\ UNCHANGED <<standing, open, out, customers, hotel, putBack>>

\* Slip: whoever set out for the place is let in.
ArriveUnchecked(p) ==
    LET q == people[p]
        counted == q.meal \in standing \cap open
        guest == counted /\ Kind[q.meal] = "venue"
                 /\ q.origin \in standing /\ Kind[q.origin] = "hotel"
    IN  /\ p \in Abroad /\ q.st = "Out"
        /\ people' = [people EXCEPT ![p] =
                [q EXCEPT !.st = "Inside", !.venue = IF counted THEN q.meal ELSE None,
                          !.guest = guest]]
        /\ customers' = [v \in Places |->
                customers[v] + IF counted /\ v = q.meal THEN 1 ELSE 0]
        /\ hotel' = [v \in Places |-> hotel[v] + IF guest /\ v = q.meal THEN 1 ELSE 0]
        /\ UNCHANGED <<standing, open, out, putBack>>

\* begin_dwell: the place counts them if it is there, open and has room now;
\* they stay as long either way.
Arrive(p) ==
    LET q == people[p]
        counted == q.meal \in standing \cap open /\ HasRoom(q.meal)
        guest == counted /\ Kind[q.meal] = "venue"
                 /\ q.origin \in standing /\ Kind[q.origin] = "hotel"
    IN  /\ p \in Abroad /\ q.st = "Out"
        /\ people' = [people EXCEPT ![p] =
                [q EXCEPT !.st = "Inside", !.venue = IF counted THEN q.meal ELSE None,
                          !.guest = guest]]
        /\ customers' = [v \in Places |->
                customers[v] + IF counted /\ v = q.meal THEN 1 ELSE 0]
        /\ hotel' = [v \in Places |-> hotel[v] + IF guest /\ v = q.meal THEN 1 ELSE 0]
        /\ UNCHANGED <<standing, open, out, putBack>>

\* Slip: the counts are lowered without asking whether they are above zero.
SettleUnguarded(p, q) ==
    LET there == q.venue # None /\ q.venue \in standing
    IN  /\ people' = [people EXCEPT ![p] = None]
        /\ out' = [u \in Homes |-> out[u] - IF u = q.origin /\ u \in standing THEN 1 ELSE 0]
        /\ customers' = [v \in Places |-> customers[v] - IF there /\ v = q.venue THEN 1 ELSE 0]
        /\ hotel' = [v \in Places |->
                hotel[v] - IF there /\ v = q.venue /\ q.guest THEN 1 ELSE 0]

\* finish: the person is gone, and gives back what they still hold: a place at
\* home if the home is there and misses anybody, a place at the venue likewise,
\* and only then their place among its hotel guests.
Settle(p, q) ==
    LET home == q.origin \in standing /\ out[q.origin] > 0
        there == q.venue \in standing /\ customers[q.venue] > 0
        guest == there /\ q.guest /\ hotel[q.venue] > 0
    IN  /\ people' = [people EXCEPT ![p] = None]
        /\ out' = [u \in Homes |-> out[u] - IF home /\ u = q.origin THEN 1 ELSE 0]
        /\ customers' = [v \in Places |-> customers[v] - IF there /\ v = q.venue THEN 1 ELSE 0]
        /\ hotel' = [v \in Places |-> hotel[v] - IF guest /\ v = q.venue THEN 1 ELSE 0]

\* Slip: whose home is gone leaves without settling at the venue.
DepartHomeless(p) ==
    LET q == people[p]
    IN  /\ p \in Abroad /\ q.st = "Inside"
        /\ IF q.origin # None /\ q.origin \notin standing
           THEN /\ people' = [people EXCEPT ![p] = None]
                /\ UNCHANGED <<out, customers, hotel>>
           ELSE \/ /\ people' = [people EXCEPT ![p].st = "Back"]
                   /\ UNCHANGED <<out, customers, hotel>>
                \/ Settle(p, q)
        /\ UNCHANGED <<standing, open, putBack>>

\* transition_to_return: the stay is over.  Whose home is gone forgets it and
\* finishes, and so does whom no route takes home; the others set off, still
\* counted by the venue until they are home.
Depart(p) ==
    LET q == people[p]
    IN  /\ p \in Abroad /\ q.st = "Inside"
        /\ IF q.origin # None /\ q.origin \notin standing
           THEN Settle(p, [q EXCEPT !.origin = None])
           ELSE \/ /\ people' = [people EXCEPT ![p].st = "Back"]
                   /\ UNCHANGED <<out, customers, hotel>>
                \/ Settle(p, q)
        /\ UNCHANGED <<standing, open, putBack>>

\* A person is home, or has lost patience on the way out or back.
Finish(p) ==
    /\ p \in Abroad /\ people[p].st # "Inside"
    /\ Settle(p, people[p])
    /\ UNCHANGED <<standing, open, putBack>>

-----------------------------------------------------------------------------
(* Units.                                                                  *)

\* Slip: the history keeps the unit with its counts.
TakeOutCounted(u) ==
    /\ u \in standing
    /\ standing' = standing \ {u}
    /\ UNCHANGED <<people, open, out, customers, hotel, putBack>>

\* A unit is sold, or its build undone: nobody tells the crowd.  Its counts mean
\* nothing while it is gone, and the history puts it back without them.
TakeOut(u) ==
    /\ u \in standing
    /\ standing' = standing \ {u}
    /\ out' = [h \in Homes |-> IF h = u THEN 0 ELSE out[h]]
    /\ customers' = [v \in Places |-> IF v = u THEN 0 ELSE customers[v]]
    /\ hotel' = [v \in Places |-> IF v = u THEN 0 ELSE hotel[v]]
    /\ UNCHANGED <<people, open, putBack>>

\* A step of the history puts the unit back with the id it had and no counts
\* (Unit::returning).
PutBack(u) ==
    /\ u \notin standing
    /\ standing' = standing \cup {u} /\ putBack' = putBack \cup {u}
    /\ UNCHANGED <<people, open, out, customers, hotel>>

\* A tenant moves in or out of a place, or it catches fire.
OpenOrClose(v) ==
    /\ v \in standing
    /\ open' = IF v \in open THEN open \ {v} ELSE open \cup {v}
    /\ UNCHANGED <<people, standing, out, customers, hotel, putBack>>

\* A load starts with nobody out and no counts (load/reader.rs).
Reload ==
    /\ people' = [p \in People |-> None] /\ putBack' = {}
    /\ out' = [u \in Homes |-> 0]
    /\ customers' = [v \in Places |-> 0] /\ hotel' = [v \in Places |-> 0]
    /\ UNCHANGED <<standing, open>>

Next ==
    \/ \E p \in People :
        \/ \E u \in Homes, v \in Places : SetOut(p, u, v)
        \/ \E u \in Homes : SalesCall(p, u) \/ SchoolRun(p, u)
        \/ \E v \in Places : VisitFromStreet(p, v)
        \/ Arrive(p) \/ Depart(p) \/ Finish(p)
    \/ \E u \in Unit : TakeOut(u) \/ PutBack(u)
    \/ \E v \in Places : OpenOrClose(v)
    \/ Reload

Spec == Init /\ [][Next]_vars

-----------------------------------------------------------------------------
(* What must hold.                                                         *)

TypeOK ==
    /\ people \in [People -> Person \cup {None}]
    /\ standing \subseteq Unit /\ open \subseteq Places /\ putBack \subseteq Unit
    /\ out \in [Homes -> Nat]
    /\ customers \in [Places -> Nat] /\ hotel \in [Places -> Nat]

From(u) == {p \in Abroad : people[p].origin = u}
Inside(v) == {p \in Abroad : people[p].venue = v}
Guests(v) == {p \in Inside(v) : people[p].guest}

\* No unit counts anybody who will not come back to settle the count, so none
\* stays raised for ever: a home is never shown emptier than it is, and a venue
\* never earns from, or turns people away for, nobody (motion.rs finish, whose
\* people may outlive the units they come from and go to).  It leaves out the part
\* of a venue's count that are hotel guests (hotel_customers_in), which does not
\* keep this: see HotelIsSubset.
NobodyOwed ==
    /\ \A u \in Homes \cap standing : out[u] <= Cardinality(From(u))
    /\ \A v \in Places \cap standing : customers[v] <= Cardinality(Inside(v))

\* Until a step of the history puts it back, a unit's counts are the people who
\* hold them, each counted once, hotel guests among them.
CountsExact ==
    /\ \A u \in (Homes \cap standing) \ putBack : out[u] = Cardinality(From(u))
    /\ \A v \in (Places \cap standing) \ putBack :
        customers[v] = Cardinality(Inside(v)) /\ hotel[v] = Cardinality(Guests(v))

\* A place never takes more people than it holds, although several may set out
\* for its last free place (venue_has_room at the start, begin_dwell at the end).
NeverOverfull == \A v \in Places \cap standing : customers[v] <= Cap[v]

\* hotel_customers_in is "always at most customersIn" (engine/types.ts:220).
HotelIsSubset == \A v \in Places \cap standing : hotel[v] <= customers[v]
=============================================================================
