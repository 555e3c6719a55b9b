------------------------------ MODULE MCOutings ------------------------------
(***************************************************************************)
(* A hotel room, an office, a restaurant with one table and a cinema with   *)
(* two seats, and two people.                                              *)
(***************************************************************************)
EXTENDS Outings

CONSTANTS h, o, v, c

MCKind == [u \in Unit |-> CASE u = h -> "hotel" [] u = o -> "room"
                            [] u = v -> "venue" [] OTHER -> "hall"]
MCCap == [u \in Places |-> IF u = v THEN 1 ELSE 2]
=============================================================================
