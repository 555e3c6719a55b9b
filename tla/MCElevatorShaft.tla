--------------------------- MODULE MCElevatorShaft ---------------------------
(***************************************************************************)
(* A shaft of three floors with up to two one-seat cars and two people.     *)
(* The lobby is on its middle floor, where a car waits that has no home;    *)
(* the homes a schedule may list are the bottom and the middle, so that     *)
(* skipping the middle stop moves homes to the bottom.  A shaft from a save *)
(* skips the middle with a home left there.  A chunk takes a car two        *)
(* floors, and a car stands at a stop for a chunk and a half: it may spend  *)
(* all of a chunk there, or half of it and travel one floor.                *)
(***************************************************************************)
EXTENDS ElevatorShaft

MCLobbies == {1}
MCHomes == {<<0, 1>>}
MCSkips == {{1}}
MCSteps == {2}
MCResponses == {0, 2}
MCEstimates == {{}, {1}}
MCTrips == {<<0, 2>>, <<2, 1>>}
=============================================================================
