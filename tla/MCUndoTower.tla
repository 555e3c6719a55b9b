----------------------------- MODULE MCUndoTower -----------------------------
(***************************************************************************)
(* Values of UndoTower's constants for TLC.  The lot: a ground tile (g), a *)
(* tile resting on it (f), two rooms of one kind on g (room and annex), a  *)
(* condo on g (flat), and a shaft through both tiles.  Floors and condos   *)
(* have no cap (a number no lot reaches).                                  *)
(***************************************************************************)
EXTENDS UndoTower

LotKind  == [g |-> "floor", f |-> "floor", room |-> "room", annex |-> "room",
             flat |-> "condo", shaft |-> "shaft"]
LotRests == [g |-> {}, f |-> {"g"}, room |-> {"g"}, annex |-> {"g"},
             flat |-> {"g"}, shaft |-> {"g", "f"}]
AtKind  == [s \in Site |-> LotKind[s]]
AtRests == [s \in Site |-> LotRests[s]]

Rooms == {"g", "room", "annex"}
Shaft == {"g", "f", "shaft"}
Flat  == {"g", "flat"}

Ground     == <<"g">>
BothFloors == <<"g", "f">>
WithFlat   == <<"g", "flat">>

Prices  == [floor |-> 2, room |-> 4, condo |-> 4, shaft |-> 4]
OneEach == [floor |-> 9, room |-> 1, condo |-> 9, shaft |-> 1]
=============================================================================
