--------------------------- MODULE MCTowerHistory ---------------------------
(***************************************************************************)
(* Values of TowerHistory's constants for TLC: the lot of MCUndoTower      *)
(* without its condo, begun with two rooms of a kind whose cap is one, as  *)
(* an older save may be.                                                   *)
(***************************************************************************)
EXTENDS TowerHistory

Mixed   == {"g", "f", "room", "annex", "shaft"}
AtKind  == [g |-> "floor", f |-> "floor", room |-> "room", annex |-> "room",
            shaft |-> "shaft"]
AtRests == [g |-> {}, f |-> {"g"}, room |-> {"g"}, annex |-> {"g"},
            shaft |-> {"g", "f"}]
Overfull == <<"g", "room", "annex">>

Prices  == [floor |-> 2, room |-> 4, condo |-> 4, shaft |-> 4]
OneEach == [floor |-> 9, room |-> 1, condo |-> 9, shaft |-> 1]
=============================================================================
