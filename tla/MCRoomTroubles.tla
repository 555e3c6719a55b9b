---------------------------- MODULE MCRoomTroubles ----------------------------
(***************************************************************************)
(* Values of RoomTroubles's constants for TLC: two hotel rooms side by     *)
(* side and one rebuilt in the first one's place, a security office above  *)
(* the first and a hotel room above the second.  To begin with, one of the *)
(* last two is missing.  A bomb's reach is scaled down to its own floor.   *)
(***************************************************************************)
EXTENDS RoomTroubles

Rooms5 == {"h1", "h2", "new", "guard", "up"}
At     == [h1 |-> <<1, 1>>, h2 |-> <<1, 2>>, new |-> <<1, 1>>, guard |-> <<2, 1>>,
           up |-> <<2, 2>>]
Towers == {{"h1", "h2", "up"}, {"h1", "h2", "guard"}}
Is     == [i \in Rooms5 |-> IF i = "guard" THEN "security" ELSE "hotel"]
=============================================================================
