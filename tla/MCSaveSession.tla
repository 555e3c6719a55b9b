--------------------------- MODULE MCSaveSession ---------------------------
(***************************************************************************)
(* Values of SaveSession's constants for TLC, and the stores it starts on: *)
(* an autosave that is absent, readable, damaged or newer; a legacy one    *)
(* that is absent, readable or damaged; a stash that may hold a save; one  *)
(* slot, free or taken.                                                    *)
(***************************************************************************)
EXTENDS SaveSession

Held(tower) == [tower |-> tower, moment |-> 0, size |-> 1]

Stores(autos, legacies, stashes, slots) ==
    {[k \in Key |-> CASE k = "auto" -> a [] k = "legacy" -> l
                      [] k = "stash" -> s [] OTHER -> n] :
        a \in autos, l \in legacies, s \in stashes, n \in slots}

AnyStores == Stores({None, Held("mine"), Held("damaged"), Held("newer")},
                    {None, Held("mine"), Held("damaged")},
                    {None, Held("damaged"), Held("newer")},
                    {None, Held("other")})
PlainStores == Stores({None, Held("mine")}, {None}, {None}, {None, Held("other")})
=============================================================================
