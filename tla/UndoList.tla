------------------------------ MODULE UndoList ------------------------------
(***************************************************************************)
(* The order of the unit list under undo and redo (undo_journal.rs,        *)
(* sim_undo.rs, tower/undoing.rs, tower_removal.rs).  Saves and every pass *)
(* over the units read the list in order, so a unit put back must go back  *)
(* where it stood.  The journal keeps no copy of the list: it keeps, for   *)
(* each unit a gesture touches, the index the unit had when the gesture    *)
(* began, worked out from the index it has now and the removals so far.    *)
(*                                                                         *)
(* A unit is its id.  Indexes are the code's, counted from 0.  A journal   *)
(* and a step also carry the list they go back to (`found`, `to`): history *)
(* that no action reads, for the refinement of EditHistory to name.        *)
(***************************************************************************)
EXTENDS Naturals, FiniteSets, Sequences, SequencesExt

CONSTANTS StartLen,   \* units in the list at the start: ids 1..StartLen
          MaxId,      \* bound: the last id the model hands out
          UndoCap,    \* UNDO_CAP, the steps each stack keeps
          MaxBatch    \* bound: units one command takes out or lays

ASSUME ListAssumption ==
    /\ StartLen \in Nat /\ MaxId \in Nat /\ StartLen <= MaxId
    /\ UndoCap \in Nat \ {0} /\ MaxBatch \in Nat \ {0}

VARIABLES
    units,    \* Tower::units, as ids in list order
    lobbies,  \* the ids laid as lobby tiles, which no lobby replaces
    nextId,   \* Tower::next_id
    journal,  \* Tower::journal, or NoJournal
    undo,     \* UndoHistory::undo, newest last
    redo      \* UndoHistory::redo, newest last

vars == <<units, lobbies, nextId, journal, undo, redo>>

NoJournal == [open |-> FALSE]

Ids == 1..MaxId
Ascending(S) ==
    CHOOSE s \in [1..Cardinality(S) -> S] : \A m, n \in DOMAIN s : m < n => s[m] < s[n]
IndexOf(list, id) == (CHOOSE i \in DOMAIN list : list[i] = id) - 1
Without(list, ids) ==
    LET Left[k \in 0..Len(list)] ==
            IF k = 0 THEN <<>>
            ELSE IF list[k] \in ids THEN Left[k - 1] ELSE Append(Left[k - 1], list[k])
    IN  Left[Len(list)]

-----------------------------------------------------------------------------
(* The journal's indexes.                                                  *)

(* Slip: the index a unit has now, whatever left before it.                *)
OriginalAsNow(gone, now) == now

(* original(): the search for the prefix of gone whose members lie at or   *)
(* before the unit, by halving.                                            *)
Original(gone, now) ==
    LET n == Len(gone)
        Search[span \in (0..n) \X (0..n)] ==
            LET lo  == span[1]
                hi  == span[2]
                mid == lo + (hi - lo) \div 2
            IN  IF lo >= hi THEN lo
                ELSE IF gone[mid + 1] - mid <= now THEN Search[<<mid + 1, hi>>]
                ELSE Search[<<lo, mid>>]
    IN  now + Search[<<0, n>>]

(* Slip: removals in the order they came.                                  *)
NoteGoneLast(gone, at) == Append(gone, at)

(* note_gone(): insert at the partition point.                             *)
NoteGone(gone, at) ==
    LET place == CHOOSE n \in 0..Len(gone) :
                    \A k \in DOMAIN gone : gone[k] < at <=> k <= n
    IN  InsertAt(gone, place + 1, at)

Seen(j, id)  == \E t \in j.touched : t.id = id
Touch(j, id) == CHOOSE t \in j.touched : t.id = id
See(j, id, at, was) ==
    [j EXCEPT !.touched = @ \cup {[id |-> id, at |-> at, was |-> was]}]

UnitIn(j, id) == IF Seen(j, id) THEN j ELSE See(j, id, 0, FALSE)

UnitOut(j, list, id) ==
    IF Seen(j, id)
    THEN IF Touch(j, id).was
         THEN [j EXCEPT !.gone = NoteGone(@, Touch(j, id).at)]
         ELSE j
    ELSE LET at == Original(j.gone, IndexOf(list, id))
         IN  [See(j, id, at, TRUE) EXCEPT !.gone = NoteGone(@, at)]

UnitEdit(j, list, id) ==
    IF Seen(j, id) THEN j
    ELSE See(j, id, Original(j.gone, IndexOf(list, id)), TRUE)

(* unit_slot(): a floor tile gives its place to a lobby, so the list keeps *)
(* its length until the brush settles.                                     *)
UnitSlot(j, list, id) ==
    IF Seen(j, id)
    THEN IF Touch(j, id).was
         THEN [j EXCEPT !.slots = Append(@, Touch(j, id).at)]
         ELSE j
    ELSE LET at == Original(j.gone, IndexOf(list, id))
         IN  [See(j, id, at, TRUE) EXCEPT !.slots = Append(@, at)]

SlotsSettled(j) ==
    LET Gone[k \in 0..Len(j.slots)] ==
            IF k = 0 THEN j.gone ELSE NoteGone(Gone[k - 1], j.slots[k])
    IN  [j EXCEPT !.gone = Gone[Len(j.slots)], !.slots = <<>>]

(* take_out(): a batch leaves last index first, while all of it is still   *)
(* in the list.                                                            *)
BatchOut(j, list, batch) ==
    LET ids == Without(list, ToSet(list) \ batch)
        n   == Len(ids)
        Out[k \in 0..n] ==
            IF k = 0 THEN j ELSE UnitOut(Out[k - 1], list, ids[n - k + 1])
    IN  Out[n]

-----------------------------------------------------------------------------
(* Steps: made by closing a journal, and applied.                          *)

(* end_undo_journal(): what the gesture found and took is put back, what   *)
(* it laid and left is taken out.                                          *)
StepOf(j, list) ==
    [images |-> {[id |-> t.id, at |-> t.at, put |-> t.was] :
                    t \in {u \in j.touched : u.was # (u.id \in ToSet(list))}},
     to |-> j.found]

(* landing_places(): each at its index, past the one before it, and no     *)
(* further than the end of the list as it grows.                           *)
LandingPlaces(ats, oldLen) ==
    LET Land[k \in 1..Len(ats)] ==
            LET past == IF k = 1 THEN 0 ELSE Land[k - 1] + 1
                want == IF ats[k] > past THEN ats[k] ELSE past
            IN  IF want < oldLen + k - 1 THEN want ELSE oldLen + k - 1
    IN  Land

(* Slip: units put back go to the end of the list.                         *)
InsertLast(list, images) ==
    LET ats == Ascending({img.at : img \in images})
    IN  list \o [k \in DOMAIN ats |-> (CHOOSE img \in images : img.at = ats[k]).id]

(* insert_units_at() with merge_appended(): the units put back, in the     *)
(* order of their indexes, land on their places; the others keep their     *)
(* order around them.                                                      *)
InsertUnits(list, images) ==
    LET ats   == Ascending({img.at : img \in images})
        lands == LandingPlaces(ats, Len(list))
        Landed(p) == \E k \in DOMAIN lands : lands[k] = p - 1
        Lander(p) == CHOOSE img \in images :
                        \E k \in DOMAIN ats : lands[k] = p - 1 /\ ats[k] = img.at
        Before(p) == {k \in DOMAIN lands : lands[k] < p - 1}
    IN  [p \in 1..Len(list) + Cardinality(images) |->
            IF Landed(p) THEN Lander(p).id ELSE list[p - Cardinality(Before(p))]]

StepFits(step, list) ==
    \A img \in step.images : img.put # (img.id \in ToSet(list))

(* apply_unit_images(): the list after the step ...                        *)
Applied(step, list) ==
    LET out == {img.id : img \in {i \in step.images : ~i.put}}
    IN  InsertUnits(Without(list, out), {img \in step.images : img.put})

(* ... and the step that goes back.                                        *)
Opposite(step, list) ==
    [images |->
        {[id |-> img.id, put |-> ~img.put,
          at |-> IF img.put THEN img.at ELSE IndexOf(list, img.id)] :
            img \in step.images},
     to |-> list]

-----------------------------------------------------------------------------
(* The two stacks.                                                         *)

Pushed(stack, step) ==
    LET s == Append(stack, step) IN IF Len(s) > UndoCap THEN Tail(s) ELSE s

Kept == journal.open /\ StepOf(journal, units).images # {}
UndoCommitted ==
    IF Kept THEN Pushed(undo, StepOf(journal, units)) ELSE undo
RedoCommitted == IF Kept THEN <<>> ELSE redo

-----------------------------------------------------------------------------
Init ==
    /\ units = [i \in 1..StartLen |-> i]
    /\ lobbies = {}
    /\ nextId = StartLen + 1
    /\ journal = NoJournal
    /\ undo = <<>> /\ redo = <<>>

(* undoCapture: commit what is open, then open a journal.                  *)
Capture ==
    /\ undo' = UndoCommitted /\ redo' = RedoCommitted
    /\ journal' = [open |-> TRUE, touched |-> {}, gone |-> <<>>, slots |-> <<>>,
                   found |-> units]
    /\ UNCHANGED <<units, lobbies, nextId>>

(* undoCommit and undoDiscard.                                             *)
Commit ==
    /\ journal.open
    /\ undo' = UndoCommitted /\ redo' = RedoCommitted
    /\ journal' = NoJournal
    /\ UNCHANGED <<units, lobbies, nextId>>

(* A placement: add_unit at the end of the list.                           *)
Place ==
    /\ journal.open /\ nextId <= MaxId
    /\ units' = Append(units, nextId)
    /\ journal' = UnitIn(journal, nextId)
    /\ nextId' = nextId + 1
    /\ UNCHANGED <<lobbies, undo, redo>>

(* A rename or a price change writes a unit where it stands.               *)
EditInPlace ==
    /\ journal.open
    /\ \E id \in ToSet(units) : journal' = UnitEdit(journal, units, id)
    /\ UNCHANGED <<units, lobbies, nextId, undo, redo>>

(* remove_units: the batch leaves in one pass; the journal hears of it     *)
(* last index first, while the whole batch is still in the list.           *)
RemoveUnits ==
    /\ journal.open
    /\ \E batch \in SUBSET ToSet(units) :
          /\ batch # {} /\ Cardinality(batch) <= MaxBatch
          /\ journal' = BatchOut(journal, units, batch)
          /\ units' = Without(units, batch)
    /\ UNCHANGED <<lobbies, nextId, undo, redo>>

(* One tile of the lobby brush, over the floor tile `over` or (0) on free  *)
(* ground, as a change to the brush's record b.                            *)
LayLobby(b, over) ==
    IF over = 0
    THEN [b EXCEPT !.list = Append(@, b.next), !.j = UnitIn(@, b.next),
                   !.placed = Append(@, b.next), !.next = @ + 1]
    ELSE [b EXCEPT !.list = [@ EXCEPT ![IndexOf(b.list, over) + 1] = b.next],
                   !.j = UnitIn(UnitSlot(@, b.list, over), b.next),
                   !.placed = Append(@, b.next), !.next = @ + 1,
                   !.upgraded = TRUE]

(* The tower's list and journal once the brush has laid its tiles.         *)
Brushed(tiles) ==
    LET Laid[k \in 0..Len(tiles)] ==
            IF k > 0 THEN LayLobby(Laid[k - 1], tiles[k])
            ELSE [list |-> units, j |-> journal, placed |-> <<>>,
                  next |-> nextId, upgraded |-> FALSE]
    IN  Laid[Len(tiles)]

(* Slip: a lobby stays in the slot of the floor tile it replaced.          *)
BrushListInPlace(b) == b.list

(* end_lobby_upgrades(): where a lobby took a tile's slot, everything laid *)
(* moves to the end, in the order placed, and the journal hears of the     *)
(* units that move and of the slots.                                       *)
BrushList(b) ==
    IF b.upgraded THEN Without(b.list, ToSet(b.placed)) \o b.placed ELSE b.list
BrushJournal(b) ==
    IF b.upgraded THEN SlotsSettled(BatchOut(b.j, b.list, ToSet(b.placed))) ELSE b.j

(* with_lobby_upgrades: the brush lays its tiles, each over a floor tile   *)
(* taking that tile's slot, and ends.                                      *)
LobbyBrush ==
    /\ journal.open
    /\ \E tiles \in SeqOf({0} \cup (ToSet(units) \ lobbies), MaxBatch) :
          /\ tiles # <<>> /\ nextId + Len(tiles) <= MaxId + 1
          /\ \A m, n \in DOMAIN tiles : m # n => tiles[m] = 0 \/ tiles[m] # tiles[n]
          /\ LET b == Brushed(tiles)
             IN  /\ units' = BrushList(b)
                 /\ journal' = BrushJournal(b)
                 /\ lobbies' = lobbies \cup ToSet(b.placed)
                 /\ nextId' = b.next
    /\ UNCHANGED <<undo, redo>>

(* port step(): close the gesture, pop a step, apply it, and keep the      *)
(* opposite one.  A step the list does not fit is stale and is dropped.    *)
Undo ==
    /\ UndoCommitted # <<>>
    /\ LET step == Last(UndoCommitted)
       IN  IF StepFits(step, units)
           THEN /\ units' = Applied(step, units)
                /\ redo' = Pushed(RedoCommitted, Opposite(step, units))
           ELSE UNCHANGED units /\ redo' = RedoCommitted
    /\ undo' = Front(UndoCommitted)
    /\ journal' = NoJournal
    /\ UNCHANGED <<lobbies, nextId>>

Redo ==
    /\ RedoCommitted # <<>>
    /\ LET step == Last(RedoCommitted)
       IN  IF StepFits(step, units)
           THEN /\ units' = Applied(step, units)
                /\ undo' = Pushed(UndoCommitted, Opposite(step, units))
                /\ redo' = Front(RedoCommitted)
           ELSE UNCHANGED units /\ undo' = UndoCommitted /\ redo' = <<>>
    /\ journal' = NoJournal
    /\ UNCHANGED <<lobbies, nextId>>

Next ==
    \/ Capture \/ Commit
    \/ Place \/ EditInPlace \/ RemoveUnits \/ LobbyBrush
    \/ Undo \/ Redo

Spec == Init /\ [][Next]_vars

-----------------------------------------------------------------------------
(* The list type: no unit stands twice, ids are not handed out again, and  *)
(* the journal's removals stay in order.                                   *)
TypeOK ==
    /\ units \in Seq(1..nextId - 1) /\ IsInjective(units)
    /\ nextId \in 1..MaxId + 1 /\ lobbies \subseteq 1..nextId - 1
    /\ Len(undo) <= UndoCap /\ Len(redo) <= UndoCap
    /\ journal.open =>
          \A m, n \in DOMAIN journal.gone : m < n => journal.gone[m] < journal.gone[n]

(* The journal's places are the ones the gesture found: a touched unit     *)
(* that was there stood at its recorded index in the list the gesture      *)
(* found, whatever left the list before it (original() in undo_journal.rs).*)
PlacesAreOriginal ==
    journal.open =>
        \A t \in journal.touched :
            t.was => /\ t.at < Len(journal.found)
                     /\ journal.found[t.at + 1] = t.id

(* A lobby brush, which lays over floor tiles where they stand and moves   *)
(* what it laid once, leaves the list that laying tile by tile would: the  *)
(* units that still stand, in their order, then those laid, in theirs      *)
(* (the promise of with_lobby_upgrades in tower_removal.rs).               *)
BrushKeepsOrder ==
    [][lobbies' # lobbies =>
           units' = Without(units, ToSet(units) \ ToSet(units'))
                       \o [k \in 1..nextId' - nextId |-> nextId + (k - 1)]]_vars

NoMark == <<0>>

History == INSTANCE EditHistory WITH
    World  <- Seq(Ids),
    Cap    <- UndoCap,
    cur    <- units,
    past   <- [k \in DOMAIN undo |-> undo[k].to],
    future <- [k \in DOMAIN redo |-> redo[k].to],
    mark   <- IF journal.open THEN journal.found ELSE NoMark

(* Steps that hold only what a gesture changed give back whole lists: the  *)
(* unit list under undo and redo is the list under a history of snapshots. *)
RestoresWholeLists == History!Spec
=============================================================================
