---------------------------- MODULE TowerHistory ----------------------------
(***************************************************************************)
(* UndoTower with the snapshots a plain history would keep: beside each    *)
(* step the tower and the balance it goes back to, and the ones the open   *)
(* gesture found.  They are history: no action reads them.  With time off  *)
(* and every edit in a gesture, UndoTower then implements EditHistory: the *)
(* steps, which hold only what a gesture changed, give back whole towers,  *)
(* and none is ever dropped.                                               *)
(***************************************************************************)
EXTENDS UndoTower

CONSTANT NoMark  \* no gesture is open

World == [Id -> Item \cup {None}] \X Int

ASSUME MarkAssumption == NoMark \notin World

VARIABLES
    past,    \* what each step of undo goes back to
    future,  \* what each step of redo goes back to
    mark     \* what the open gesture found, or NoMark

Now     == <<tower, money>>
allVars == <<vars, past, future, mark>>

Stacked(stack, w) ==
    IF Len(stack) < UndoCap THEN Append(stack, w) ELSE Append(Tail(stack), w)
PastKept   == IF Kept THEN Stacked(past, mark) ELSE past
FutureKept == IF Kept THEN <<>> ELSE future

InitH == Init /\ past = <<>> /\ future = <<>> /\ mark = NoMark

(* The snapshots move as the steps they belong to do.                      *)
Closing ==
    \/ Capture /\ mark' = Now /\ past' = PastKept /\ future' = FutureKept
    \/ Commit /\ mark' = NoMark /\ past' = PastKept /\ future' = FutureKept

Editing ==
    /\ \/ \E s \in Site : Build(s)
       \/ \E i \in Id : Sell(i) \/ AddCar(i) \/ RemoveCar(i) \/ Reprice(i) \/ Rename(i)
    /\ UNCHANGED <<past, future, mark>>

(* A step that applies takes its snapshot with it and leaves that of the   *)
(* opposite step; one that is dropped takes its snapshot; one kept for     *)
(* later keeps it.                                                         *)
Stepping ==
    /\ mark' = NoMark
    /\ \/ /\ Undo
          /\ past' = IF Len(undo') < Len(UndoCommitted) THEN Older(PastKept) ELSE PastKept
          /\ future' = IF Len(redo') > Len(RedoCommitted)
                       THEN Stacked(FutureKept, Now) ELSE FutureKept
       \/ /\ Redo
          /\ future' = IF redo' = <<>> THEN <<>>
                       ELSE IF Len(redo') < Len(RedoCommitted)
                       THEN Older(FutureKept) ELSE FutureKept
          /\ past' = IF undo' # UndoCommitted THEN Stacked(PastKept, Now) ELSE PastKept

NextH == Closing \/ Editing \/ Stepping

SpecH == InitH /\ [][NextH]_allVars

History == INSTANCE EditHistory WITH
    Cap    <- UndoCap,
    cur    <- Now

(* With no time between, undo and redo are those of a plain history of     *)
(* whole towers and balances: every undo goes back to what the gesture     *)
(* found, and no step is refused but for a balance that cannot pay for it. *)
RestoresWholeTowers == History!Spec
=============================================================================
