----------------------------- MODULE EditHistory -----------------------------
(***************************************************************************)
(* What an undo and redo history promises, with nothing of how it is kept: *)
(* the worlds the player can step back to and forward to, as whole         *)
(* snapshots.  The engine never stores a snapshot; it stores steps, each   *)
(* holding what one gesture changed.  UndoList and UndoTower show that     *)
(* those steps give back exactly these snapshots.                          *)
(***************************************************************************)
EXTENDS Naturals, Sequences

CONSTANTS World,   \* the states of the thing that is edited
          Cap,     \* most snapshots each side keeps
          NoMark   \* stands for "no gesture is open"

VARIABLES cur,     \* the world as it is
          past,    \* worlds an undo goes back to, oldest first
          future,  \* worlds a redo goes forward to, furthest first
          mark     \* the world the open gesture found, or NoMark

vars == <<cur, past, future, mark>>

Push(stack, w) ==
    IF Len(stack) < Cap THEN Append(stack, w) ELSE Append(Tail(stack), w)

Newest(stack) == stack[Len(stack)]
Older(stack)  == SubSeq(stack, 1, Len(stack) - 1)

(* A gesture that changed the world is a step back, and ends the way       *)
(* forward; one that changed nothing leaves no trace.                      *)
Changed == mark # NoMark /\ mark # cur
Past    == IF Changed THEN Push(past, mark) ELSE past
Future  == IF Changed THEN <<>> ELSE future

Init == cur \in World /\ past = <<>> /\ future = <<>> /\ mark = NoMark

Capture == cur' = cur /\ mark' = cur /\ past' = Past /\ future' = Future

Edit == /\ mark # NoMark /\ mark' = mark
        /\ cur' \in World
        /\ UNCHANGED <<past, future>>

(* Closing the gesture; also all that a step the tower cannot pay for yet  *)
(* comes to.                                                               *)
Commit == cur' = cur /\ mark' = NoMark /\ past' = Past /\ future' = Future

Undo == /\ mark' = NoMark
        /\ Past # <<>>
        /\ cur' = Newest(Past)
        /\ past' = Older(Past)
        /\ future' = Push(Future, cur)

Redo == /\ mark' = NoMark
        /\ Future # <<>>
        /\ cur' = Newest(Future)
        /\ future' = Older(Future)
        /\ past' = Push(Past, cur)

Next == Capture \/ Edit \/ Commit \/ Undo \/ Redo

Spec == Init /\ [][Next]_vars
=============================================================================
