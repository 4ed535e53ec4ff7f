------------------------------ MODULE UndoHistory ------------------------------
(***************************************************************************)
(* What "Undo restores every cell a move changed ...; it reaches back up   *)
(* to 2,000 moves" and "the game, including its undo history, is saved     *)
(* atomically after every move" (sudoku/README.md) promise: whole boards   *)
(* are stacked, undoing a move returns the board on top, and a game that   *)
(* is loaded is a whole stack that was there when it was saved.            *)
(***************************************************************************)
EXTENDS Naturals, Sequences

CONSTANTS Limit,  \* the moves that can be undone
          Fresh   \* the boards that a game starts from
VARIABLES now,    \* the board
          past,   \* the boards before each move that can be undone
          saved   \* the stacks that may be loaded after a crash

Stack == [now |-> now, past |-> past]
Bounded(boards) == IF Len(boards) > Limit THEN Tail(boards) ELSE boards

Move == past' = Bounded(Append(past, now))
Undo == /\ past # <<>>
        /\ now' = past[Len(past)]
        /\ past' = SubSeq(past, 1, Len(past) - 1)
Begin == now' \in Fresh /\ past' = <<>>
Load == Stack' \in saved
Keep == UNCHANGED <<now, past>>

\* Each may save the stack that it leaves, beside older ones or for them.
Next == (Move \/ Undo \/ Begin \/ Load \/ Keep) /\ saved' \subseteq saved \cup {Stack'}
Spec == [][Next]_<<now, past, saved>>
===============================================================================
