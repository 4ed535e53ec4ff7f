------------------------------- MODULE MCSudoku -------------------------------
(* Model checking of Sudoku: a 2 x 2 board with one clue.  The saved game    *)
(* that is there at first has a mark in two cells of a column, so that a     *)
(* digit removes one, and a full history, or it is one digit from its end,   *)
(* whichever digit that is.  How puzzles are made is checked on 4 x 4 ones.  *)
EXTENDS Sudoku, TLC

NoFile == [puzzle |-> "absent"]
BadFile == [puzzle |-> "unreadable"]
Grid(a, b, c, d) == (0 :> a) @@ (1 :> b) @@ (2 :> c) @@ (3 :> d)
OneSolution == {Grid(1, 2, 2, 1)}
OneOrder == {<<1, 2, 3, 0>>}
NoBoxes == {}

Begun == Created(CHOOSE puzzle \in Puzzles : TRUE)
Marked2 == Pencilled(Pencilled(Begun, 1, 1), 3, 2)
Played2 == [Marked2 EXCEPT !.selected = 1]
Nearly == Erases([Entered(Entered(Entered(Begun, 1, 2), 2, 2), 3, 2) EXCEPT !.selected = 3])
Files == {BadFile, Played2, Nearly}
TouchedPlaces == {Hit("newGame", -1), Hit("primary", -1)}
PressedKeys == {Hit(t, -1) : t \in {"undo", "erase", "notes", "pause", "newGame", "enter"}}
               \cup {Hit("digit", d) : d \in Digits} \cup {Hit("cell", 3)}
-------------------------------------------------------------------------------
Boxes4 == {{0, 1, 4, 5}, {2, 3, 6, 7}, {8, 9, 12, 13}, {10, 11, 14, 15}}
Tables4 == Tables(4, Boxes4)
Solution4 == [c \in 0 .. 15 |-> <<1, 2, 3, 4, 3, 4, 1, 2, 2, 1, 4, 3, 4, 3, 2, 1>>[c + 1]]
Blank4 == Clued(Tables4, Blank(Tables4), Solution4)

\* Positions with some of the marks gone that the solution does without.
Spare(cells, digits) == {mark \in cells \X digits : Solution4[mark[1]] # mark[2]}
Without(marks) == Eliminate(Blank4, marks)

\* Two or three marks left in cell 0, in one of its row and in one of its column.
Wings(a, b) ==
    {Without(marks) : marks \in {marks \in SUBSET Spare({0, a, b}, 1 .. 4) :
        \A c \in {0, a, b} : Cardinality(marks \cap ({c} \X (1 .. 4))) \in 1 .. 2}}
AllWings == UNION {Wings(a, b) : a \in {1, 2}, b \in {4, 5}}

\* One digit's marks in two rows or in two columns.
Lines ==
    UNION {{Without(marks) : marks \in SUBSET Spare(line, {digit})} : digit \in 1 .. 4,
               line \in {{4 * row + i : row \in {0, other}, i \in 0 .. 3} : other \in 1 .. 2}
                        \cup {{4 * i + column : column \in {0, other}, i \in 0 .. 3} : other \in 1 .. 2}}

Orders4 == {[i \in 1 .. 16 |-> (k * i + j) % 16] : k \in {1, 3, 5, 7}, j \in {0, 5}}

\* Each technique has something to do somewhere in these positions.
Works(Technique(_, _)) == \E s \in AllWings \cup Lines : Technique(Tables4, s) \ {{}} # {}
ASSUME TechniquesWork ==
    /\ Works(LockedCandidates) /\ Works(NakedSubsets) /\ Works(HiddenSubsets) /\ Works(Fish)
    /\ Works(XyWing) /\ Works(XyzWing)
    /\ \E s \in Wings(1, 4) : \E next \in Chains(Tables4, s) : next.values # s.values
    /\ \E s \in Wings(1, 4) : \E next \in Chains(Tables4, s) : next.values = s.values

DeductionsSound ==
    /\ \A s \in AllWings \cup Lines : \A level \in 1 .. 4 : Sound(Tables4, s, level)
    /\ \A s \in Wings(1, 4) : Sound(Tables4, s, 5)
MinimizedMinimal == \A order \in Orders4 : Minimal(Tables4, Minimized(Tables4, Solution4, order))

(* A puzzle that is ready was made and rated as it should be: what         *)
(* minimize() returns has one solution and no clue to spare, and no        *)
(* deduction of any technique of rate() contradicts the solution as long   *)
(* as the pencil marks allow it (puzzle.cc, in 4 x 4).                     *)
PuzzlesSound ==
    gen.ready =>
      /\ \A puzzle \in Puzzles : Minimal(BoardTables, puzzle.givens)
      /\ MinimizedMinimal
      /\ DeductionsSound
================================================================================
