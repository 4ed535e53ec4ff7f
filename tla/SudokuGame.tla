------------------------------ MODULE SudokuGame ------------------------------
(***************************************************************************)
(* The rules of a Sudoku game and its undo history (sudoku/game.cc), as    *)
(* operators on the record Game.  The board's side is a parameter; time    *)
(* spent is left out.                                                      *)
(***************************************************************************)
EXTENDS SudokuPuzzle

CONSTANTS
    Side,          \* of the board, and the number of digits: 9 in the code
    Boxes,         \* the boxes, sets of cells
    SolutionsMet,  \* bound: what random_solution() returns
    OrdersMet,     \* bound: the orders in which minimize() goes through the cells
    ExtremeLevel,  \* of the hardest deduction a puzzle must need: 5 in is_extreme()
    ExtremeChains, \* the chain deductions that it must need: 4 in is_extreme()
    MaxMistakes,   \* kMaximumMistakes
    MaxMoves       \* kMaximumMoves

Cells == 0 .. Side * Side - 1
Digits == 1 .. Side
BoardTables == Tables(Side, Boxes)
Units == BoardTables.units
Puzzles == Generated(BoardTables, SolutionsMet, OrdersMet, ExtremeLevel, ExtremeChains)

\* valid_solution() and valid_puzzle()
ValidPuzzle(puzzle) ==
    /\ \A unit \in Units : {puzzle.solution[c] : c \in unit} = Digits
    /\ \A c \in Cells : puzzle.givens[c] \in {0, puzzle.solution[c]}
    /\ CountSolutions(BoardTables, puzzle.givens, 2) = 1

ASSUME GameAssumption ==
    /\ Side \in Nat \ {0} /\ MaxMistakes \in Nat \ {0} /\ MaxMoves \in Nat \ {0}
    /\ \A box \in Boxes : box \subseteq Cells /\ Cardinality(box) = Side
    /\ SolutionsMet \subseteq Solutions(BoardTables)
    /\ OrdersMet \subseteq Seq(Cells)
    /\ \A order \in OrdersMet : \A c \in Cells : \E i \in 1 .. Len(order) : order[i] = c
    /\ Puzzles # {}

NoCell == -1
NoGame == [puzzle |-> "none"]
Change == [cell : Cells, value : 0 .. Side, notes : SUBSET Digits]
Game == [puzzle : [givens : [Cells -> 0 .. Side], solution : [Cells -> Digits]],
         values : [Cells -> 0 .. Side], notes : [Cells -> SUBSET Digits],
         selected : Cells \cup {NoCell}, mistakes : 0 .. MaxMistakes, notesMode : BOOLEAN,
         changes : Seq(Change), moves : Seq(Nat \ {0})]

\* create_game()
Created(puzzle) ==
    [puzzle |-> puzzle, values |-> puzzle.givens, notes |-> [c \in Cells |-> {}],
     selected |-> NoCell, mistakes |-> 0, notesMode |-> FALSE, changes |-> <<>>, moves |-> <<>>]

Status(g) == IF g.mistakes >= MaxMistakes THEN "lost"
             ELSE IF g.values = g.puzzle.solution THEN "won" ELSE "playing"
Related(a, b) == a # b /\ \E unit \in Units : {a, b} \subseteq unit
Editable(g, c) ==
    /\ c \in Cells
    /\ Status(g) = "playing"
    /\ g.puzzle.givens[c] = 0
    /\ g.values[c] # g.puzzle.solution[c]

\* get_board()
CanUndo(g) == g.moves # <<>> /\ Status(g) = "playing"
Placed(g, digit) == {c \in Cells : g.values[c] = digit /\ digit = g.puzzle.solution[c]}

Recorded(g, c) == [cell |-> c, value |-> g.values[c], notes |-> g.notes[c]]
CompleteUnits(g, c) == {unit \in Units : c \in unit /\ \A d \in unit : g.values[d] = g.puzzle.solution[d]}

\* finish_move(): above the limit the oldest move goes, with its changes.
Finished(g, size) ==
    LET moves == Append(g.moves, size)
    IN IF Len(moves) <= MaxMoves THEN [g EXCEPT !.moves = moves]
       ELSE [g EXCEPT !.moves = Tail(moves),
                      !.changes = SubSeq(@, Head(moves) + 1, Len(@))]

\* The cells whose pencil mark a correct digit removes, in the code's order.
Marked(g, cell, digit) ==
    {c \in Cells : Related(cell, c) /\ g.values[c] = 0 /\ digit \in g.notes[c]}
InOrder(cells) ==
    [i \in 1 .. Cardinality(cells) |->
       CHOOSE c \in cells : Cardinality({d \in cells : d < c}) = i - 1]

Pencilled(g, cell, digit) ==
    Finished([g EXCEPT !.changes = Append(@, Recorded(g, cell)),
                       !.notes[cell] = IF digit \in @ THEN @ \ {digit} ELSE @ \cup {digit}], 1)

\* Mutant of Entered: the marks that are removed are not recorded.
EnteredUnrecorded(g, cell, digit) ==
    LET marked == IF digit = g.puzzle.solution[cell] THEN Marked(g, cell, digit) ELSE {}
    IN Finished([g EXCEPT
          !.changes = Append(@, Recorded(g, cell)),
          !.values[cell] = digit,
          !.notes = [c \in Cells |-> IF c = cell THEN {} ELSE IF c \in marked THEN @[c] \ {digit} ELSE @[c]],
          !.mistakes = IF digit = g.puzzle.solution[cell] THEN @ ELSE @ + 1], 1)

\* Mutant of Entered: the cell keeps its pencil marks under the digit.
EnteredOver(g, cell, digit) ==
    Finished([g EXCEPT !.changes = Append(@, Recorded(g, cell)), !.values[cell] = digit,
                       !.mistakes = IF digit = g.puzzle.solution[cell] THEN @ ELSE @ + 1], 1)

Entered(g, cell, digit) ==
    LET correct == digit = g.puzzle.solution[cell]
        marked == InOrder(IF correct THEN Marked(g, cell, digit) ELSE {})
        changed == <<cell>> \o marked
    IN Finished([g EXCEPT
          !.changes = @ \o [i \in DOMAIN changed |-> Recorded(g, changed[i])],
          !.values[cell] = digit,
          !.notes = [c \in Cells |->
              IF c = cell THEN {}
              ELSE IF \E i \in DOMAIN marked : marked[i] = c THEN @[c] \ {digit} ELSE @[c]],
          !.mistakes = IF correct THEN @ ELSE @ + 1], Len(changed))

\* enter_digit() on the selected cell; the same game if it changes nothing.
Enters(g, digit) ==
    LET cell == g.selected
    IN IF ~Editable(g, cell) THEN g
       ELSE IF g.notesMode
         THEN IF g.values[cell] # 0 THEN g ELSE Pencilled(g, cell, digit)
         ELSE IF g.values[cell] = digit THEN g ELSE Entered(g, cell, digit)

\* Move::completed: the units that entering the digit completes.
Completes(g, digit) ==
    IF g.notesMode \/ Enters(g, digit) = g \/ digit # g.puzzle.solution[g.selected] THEN {}
    ELSE CompleteUnits(Enters(g, digit), g.selected)

\* erase_cell()
Erases(g) ==
    LET cell == g.selected
    IN IF ~Editable(g, cell) \/ (g.values[cell] = 0 /\ g.notes[cell] = {}) THEN g
       ELSE Finished([g EXCEPT !.changes = Append(@, Recorded(g, cell)),
                               !.values[cell] = 0, !.notes[cell] = {}], 1)

\* The changes of the last move, and the board they lead back to.
LastChanges(g) == SubSeq(g.changes, Len(g.changes) - g.moves[Len(g.moves)] + 1, Len(g.changes))
Board(g) == [values |-> g.values, notes |-> g.notes]
Restored(board, changed) ==
    LET back[i \in 1 .. Len(changed) + 1] ==
            IF i > Len(changed) THEN board
            ELSE [back[i + 1] EXCEPT !.values[changed[i].cell] = changed[i].value,
                                     !.notes[changed[i].cell] = changed[i].notes]
    IN back[1]

\* undo()
Undoes(g) ==
    IF ~CanUndo(g) THEN g
    ELSE LET changed == LastChanges(g)
             board == Restored(Board(g), changed)
         IN [g EXCEPT !.values = board.values, !.notes = board.notes, !.selected = Head(changed).cell,
                      !.moves = SubSeq(@, 1, Len(@) - 1),
                      !.changes = SubSeq(@, 1, Len(@) - Len(changed))]

Toggles(g) == [g EXCEPT !.notesMode = ~@]
Selects(g, cell) == [g EXCEPT !.selected = cell]

Total(moves) ==
    LET sum[i \in 0 .. Len(moves)] == IF i = 0 THEN 0 ELSE sum[i - 1] + moves[i]
    IN sum[Len(moves)]

\* What decode_game() accepts; it is what encode_game() writes.
Loadable(g) ==
    /\ ValidPuzzle(g.puzzle)
    /\ Len(g.moves) <= MaxMoves + 1
    /\ Len(g.changes) <= (MaxMoves + 1) * Side * Side
    /\ \A i \in DOMAIN g.moves : g.moves[i] > 0
    /\ \A i \in DOMAIN g.changes : g.puzzle.givens[g.changes[i].cell] = 0
    /\ Len(g.changes) = Total(g.moves)
    /\ g.mistakes <= MaxMistakes
    /\ \A c \in Cells : g.puzzle.givens[c] \in {0, g.values[c]}

\* What this app's own games are besides: no cell, now or before a move, has
\* pencil marks under a digit, and no move changes more than the board.
Kept(g) ==
    /\ g \in Game /\ g.puzzle \in Puzzles /\ Loadable(g)
    /\ \A c \in Cells : g.values[c] # 0 => g.notes[c] = {}
    /\ \A i \in DOMAIN g.changes : g.changes[i].value # 0 => g.changes[i].notes = {}
    /\ \A i \in DOMAIN g.moves : g.moves[i] <= Side * Side
    /\ Len(g.moves) <= MaxMoves
===============================================================================
