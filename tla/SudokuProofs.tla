----------------------------- MODULE SudokuProofs -----------------------------
(***************************************************************************)
(* Proofs about the Sudoku app, for boards of every size, histories of     *)
(* every length, whatever is on disk at first, and every number of edits:  *)
(* its view says what the game on the screen is, its clock runs exactly    *)
(* while that game is played, no move that was saved is lost, and its undo *)
(* history, changes of single cells and the number of them in each move,   *)
(* implements a stack of whole boards; and the puzzles that it shows are   *)
(* minimal and rated soundly.                                              *)
(***************************************************************************)
EXTENDS MCSudoku, SudokuPuzzleProofs
-------------------------------------------------------------------------------
(* Sequences, and the rules of the game.                                   *)

(* The first n members of a sequence, and those from the m-th on.          *)
LEMMA FrontPart ==
    ASSUME NEW S, NEW s \in Seq(S), NEW n \in 0 .. Len(s)
    PROVE  /\ SubSeq(s, 1, n) \in Seq(S)
           /\ Len(SubSeq(s, 1, n)) = n
           /\ \A i \in 1 .. n : SubSeq(s, 1, n)[i] = s[i]
<1>1. Len(s) \in Nat /\ n \in Int /\ \A i \in 1 .. n : s[i] \in S
  OBVIOUS
<1>2. /\ SubSeq(s, 1, n) \in Seq(S)
      /\ Len(SubSeq(s, 1, n)) = IF 1 <= n THEN n - 1 + 1 ELSE 0
      /\ \A i \in 1 .. n - 1 + 1 : SubSeq(s, 1, n)[i] = s[1 + i - 1]
  BY <1>1, SubSeqProperties
<1>3. QED
  BY <1>1, <1>2

LEMMA BackPart ==
    ASSUME NEW S, NEW s \in Seq(S), NEW m \in 1 .. Len(s) + 1
    PROVE  /\ SubSeq(s, m, Len(s)) \in Seq(S)
           /\ Len(SubSeq(s, m, Len(s))) = Len(s) - m + 1
           /\ \A i \in 1 .. Len(s) - m + 1 : SubSeq(s, m, Len(s))[i] = s[m + i - 1]
<1>1. Len(s) \in Nat /\ m \in Int /\ \A i \in m .. Len(s) : s[i] \in S
  OBVIOUS
<1>2. /\ SubSeq(s, m, Len(s)) \in Seq(S)
      /\ Len(SubSeq(s, m, Len(s))) = IF m <= Len(s) THEN Len(s) - m + 1 ELSE 0
      /\ \A i \in 1 .. Len(s) - m + 1 : SubSeq(s, m, Len(s))[i] = s[m + i - 1]
  BY <1>1, SubSeqProperties
<1>3. QED
  BY <1>1, <1>2

(* The moves' sizes, added up one by one.                                  *)
LEMMA TotalSteps ==
    ASSUME NEW moves \in Seq(Nat)
    PROVE  \E f \in [0 .. Len(moves) -> Nat] :
              /\ f[0] = 0 /\ f[Len(moves)] = Total(moves)
              /\ \A i \in 1 .. Len(moves) : f[i] = f[i - 1] + moves[i]
<1> DEFINE n == Len(moves)
           step == [i \in 1 .. n |-> [total \in Nat |-> total + moves[i]]]
           sum == CHOOSE sum : sum = [i \in 0 .. n |-> IF i = 0 THEN 0 ELSE sum[i - 1] + moves[i]]
<1>1. n \in Nat /\ \A i \in 1 .. n : moves[i] \in Nat
  OBVIOUS
<1>2. step \in [1 .. n -> [Nat -> Nat]]
  BY <1>1
<1>3. PICK f \in [0 .. n -> Nat] : Steps(f, n, 0, step)
  BY <1>1, <1>2, StepsExist
<1>4. \A i \in 1 .. n : f[i] = f[i - 1] + moves[i]
  <2> TAKE i \in 1 .. n
  <2>1. f[i - 1] \in Nat
    <3>1. i - 1 \in 0 .. n
      BY <1>1
    <3>2. QED
      BY <1>3, <3>1
  <2>2. f[i] = step[i][f[i - 1]]
    <3> HIDE DEF step
    <3>1. QED
      BY <1>3 DEF Steps
  <2>3. QED
    BY <2>1, <2>2
<1> HIDE DEF step
<1>5. f = [i \in 0 .. n |-> IF i = 0 THEN 0 ELSE f[i - 1] + moves[i]]
  BY <1>1, <1>3, <1>4 DEF Steps
<1>6. sum = [i \in 0 .. n |-> IF i = 0 THEN 0 ELSE sum[i - 1] + moves[i]]
  BY <1>5
<1>7. Total(moves) = sum[n]
  BY DEF Total
<1> HIDE DEF sum
<1>8. sum[0] = 0 /\ \A i \in 1 .. n : sum[i] = sum[i - 1] + moves[i]
  BY <1>1, <1>6, SMTT(20)
<1>9. f[n] = sum[n]
  <2> DEFINE T == {k \in 0 .. n : f[k] # sum[k]}
  <2>1. SUFFICES ASSUME T # {} PROVE FALSE
    BY <1>1 DEF T
  <2>2. T \subseteq Nat
    BY DEF T
  <2> HIDE DEF T
  <2>3. PICK k \in T : \A j \in T : k <= j
    BY <2>1, <2>2, Least
  <2> USE DEF T
  <2>4. k # 0
    BY <1>3, <1>8 DEF Steps
  <2>5. k - 1 \in 0 .. n /\ k - 1 \notin T /\ k \in 1 .. n
    BY <1>1, <2>3, <2>4
  <2>6. f[k - 1] = sum[k - 1]
    BY <2>5
  <2>7. QED
    BY <1>4, <1>8, <2>5, <2>6
<1>10. QED
  BY <1>3, <1>4, <1>7, <1>9 DEF Steps

(* Any function that adds them up ends with the total.                     *)
LEMMA TotalIs ==
    ASSUME NEW moves \in Seq(Nat), NEW g,
           g[0] = 0, \A i \in 1 .. Len(moves) : g[i] = g[i - 1] + moves[i]
    PROVE  g[Len(moves)] = Total(moves)
<1> DEFINE n == Len(moves)
<1>1. n \in Nat
  OBVIOUS
<1>2. PICK f \in [0 .. n -> Nat] :
         /\ f[0] = 0 /\ f[n] = Total(moves)
         /\ \A i \in 1 .. n : f[i] = f[i - 1] + moves[i]
  BY TotalSteps
<1> DEFINE T == {k \in 0 .. n : f[k] # g[k]}
<1>3. SUFFICES ASSUME T # {} PROVE FALSE
  BY <1>1, <1>2 DEF T
<1>4. T \subseteq Nat
  BY DEF T
<1> HIDE DEF T
<1>5. PICK k \in T : \A j \in T : k <= j
  BY <1>3, <1>4, Least
<1> USE DEF T
<1>6. k # 0
  BY <1>2
<1>7. k - 1 \in 0 .. n /\ k - 1 \notin T /\ k \in 1 .. n
  BY <1>1, <1>5, <1>6
<1>8. f[k - 1] = g[k - 1]
  BY <1>7
<1>9. QED
  BY <1>2, <1>7, <1>8

LEMMA TotalFacts ==
    ASSUME NEW moves \in Seq(Nat), NEW size \in Nat
    PROVE  /\ Total(moves) \in Nat
           /\ Total(Append(moves, size)) = Total(moves) + size
           /\ moves # <<>> =>
                /\ Total(Tail(moves)) = Total(moves) - Head(moves)
                /\ Total(SubSeq(moves, 1, Len(moves) - 1)) = Total(moves) - moves[Len(moves)]
                /\ Head(moves) <= Total(moves) /\ moves[Len(moves)] <= Total(moves)
<1> DEFINE n == Len(moves)
<1>1. n \in Nat /\ \A i \in 1 .. n : moves[i] \in Nat
  OBVIOUS
<1>2. PICK f \in [0 .. n -> Nat] :
         /\ f[0] = 0 /\ f[n] = Total(moves)
         /\ \A i \in 1 .. n : f[i] = f[i - 1] + moves[i]
  BY TotalSteps
<1>3. Total(moves) \in Nat
  BY <1>1, <1>2
<1>4. Total(Append(moves, size)) = Total(moves) + size
  <2> DEFINE longer == Append(moves, size)
             g == [i \in 0 .. n + 1 |-> IF i = n + 1 THEN f[n] + size ELSE f[i]]
  <2>1. /\ longer \in Seq(Nat) /\ Len(longer) = n + 1 /\ longer[n + 1] = size
        /\ \A i \in 1 .. n : longer[i] = moves[i]
    OBVIOUS
  <2> HIDE DEF longer
  <2>2. g[0] = 0 /\ g[n + 1] = f[n] + size
    BY <1>1, <1>2
  <2>3. \A i \in 1 .. n + 1 : g[i] = g[i - 1] + longer[i]
    <3> TAKE i \in 1 .. n + 1
    <3>1. CASE i = n + 1
      BY <1>1, <2>1, <3>1
    <3>2. CASE i # n + 1
      <4>1. i \in 1 .. n /\ g[i] = f[i] /\ g[i - 1] = f[i - 1]
        BY <1>1, <3>2
      <4>2. QED
        BY <1>2, <2>1, <4>1
    <3>3. QED
      BY <3>1, <3>2
  <2> HIDE DEF g
  <2>4. g[Len(longer)] = Total(longer)
    BY <2>1, <2>2, <2>3, TotalIs
  <2>5. QED
    BY <1>2, <2>1, <2>2, <2>4 DEF longer
<1>5. ASSUME moves # <<>>
      PROVE  Total(Tail(moves)) = Total(moves) - Head(moves)
  <2> DEFINE rest == Tail(moves)
             g == [i \in 0 .. n - 1 |-> f[i + 1] - f[1]]
  <2>1. /\ rest \in Seq(Nat) /\ Len(rest) = n - 1 /\ n \in Nat \ {0}
        /\ \A i \in 1 .. n - 1 : rest[i] = moves[i + 1]
        /\ Head(moves) = moves[1]
    BY <1>5
  <2> HIDE DEF rest
  <2>2. f[1] = moves[1]
    BY <1>1, <1>2, <2>1
  <2>3. g[0] = 0 /\ g[n - 1] = f[n] - f[1]
    BY <1>1, <1>2, <2>1
  <2>4. \A i \in 1 .. n - 1 : g[i] = g[i - 1] + rest[i]
    <3> TAKE i \in 1 .. n - 1
    <3>1. /\ g[i] = f[i + 1] - f[1] /\ g[i - 1] = f[i] - f[1]
          /\ i + 1 \in 1 .. n /\ (i + 1) - 1 = i /\ rest[i] = moves[i + 1]
      BY <1>1, <2>1
    <3>2. f[i + 1] = f[i] + moves[i + 1]
      BY <1>2, <3>1
    <3>3. f[1] \in Nat /\ f[i] \in Nat /\ moves[i + 1] \in Nat
      <4>1. 1 \in 0 .. n /\ i \in 0 .. n
        BY <1>1, <2>1
      <4>2. QED
        BY <1>1, <1>2, <3>1, <4>1
    <3>4. QED
      BY <3>1, <3>2, <3>3
  <2> HIDE DEF g
  <2>5. g[Len(rest)] = Total(rest)
    BY <2>1, <2>3, <2>4, TotalIs
  <2>6. QED
    BY <1>2, <2>1, <2>2, <2>3, <2>5 DEF rest
<1>6. ASSUME moves # <<>>
      PROVE  Total(SubSeq(moves, 1, n - 1)) = Total(moves) - moves[n]
  <2> DEFINE rest == SubSeq(moves, 1, n - 1)
  <2>1. /\ rest \in Seq(Nat) /\ Len(rest) = n - 1 /\ n \in Nat \ {0}
        /\ \A i \in 1 .. n - 1 : rest[i] = moves[i]
    <3>1. n \in Nat \ {0} /\ n - 1 \in 0 .. n
      BY <1>1, <1>6
    <3>2. QED
      BY <3>1, FrontPart
  <2> HIDE DEF rest
  <2>2. \A i \in 1 .. n - 1 : f[i] = f[i - 1] + rest[i]
    <3> TAKE i \in 1 .. n - 1
    <3>1. i \in 1 .. n
      BY <2>1
    <3>2. f[i] = f[i - 1] + moves[i] /\ rest[i] = moves[i]
      BY <1>2, <2>1, <3>1
    <3>3. QED
      BY <3>2
  <2>3. f[n - 1] = Total(rest)
    BY <1>2, <2>1, <2>2, TotalIs
  <2>4. f[n] = f[n - 1] + moves[n] /\ f[n - 1] \in Nat /\ moves[n] \in Nat
    BY <1>1, <1>2, <2>1, SMTT(20)
  <2>5. QED
    BY <1>2, <2>3, <2>4 DEF rest
<1>7. ASSUME moves # <<>>
      PROVE  Head(moves) <= Total(moves) /\ moves[n] <= Total(moves)
  <2>1. Tail(moves) \in Seq(Nat) /\ SubSeq(moves, 1, n - 1) \in Seq(Nat)
        /\ Head(moves) \in Nat /\ moves[n] \in Nat
    BY <1>1, <1>7
  <2>2. \A m \in Seq(Nat) : Total(m) \in Nat
    <3> TAKE m \in Seq(Nat)
    <3>1. PICK h \in [0 .. Len(m) -> Nat] : h[Len(m)] = Total(m)
      BY TotalSteps
    <3>2. Len(m) \in 0 .. Len(m)
      OBVIOUS
    <3>3. QED
      BY <3>1, <3>2
  <2>3. Total(Tail(moves)) \in Nat /\ Total(SubSeq(moves, 1, n - 1)) \in Nat
    BY <2>1, <2>2
  <2>4. QED
    BY <1>3, <1>5, <1>6, <1>7, <2>1, <2>3
<1>8. QED
  BY <1>3, <1>4, <1>5, <1>6, <1>7
-------------------------------------------------------------------------------
(* Puzzles.                                                                *)

Grids == [Cells -> 0 .. Side]

LEMMA Sizes ==
    /\ Side \in Nat \ {0} /\ Side * Side \in Nat \ {0}
    /\ MaxMistakes \in Nat \ {0} /\ MaxMoves \in Nat \ {0}
    /\ IsFiniteSet(Cells) /\ Cardinality(Cells) = Side * Side
<1>1. Side \in Nat \ {0} /\ MaxMistakes \in Nat \ {0} /\ MaxMoves \in Nat \ {0}
  BY GameAssumption
<1>2. Side * Side \in Nat \ {0}
  BY <1>1
<1>3. IsFiniteSet(Cells) /\ Cardinality(Cells) = Side * Side
  BY <1>2, FS_Interval, SMTT(20) DEF Cells
<1>4. QED
  BY <1>1, <1>2, <1>3

(* A generated puzzle is a solution and clues of it that have no other     *)
(* solution and none of which can go.                                      *)
LEMMA PuzzleFacts ==
    ASSUME NEW puzzle \in Puzzles
    PROVE  /\ Clues(BoardTables, puzzle.givens, puzzle.solution)
           /\ Minimal(BoardTables, puzzle.givens)
<1>1. Shaped(Side, Boxes)
  BY GameAssumption DEF Shaped, Cells
<1>2. PICK solution \in SolutionsMet, order \in OrdersMet :
         puzzle = [givens |-> Minimized(BoardTables, solution, order), solution |-> solution]
  BY DEF Puzzles, Generated
<1>3. Solutions(BoardTables) = Valid(BoardTables) /\ BoardTables.cells = Cells
  BY <1>1, SolutionsAreValid DEF BoardTables, Tables, Cells
<1>4. /\ solution \in Valid(BoardTables) /\ order \in Seq(BoardTables.cells)
      /\ \A c \in BoardTables.cells : \E i \in 1 .. Len(order) : order[i] = c
  BY <1>3, GameAssumption
<1>5. /\ Clues(BoardTables, Minimized(BoardTables, solution, order), solution)
      /\ Minimal(BoardTables, Minimized(BoardTables, solution, order))
  BY <1>1, <1>4, MinimizedIsMinimal DEF BoardTables
<1>6. puzzle.givens = Minimized(BoardTables, solution, order) /\ puzzle.solution = solution
  BY <1>2
<1>7. QED
  BY <1>5, <1>6

LEMMA PuzzlesTyped ==
    ASSUME NEW puzzle \in Puzzles
    PROVE  /\ puzzle \in [givens : Grids, solution : [Cells -> Digits]]
           /\ ValidPuzzle(puzzle)
<1>1. /\ puzzle.solution \in Valid(BoardTables) /\ puzzle.givens \in [BoardTables.cells -> 0 .. BoardTables.side]
      /\ \A c \in BoardTables.cells : puzzle.givens[c] \in {0, puzzle.solution[c]}
      /\ CountSolutions(BoardTables, puzzle.givens, 2) = 1
  BY PuzzleFacts DEF Clues, Minimal
<1>2. /\ BoardTables.cells = Cells /\ BoardTables.digits = Digits /\ BoardTables.side = Side
      /\ BoardTables.units = Units
  BY DEF BoardTables, Tables, Cells, Digits, Units
<1>3. puzzle.solution \in [Cells -> Digits] /\ puzzle.givens \in Grids
  BY <1>1, <1>2 DEF Valid, Grids
<1>4. \A unit \in Units : {puzzle.solution[c] : c \in unit} = Digits
  <2>1. Shaped(Side, Boxes)
    BY GameAssumption DEF Shaped, Cells
  <2>2. QED
    BY <1>1, <2>1, SolutionsAreValid DEF BoardTables, Units, Digits
<1>5. ValidPuzzle(puzzle)
  BY <1>1, <1>2, <1>4 DEF ValidPuzzle
<1>6. puzzle = [givens |-> puzzle.givens, solution |-> puzzle.solution]
  BY DEF Puzzles, Generated
<1>7. QED
  BY <1>3, <1>5, <1>6
-------------------------------------------------------------------------------
(* The cells of a set in their order.                                      *)

LEMMA InOrderFacts ==
    ASSUME NEW S \in SUBSET Cells
    PROVE  /\ IsFiniteSet(S) /\ Cardinality(S) \in Nat
           /\ InOrder(S) \in [1 .. Cardinality(S) -> S]
           /\ \A i, j \in 1 .. Cardinality(S) : InOrder(S)[i] = InOrder(S)[j] => i = j
           /\ \A c \in S : \E i \in 1 .. Cardinality(S) : InOrder(S)[i] = c
<1> DEFINE n == Cardinality(S)
           Lower(c) == {d \in S : d < c}
           rank == [c \in S |-> Cardinality(Lower(c))]
<1>1. IsFiniteSet(S) /\ n \in Nat /\ \A c \in S : c \in Nat
  <2>1. IsFiniteSet(S)
    BY Sizes, FS_Subset
  <2>2. n \in Nat
    BY <2>1, FS_CardinalityType
  <2>3. \A c \in S : c \in Nat
    BY DEF Cells
  <2>4. QED
    BY <2>1, <2>2, <2>3
<1>2. ASSUME NEW c \in S
      PROVE  /\ IsFiniteSet(Lower(c)) /\ Cardinality(Lower(c)) \in 0 .. n - 1
  <2>1. Lower(c) \in SUBSET (S \ {c}) /\ c \in S
    BY <1>1
  <2>2. IsFiniteSet(S \ {c}) /\ Cardinality(S \ {c}) = n - 1
    BY <1>1, FS_RemoveElement
  <2> HIDE DEF Lower
  <2>3. IsFiniteSet(Lower(c)) /\ Cardinality(Lower(c)) <= n - 1
    BY <2>1, <2>2, FS_Subset
  <2>4. Cardinality(Lower(c)) \in Nat
    BY <2>3, FS_CardinalityType
  <2>5. QED
    BY <1>1, <2>3, <2>4
<1>3. ASSUME NEW c \in S, NEW d \in S, c < d
      PROVE  Cardinality(Lower(c)) < Cardinality(Lower(d))
  <2>1. Lower(c) \in SUBSET Lower(d) /\ c \in Lower(d) /\ c \notin Lower(c)
    BY <1>1, <1>3
  <2>2. IsFiniteSet(Lower(c)) /\ IsFiniteSet(Lower(d))
        /\ Cardinality(Lower(c)) \in Nat /\ Cardinality(Lower(d)) \in Nat
    BY <1>1, <1>2
  <2> HIDE DEF Lower
  <2>3. Cardinality(Lower(c)) <= Cardinality(Lower(d)) /\ Cardinality(Lower(c)) # Cardinality(Lower(d))
    BY <2>1, <2>2, FS_Subset
  <2>4. QED
    BY <2>2, <2>3
<1> HIDE DEF Lower
<1>4. \A c, d \in S : Cardinality(Lower(c)) = Cardinality(Lower(d)) => c = d
  <2> TAKE c, d \in S
  <2>1. c \in Nat /\ d \in Nat /\ Cardinality(Lower(c)) \in Int /\ Cardinality(Lower(d)) \in Int
    BY <1>1, <1>2
  <2>2. c < d => Cardinality(Lower(c)) < Cardinality(Lower(d))
    BY <1>3
  <2>3. d < c => Cardinality(Lower(d)) < Cardinality(Lower(c))
    BY <1>3
  <2>4. QED
    BY <2>1, <2>2, <2>3
<1>5. rank \in Injection(S, 0 .. n - 1)
  BY <1>2, <1>4 DEF Injection, IsInjective
<1>6. IsFiniteSet(0 .. n - 1) /\ Cardinality(0 .. n - 1) = n
  BY <1>1, FS_Interval
<1>7. rank \in Surjection(S, 0 .. n - 1)
  <2> HIDE DEF rank
  <2>1. QED
    BY <1>5, <1>6, FS_Injection
<1>8. \A k \in 0 .. n - 1 : \E c \in S : Cardinality(Lower(c)) = k
  BY <1>7 DEF Surjection
<1>9. InOrder(S) = [i \in 1 .. n |-> CHOOSE c \in S : Cardinality(Lower(c)) = i - 1]
  BY DEF InOrder, Lower
<1>10. \A i \in 1 .. n : InOrder(S)[i] \in S /\ Cardinality(Lower(InOrder(S)[i])) = i - 1
  <2> TAKE i \in 1 .. n
  <2>1. i - 1 \in 0 .. n - 1
    BY <1>1
  <2>2. \E c \in S : Cardinality(Lower(c)) = i - 1
    BY <1>8, <2>1
  <2>3. QED
    BY <1>9, <2>2
<1>11. \A i, j \in 1 .. n : InOrder(S)[i] = InOrder(S)[j] => i = j
  BY <1>1, <1>10
<1>12. ASSUME NEW c \in S PROVE \E i \in 1 .. n : InOrder(S)[i] = c
  <2> DEFINE i == Cardinality(Lower(c)) + 1
  <2>1. i \in 1 .. n /\ i - 1 = Cardinality(Lower(c))
    BY <1>1, <1>2
  <2> HIDE DEF i
  <2>2. InOrder(S)[i] = c
    BY <1>4, <1>10, <2>1
  <2>3. QED
    BY <2>1, <2>2
<1>13. InOrder(S) \in [1 .. n -> S]
  BY <1>9, <1>10
<1>14. QED
  BY <1>1, <1>11, <1>12, <1>13
-------------------------------------------------------------------------------
(* Undoing.                                                                *)

(* The boards that a game of this puzzle may show, and the changes that a  *)
(* move of it may have recorded.                                           *)
Clean(puzzle) ==
    {board \in [values : Grids, notes : [Cells -> SUBSET Digits]] :
        /\ \A c \in Cells : board.values[c] # 0 => board.notes[c] = {}
        /\ \A c \in Cells : puzzle.givens[c] \in {0, board.values[c]}}
Recordable(puzzle) ==
    {change \in Change : /\ change.value # 0 => change.notes = {}
                         /\ puzzle.givens[change.cell] = 0}

Reverted(board, change) ==
    [board EXCEPT !.values[change.cell] = change.value, !.notes[change.cell] = change.notes]

Agree(a, b, c) == a.values[c] = b.values[c] /\ a.notes[c] = b.notes[c]

LEMMA RevertedClean ==
    ASSUME NEW puzzle \in Puzzles, NEW board \in Clean(puzzle), NEW change \in Recordable(puzzle)
    PROVE  /\ Reverted(board, change) \in Clean(puzzle)
           /\ \A c \in Cells : IF c = change.cell
                THEN /\ Reverted(board, change).values[c] = change.value
                     /\ Reverted(board, change).notes[c] = change.notes
                ELSE Agree(Reverted(board, change), board, c)
<1>1. /\ board \in [values : Grids, notes : [Cells -> SUBSET Digits]]
      /\ change.cell \in Cells /\ change.value \in 0 .. Side /\ change.notes \in SUBSET Digits
  BY DEF Clean, Recordable, Change
<1>2. Reverted(board, change) =
        [values |-> [board.values EXCEPT ![change.cell] = change.value],
         notes |-> [board.notes EXCEPT ![change.cell] = change.notes]]
  <2> DEFINE v == [board.values EXCEPT ![change.cell] = change.value]
             b == [board EXCEPT !.values[change.cell] = change.value]
  <2>1. b = [board EXCEPT !.values = v]
    BY <1>1
  <2>2. b \in [values : {v}, notes : [Cells -> SUBSET Digits]] /\ b.notes = board.notes
    BY <1>1, <2>1
  <2>3. Reverted(board, change) = [b EXCEPT !.notes[change.cell] = change.notes]
    BY <1>1 DEF Reverted
  <2> HIDE DEF b
  <2>4. [b EXCEPT !.notes[change.cell] = change.notes]
          = [b EXCEPT !.notes = [b.notes EXCEPT ![change.cell] = change.notes]]
    BY <2>2
  <2>5. QED
    BY <2>2, <2>3, <2>4
<1>3. Reverted(board, change) \in [values : Grids, notes : [Cells -> SUBSET Digits]]
  BY <1>1, <1>2 DEF Grids
<1>4. ASSUME NEW c \in Cells
      PROVE  /\ Reverted(board, change).values[c] # 0 => Reverted(board, change).notes[c] = {}
             /\ puzzle.givens[c] \in {0, Reverted(board, change).values[c]}
  BY <1>1, <1>2 DEF Clean, Recordable, Grids
<1>5. ASSUME NEW c \in Cells
      PROVE  IF c = change.cell
                THEN /\ Reverted(board, change).values[c] = change.value
                     /\ Reverted(board, change).notes[c] = change.notes
                ELSE Agree(Reverted(board, change), board, c)
  BY <1>1, <1>2 DEF Agree, Grids
<1>6. QED
  BY <1>3, <1>4, <1>5 DEF Clean

LEMMA SameBoard ==
    ASSUME NEW puzzle, NEW a \in Clean(puzzle), NEW b \in Clean(puzzle), \A c \in Cells : Agree(a, b, c)
    PROVE  a = b
<1>1. /\ a \in [values : Grids, notes : [Cells -> SUBSET Digits]]
      /\ b \in [values : Grids, notes : [Cells -> SUBSET Digits]]
  BY DEF Clean
<1>2. a.values = b.values
  BY <1>1 DEF Grids, Agree
<1>3. a.notes = b.notes
  <2>1. a.notes \in [Cells -> SUBSET Digits] /\ b.notes \in [Cells -> SUBSET Digits]
    BY <1>1
  <2>2. \A c \in Cells : a.notes[c] = b.notes[c]
    BY DEF Agree
  <2>3. QED
    BY <2>1, <2>2
<1>4. QED
  BY <1>1, <1>2, <1>3

(* The boards that lead back, one change at a time from the last.          *)
LEMMA RestoredSteps ==
    ASSUME NEW puzzle \in Puzzles, NEW board \in Clean(puzzle), NEW changed \in Seq(Recordable(puzzle))
    PROVE  \E back \in [1 .. Len(changed) + 1 -> Clean(puzzle)] :
              /\ back[Len(changed) + 1] = board /\ back[1] = Restored(board, changed)
              /\ \A i \in 1 .. Len(changed) : back[i] = Reverted(back[i + 1], changed[i])
<1> DEFINE n == Len(changed)
           S == Clean(puzzle)
           step == [i \in 1 .. n |-> [b \in S |-> Reverted(b, changed[n + 1 - i])]]
<1>1. n \in Nat /\ \A i \in 1 .. n : changed[i] \in Recordable(puzzle)
  OBVIOUS
<1>2. \A i \in 1 .. n : \A b \in S : Reverted(b, changed[n + 1 - i]) \in S
  <2> TAKE i \in 1 .. n
  <2> TAKE b \in S
  <2>1. n + 1 - i \in 1 .. n
    BY <1>1
  <2>2. QED
    BY <1>1, <2>1, RevertedClean
<1> HIDE DEF S
<1>3. step \in [1 .. n -> [S -> S]]
  BY <1>2
<1>4. PICK f \in [0 .. n -> S] : Steps(f, n, board, step)
  <2> HIDE DEF step
  <2>1. QED
    BY <1>1, <1>3, StepsExist DEF S
<1>5. \A i \in 1 .. n : f[i - 1] \in S /\ f[i] = Reverted(f[i - 1], changed[n + 1 - i])
  <2> TAKE i \in 1 .. n
  <2>1. i - 1 \in 0 .. n
    BY <1>1
  <2>2. f[i - 1] \in S
    BY <1>4, <2>1
  <2>3. f[i] = step[i][f[i - 1]]
    <3> HIDE DEF step
    <3>1. QED
      BY <1>4 DEF Steps
  <2>4. QED
    BY <2>2, <2>3
<1> HIDE DEF step
<1> DEFINE g == [i \in 1 .. n + 1 |-> f[n + 1 - i]]
<1>6. g \in [1 .. n + 1 -> S]
  BY <1>1, <1>4
<1>7. g[n + 1] = board
  BY <1>1, <1>4 DEF Steps
<1>8. \A i \in 1 .. n : g[i] = Reverted(g[i + 1], changed[i])
  <2> TAKE i \in 1 .. n
  <2>1. /\ n + 1 - i \in 1 .. n /\ n + 1 - (n + 1 - i) = i /\ (n + 1 - i) - 1 = n + 1 - (i + 1)
        /\ i + 1 \in 1 .. n + 1 /\ i \in 1 .. n + 1
    BY <1>1
  <2>2. f[n + 1 - i] = Reverted(f[n + 1 - (i + 1)], changed[i])
    BY <1>5, <2>1
  <2>3. QED
    BY <2>1, <2>2
<1> HIDE DEF g
<1> DEFINE back == CHOOSE back : back = [i \in 1 .. n + 1 |->
                      IF i > n THEN board ELSE Reverted(back[i + 1], changed[i])]
<1>9. g = [i \in 1 .. n + 1 |-> IF i > n THEN board ELSE Reverted(g[i + 1], changed[i])]
  <2>1. \A i \in 1 .. n + 1 : g[i] = IF i > n THEN board ELSE Reverted(g[i + 1], changed[i])
    BY <1>1, <1>7, <1>8
  <2>2. QED
    BY <1>6, <2>1
<1>10. back = [i \in 1 .. n + 1 |-> IF i > n THEN board ELSE Reverted(back[i + 1], changed[i])]
  BY <1>9
<1>11. Restored(board, changed) = back[1]
  BY DEF Restored, Reverted
<1> HIDE DEF back
<1>12. \A i \in 1 .. n + 1 : back[i] = IF i > n THEN board ELSE Reverted(back[i + 1], changed[i])
  BY <1>10
<1> DEFINE T == {k \in 0 .. n : back[n + 1 - k] # g[n + 1 - k]}
<1>13. T = {}
  <2>1. SUFFICES ASSUME T # {} PROVE FALSE
    OBVIOUS
  <2>2. T \subseteq Nat
    BY DEF T
  <2> HIDE DEF T
  <2>3. PICK k \in T : \A j \in T : k <= j
    BY <2>1, <2>2, Least
  <2> USE DEF T
  <2>4. k # 0
    BY <1>1, <1>7, <1>12
  <2>9. k \in 0 .. n
    OBVIOUS
  <2>10. k - 1 \notin T
    <3> HIDE DEF T
    <3>1. QED
      BY <1>1, <2>3, <2>9
  <2>5. /\ k - 1 \in 0 .. n /\ k - 1 \notin T
        /\ n + 1 - k \in 1 .. n /\ n + 1 - (k - 1) = (n + 1 - k) + 1
    <3> HIDE DEF T
    <3>1. QED
      BY <1>1, <2>4, <2>9, <2>10
  <2>6. back[(n + 1 - k) + 1] = g[(n + 1 - k) + 1]
    BY <2>5
  <2>7. back[n + 1 - k] = Reverted(back[(n + 1 - k) + 1], changed[n + 1 - k])
    BY <1>1, <1>12, <2>5
  <2>8. QED
    BY <1>8, <2>5, <2>6, <2>7
<1>14. back[1] = g[1]
  <2>1. n \in 0 .. n /\ n + 1 - n = 1
    BY <1>1
  <2>2. QED
    BY <1>13, <2>1
<1>15. QED
  BY <1>6, <1>7, <1>8, <1>11, <1>14 DEF S

(* Changes that hold a board's cells lead back to it from any board that   *)
(* is the same elsewhere.                                                  *)
Holds(changed, target) ==
    \A i \in 1 .. Len(changed) : /\ changed[i].value = target.values[changed[i].cell]
                                 /\ changed[i].notes = target.notes[changed[i].cell]
AgreeElsewhere(board, target, changed) ==
    \A c \in Cells : Agree(board, target, c) \/ \E i \in 1 .. Len(changed) : changed[i].cell = c

LEMMA RestoredTo ==
    ASSUME NEW puzzle \in Puzzles, NEW board \in Clean(puzzle), NEW target \in Clean(puzzle),
           NEW changed \in Seq(Recordable(puzzle)), Holds(changed, target),
           AgreeElsewhere(board, target, changed)
    PROVE  Restored(board, changed) = target
<1> USE DEF Holds, AgreeElsewhere
<1> DEFINE n == Len(changed)
           Backed(j, c) == Agree(board, target, c) \/ \E i \in j .. n : changed[i].cell = c
<1>1. n \in Nat /\ \A i \in 1 .. n : changed[i] \in Recordable(puzzle)
  OBVIOUS
<1>2. PICK back \in [1 .. n + 1 -> Clean(puzzle)] :
         /\ back[n + 1] = board /\ back[1] = Restored(board, changed)
         /\ \A i \in 1 .. n : back[i] = Reverted(back[i + 1], changed[i])
  BY RestoredSteps
<1> DEFINE T == {k \in 0 .. n : ~ \A c \in Cells : Backed(n + 1 - k, c) => Agree(back[n + 1 - k], target, c)}
<1>3. T = {}
  <2>1. SUFFICES ASSUME T # {} PROVE FALSE
    OBVIOUS
  <2>2. T \subseteq Nat
    BY DEF T
  <2> HIDE DEF T
  <2>3. PICK k \in T : \A j \in T : k <= j
    BY <2>1, <2>2, Least
  <2>4. PICK c \in Cells : Backed(n + 1 - k, c) /\ ~Agree(back[n + 1 - k], target, c)
    BY <2>3 DEF T
  <2>5. k \in 0 .. n
    BY <2>3 DEF T
  <2>6. k # 0
    BY <1>1, <1>2, <2>4, <2>5
  <2> DEFINE j == n + 1 - k
  <2>7. k - 1 \in 0 .. n /\ k - 1 \notin T /\ j \in 1 .. n /\ n + 1 - (k - 1) = j + 1 /\ j + 1 \in 1 .. n + 1
    BY <1>1, <2>3, <2>5, <2>6
  <2>8. Backed(j + 1, c) => Agree(back[j + 1], target, c)
    BY <2>7 DEF T
  <2>9. Backed(j, c) => Backed(j + 1, c) \/ changed[j].cell = c
    <3>1. \A i \in j .. n : i = j \/ i \in j + 1 .. n
      BY <1>1, <2>7
    <3>2. QED
      BY <3>1
  <2> HIDE DEF Backed, j
  <2>10. back[j] = Reverted(back[j + 1], changed[j]) /\ back[j + 1] \in Clean(puzzle)
         /\ changed[j] \in Recordable(puzzle)
    BY <1>1, <1>2, <2>7
  <2>11. IF c = changed[j].cell
           THEN back[j].values[c] = changed[j].value /\ back[j].notes[c] = changed[j].notes
           ELSE Agree(back[j], back[j + 1], c)
    BY <2>10, RevertedClean, SMTT(20)
  <2>12. Agree(back[j], target, c)
    <3>1. CASE c = changed[j].cell
      BY <2>7, <2>11, <3>1 DEF Agree
    <3>2. CASE c # changed[j].cell
      BY <2>4, <2>8, <2>9, <2>11, <3>2 DEF Agree, j
    <3>3. QED
      BY <3>1, <3>2
  <2>13. QED
    BY <2>4, <2>12 DEF j
<1>4. back[1] \in Clean(puzzle)
  <2>1. 1 \in 1 .. n + 1
    BY <1>1
  <2>2. QED
    BY <1>2, <2>1
<1>5. \A c \in Cells : Agree(back[1], target, c)
  <2>1. n \in 0 .. n /\ n + 1 - n = 1 /\ n \notin T
    BY <1>1, <1>3
  <2>2. \A c \in Cells : Backed(1, c) => Agree(back[1], target, c)
    BY <2>1
  <2>3. QED
    BY <2>2
<1> HIDE DEF T, Backed
<1>6. back[1] = target
  BY <1>4, <1>5, SameBoard
<1>7. QED
  BY <1>2, <1>6
-------------------------------------------------------------------------------
(* Games that are kept.                                                    *)

Boardful == Side * Side
MoveSizes == 1 .. Boardful
Parts(g) ==
    /\ g \in Game /\ g.puzzle \in Puzzles
    /\ Board(g) \in Clean(g.puzzle)
    /\ g.changes \in Seq(Recordable(g.puzzle))
    /\ g.moves \in Seq(MoveSizes) /\ Len(g.moves) <= MaxMoves

LEMMA Members ==
    ASSUME NEW S, NEW T, NEW m \in Seq(S), \A i \in 1 .. Len(m) : m[i] \in T
    PROVE  m \in Seq(T)
<1>1. Len(m) \in Nat /\ m \in [1 .. Len(m) -> T]
  BY LenProperties
<1>2. QED
  BY <1>1, SeqDef

LEMMA Appended ==
    ASSUME NEW S, NEW m \in Seq(S), NEW x \in S
    PROVE  /\ Append(m, x) \in Seq(S) /\ Append(m, x) # <<>>
           /\ Len(Append(m, x)) = Len(m) + 1 /\ Append(m, x)[Len(m) + 1] = x
           /\ \A i \in 1 .. Len(m) : Append(m, x)[i] = m[i]
<1>1. QED
  BY AppendProperties

LEMMA BoardfulNat ==
    /\ Boardful \in Nat \ {0} /\ 1 \in MoveSizes /\ MoveSizes \subseteq Nat \ {0}
    /\ \A size : size \in MoveSizes <=> size \in Nat \ {0} /\ size <= Boardful
<1>1. Boardful \in Nat \ {0}
  BY Sizes DEF Boardful
<1>2. QED
  BY <1>1 DEF MoveSizes

LEMMA TotalBound ==
    ASSUME NEW moves \in Seq(MoveSizes)
    PROVE  /\ moves \in Seq(Nat) /\ Total(moves) \in Nat
           /\ Total(moves) <= Len(moves) * Boardful
<1> DEFINE n == Len(moves)
<1>1. Boardful \in Nat /\ n \in Nat /\ \A i \in 1 .. n : moves[i] \in MoveSizes
  BY BoardfulNat
<1>2. moves \in Seq(Nat)
  <2>1. \A i \in 1 .. Len(moves) : moves[i] \in Nat
    BY <1>1, BoardfulNat
  <2>2. QED
    BY <2>1, Members
<1>3. PICK f \in [0 .. n -> Nat] :
         /\ f[0] = 0 /\ f[n] = Total(moves)
         /\ \A i \in 1 .. n : f[i] = f[i - 1] + moves[i]
  BY <1>2, TotalSteps
<1> DEFINE T == {k \in 0 .. n : ~(f[k] <= k * Boardful)}
<1>4. T = {}
  <2>1. SUFFICES ASSUME T # {} PROVE FALSE
    OBVIOUS
  <2>2. T \subseteq Nat
    BY DEF T
  <2> HIDE DEF T
  <2>3. PICK k \in T : \A j \in T : k <= j
    BY <2>1, <2>2, Least
  <2>4. k \in 0 .. n /\ ~(f[k] <= k * Boardful)
    BY DEF T
  <2>5. k # 0
    BY <1>1, <1>3, <2>4
  <2>6. k - 1 \in 0 .. n /\ k - 1 \notin T /\ k \in 1 .. n
    BY <1>1, <2>3, <2>4, <2>5
  <2>7. f[k - 1] <= (k - 1) * Boardful
    BY <2>6 DEF T
  <2>8. f[k] = f[k - 1] + moves[k] /\ moves[k] <= Boardful /\ f[k - 1] \in Nat /\ moves[k] \in Nat
    <3>1. f[k - 1] \in Nat
      BY <1>3, <2>6
    <3>2. moves[k] \in MoveSizes
      BY <1>1, <2>6
    <3>3. f[k] = f[k - 1] + moves[k]
      BY <1>3, <2>6
    <3>4. QED
      BY <1>1, <3>1, <3>2, <3>3
  <2>9. (k - 1) * Boardful + Boardful = k * Boardful /\ (k - 1) * Boardful \in Int
    BY <1>1, <2>4
  <2>10. QED
    BY <1>1, <2>4, <2>7, <2>8, <2>9
<1>5. QED
  BY <1>1, <1>2, <1>3, <1>4

LEMMA KeptParts ==
    ASSUME NEW g
    PROVE  Kept(g) <=> Parts(g) /\ Len(g.changes) = Total(g.moves)
<1>1. ASSUME Kept(g) PROVE Parts(g) /\ Len(g.changes) = Total(g.moves)
  <2>1. g \in Game /\ g.puzzle \in Puzzles /\ Len(g.moves) <= MaxMoves /\ Len(g.changes) = Total(g.moves)
    BY <1>1 DEF Kept, Loadable
  <2>2. Board(g) \in Clean(g.puzzle)
    BY <1>1, <2>1 DEF Kept, Loadable, Board, Clean, Game, Grids
  <2>3. g.changes \in Seq(Recordable(g.puzzle))
    <3>1. g.changes \in Seq(Change)
      BY <2>1 DEF Game
    <3>2. \A i \in 1 .. Len(g.changes) : g.changes[i] \in Recordable(g.puzzle)
      BY <1>1, <3>1 DEF Kept, Loadable, Recordable
    <3>3. QED
      BY <3>1, <3>2
  <2>4. g.moves \in Seq(MoveSizes)
    <3>1. g.moves \in Seq(Nat \ {0})
      BY <2>1 DEF Game
    <3>2. \A i \in 1 .. Len(g.moves) : g.moves[i] \in MoveSizes
      <4> TAKE i \in 1 .. Len(g.moves)
      <4>1. g.moves[i] \in Nat \ {0} /\ DOMAIN g.moves = 1 .. Len(g.moves)
        BY <3>1
      <4>2. g.moves[i] <= Boardful
        BY <1>1, <4>1 DEF Kept, Boardful
      <4>3. QED
        BY <4>1, <4>2, BoardfulNat
    <3>3. QED
      BY <3>1, <3>2, Members
  <2>5. QED
    BY <2>1, <2>2, <2>3, <2>4 DEF Parts
<1>2. ASSUME Parts(g), Len(g.changes) = Total(g.moves) PROVE Kept(g)
  <2>1. /\ g \in Game /\ g.puzzle \in Puzzles /\ ValidPuzzle(g.puzzle)
        /\ g.changes \in Seq(Recordable(g.puzzle)) /\ g.moves \in Seq(MoveSizes)
        /\ Len(g.moves) \in Nat /\ Len(g.moves) <= MaxMoves
    BY <1>2, PuzzlesTyped DEF Parts
  <2>2. \A i \in DOMAIN g.changes : /\ g.puzzle.givens[g.changes[i].cell] = 0
                                    /\ g.changes[i].value # 0 => g.changes[i].notes = {}
    BY <2>1 DEF Recordable
  <2>3. \A i \in DOMAIN g.moves : g.moves[i] > 0 /\ g.moves[i] <= Boardful
    <3> TAKE i \in DOMAIN g.moves
    <3>1. g.moves[i] \in MoveSizes
      BY <2>1
    <3>2. QED
      BY <3>1, BoardfulNat
  <2>4. Len(g.changes) <= (MaxMoves + 1) * Side * Side
    <3>1. Total(g.moves) <= Len(g.moves) * Boardful /\ Total(g.moves) \in Nat
      BY <2>1, TotalBound
    <3>2. \A a, b, c \in Nat : a <= b => a * c <= (b + 1) * c
      OBVIOUS
    <3>3. Boardful \in Nat /\ MaxMoves \in Nat
      BY Sizes, BoardfulNat
    <3>4. Len(g.moves) * Boardful <= (MaxMoves + 1) * Boardful
      BY <2>1, <3>2, <3>3
    <3>5. (MaxMoves + 1) * Side * Side = (MaxMoves + 1) * Boardful
      BY Sizes DEF Boardful
    <3>6. Len(g.moves) * Boardful \in Int /\ (MaxMoves + 1) * Boardful \in Int
      BY <2>1, <3>3
    <3>7. QED
      BY <1>2, <3>1, <3>4, <3>5, <3>6
  <2>5. g.mistakes <= MaxMistakes
    BY <2>1, Sizes DEF Game
  <2>6. /\ \A c \in Cells : g.puzzle.givens[c] \in {0, g.values[c]}
        /\ \A c \in Cells : g.values[c] # 0 => g.notes[c] = {}
    BY <1>2 DEF Parts, Clean, Board
  <2>7. Len(g.moves) <= MaxMoves + 1
    BY <2>1, Sizes
  <2>8. Loadable(g)
    BY <1>2, <2>1, <2>2, <2>3, <2>4, <2>5, <2>6, <2>7 DEF Loadable
  <2>9. QED
    BY <2>1, <2>2, <2>3, <2>6, <2>8 DEF Kept, Boardful
<1>3. QED
  BY <1>1, <1>2

(* finish_move() adds up again, also when it drops the oldest move.        *)
LEMMA FinishedKept ==
    ASSUME NEW g, Parts(g), NEW size \in MoveSizes, Len(g.changes) = Total(g.moves) + size
    PROVE  Kept(Finished(g, size))
<1> DEFINE moves == Append(g.moves, size)
           f == Finished(g, size)
<1>1. /\ g \in Game /\ g.puzzle \in Puzzles /\ Board(g) \in Clean(g.puzzle)
      /\ g.changes \in Seq(Recordable(g.puzzle)) /\ g.moves \in Seq(MoveSizes)
      /\ Len(g.moves) \in Nat /\ Len(g.moves) <= MaxMoves /\ Boardful \in Nat /\ MaxMoves \in Nat \ {0}
  BY Sizes, BoardfulNat DEF Parts
<1>2. /\ moves \in Seq(MoveSizes) /\ Len(moves) = Len(g.moves) + 1 /\ moves # <<>>
      /\ moves \in Seq(Nat) /\ Len(g.changes) \in Nat
  <2>1. moves \in Seq(MoveSizes) /\ Len(moves) = Len(g.moves) + 1 /\ moves # <<>>
    BY <1>1, Appended
  <2>2. moves \in Seq(Nat)
    BY <2>1, TotalBound
  <2>3. Len(g.changes) \in Nat
    BY <1>1
  <2>4. QED
    BY <2>1, <2>2, <2>3
<1>3. Total(moves) = Len(g.changes)
  <2>1. g.moves \in Seq(Nat) /\ size \in Nat
    BY <1>1, TotalBound, BoardfulNat
  <2>2. Total(moves) = Total(g.moves) + size
    BY <2>1, TotalFacts
  <2>3. QED
    BY <2>2
<1>4. g.puzzle \in [givens : Grids, solution : [Cells -> Digits]]
  BY <1>1, PuzzlesTyped
<1> HIDE DEF moves
<1>5. CASE Len(moves) <= MaxMoves
  <2>1. f = [g EXCEPT !.moves = moves]
    BY <1>5 DEF Finished, moves
  <2>2. moves \in Seq(Nat \ {0})
    <3>1. \A i \in 1 .. Len(moves) : moves[i] \in Nat \ {0}
      <4> TAKE i \in 1 .. Len(moves)
      <4>1. moves[i] \in MoveSizes
        BY <1>2
      <4>2. QED
        BY <4>1, BoardfulNat
    <3>2. QED
      BY <1>2, <3>1, Members
  <2>3. /\ f \in Game /\ f.moves = moves /\ f.changes = g.changes /\ f.puzzle = g.puzzle
        /\ Board(f) = Board(g)
    BY <1>1, <2>1, <2>2 DEF Game, Board
  <2> HIDE DEF f
  <2>4. Parts(f) /\ Len(f.changes) = Total(f.moves)
    BY <1>1, <1>2, <1>3, <1>5, <2>3 DEF Parts
  <2>5. QED
    BY <2>4, KeptParts DEF f
<1>6. CASE ~(Len(moves) <= MaxMoves)
  <2> DEFINE rest == Tail(moves)
             changes == SubSeq(g.changes, Head(moves) + 1, Len(g.changes))
  <2>1. f = [g EXCEPT !.moves = rest, !.changes = changes]
    BY <1>6 DEF Finished, moves
  <2>2. /\ rest \in Seq(MoveSizes) /\ Len(rest) = Len(moves) - 1 /\ rest \in Seq(Nat \ {0})
        /\ Head(moves) \in MoveSizes
    <3>1. /\ rest \in Seq(MoveSizes) /\ Len(rest) = Len(moves) - 1
          /\ Head(moves) \in MoveSizes
      BY <1>2, HeadTailProperties
    <3>2. \A i \in 1 .. Len(rest) : rest[i] \in Nat \ {0}
      <4> HIDE DEF rest
      <4> TAKE i \in 1 .. Len(rest)
      <4>1. rest[i] \in MoveSizes
        BY <3>1
      <4>2. QED
        BY <4>1, BoardfulNat
    <3>3. rest \in Seq(Nat \ {0})
      <4> HIDE DEF rest
      <4>1. QED
        BY <3>1, <3>2, Members
    <3>4. QED
      BY <3>1, <3>3
  <2>3. Total(rest) = Total(moves) - Head(moves) /\ Head(moves) <= Total(moves) /\ Total(moves) \in Nat
    BY <1>2, TotalFacts, TotalBound
  <2>4. Head(moves) + 1 \in 1 .. Len(g.changes) + 1
    BY <1>3, <2>2, <2>3
  <2>5. changes \in Seq(Recordable(g.puzzle)) /\ Len(changes) = Len(g.changes) - (Head(moves) + 1) + 1
    BY <1>1, <2>4, BackPart
  <2>6. changes \in Seq(Change)
    BY <2>5 DEF Recordable
  <2> HIDE DEF rest, changes
  <2>7. /\ f \in Game /\ f.moves = rest /\ f.changes = changes /\ f.puzzle = g.puzzle
        /\ Board(f) = Board(g)
    BY <1>1, <2>1, <2>2, <2>6 DEF Game, Board
  <2> HIDE DEF f
  <2>8. Len(f.changes) = Total(f.moves)
    <3>1. Len(f.changes) = Len(g.changes) - (Head(moves) + 1) + 1 /\ Head(moves) \in Nat
      BY <2>2, <2>5, <2>7, BoardfulNat
    <3>2. Total(f.moves) = Len(g.changes) - Head(moves)
      BY <1>3, <2>3, <2>7
    <3>3. QED
      BY <1>2, <3>1, <3>2
  <2>9. Len(rest) <= MaxMoves
    BY <1>1, <1>2, <2>2
  <2>10. Parts(f)
    BY <1>1, <2>2, <2>5, <2>7, <2>9 DEF Parts
  <2>11. QED
    BY <2>8, <2>10, KeptParts DEF f
<1>7. QED
  BY <1>5, <1>6
-------------------------------------------------------------------------------
(* Moves.                                                                  *)

Unfinished(g, board, changed, mistakes) ==
    [g EXCEPT !.changes = @ \o changed, !.values = board.values, !.notes = board.notes,
              !.mistakes = mistakes]
Moved(g, board, changed, mistakes) == Finished(Unfinished(g, board, changed, mistakes), Len(changed))

(* A move to a clean board, whose changes lead back to g's; and h is g     *)
(* after one.                                                              *)
LeadsBack(g, board, changed, mistakes) ==
    /\ board \in Clean(g.puzzle) /\ changed \in Seq(Recordable(g.puzzle)) /\ mistakes \in 0 .. MaxMistakes
    /\ Len(changed) \in MoveSizes
    /\ Restored(board, changed) = Board(g)
IsMove(g, h) ==
    \E board, changed, mistakes :
        LeadsBack(g, board, changed, mistakes) /\ h = Moved(g, board, changed, mistakes)

LEMMA KeptFacts ==
    ASSUME NEW g, Kept(g)
    PROVE  /\ g \in Game /\ g.puzzle \in Puzzles /\ Board(g) \in Clean(g.puzzle)
           /\ g.values \in Grids /\ g.notes \in [Cells -> SUBSET Digits] /\ g.mistakes \in 0 .. MaxMistakes
           /\ g.changes \in Seq(Recordable(g.puzzle)) /\ g.moves \in Seq(MoveSizes)
           /\ Len(g.moves) \in 0 .. MaxMoves /\ Len(g.changes) = Total(g.moves)
           /\ g.puzzle.solution \in [Cells -> Digits] /\ g.puzzle.givens \in Grids
<1>1. Parts(g) /\ Len(g.changes) = Total(g.moves)
  BY KeptParts
<1>2. g \in Game /\ g.puzzle \in Puzzles /\ Board(g) \in Clean(g.puzzle)
      /\ g.changes \in Seq(Recordable(g.puzzle)) /\ g.moves \in Seq(MoveSizes)
  BY <1>1 DEF Parts
<1>3. g.puzzle.solution \in [Cells -> Digits] /\ g.puzzle.givens \in Grids
  BY <1>2, PuzzlesTyped
<1>4. g.values \in Grids /\ g.notes \in [Cells -> SUBSET Digits] /\ g.mistakes \in 0 .. MaxMistakes
  BY <1>2 DEF Game, Grids
<1>5. Len(g.moves) \in 0 .. MaxMoves
  BY <1>1, <1>2, Sizes DEF Parts
<1>6. QED
  BY <1>1, <1>2, <1>3, <1>4, <1>5

(* What a move makes of a game before finish_move().                       *)
LEMMA UnfinishedParts ==
    ASSUME NEW g, NEW board, NEW changed, NEW mistakes, NEW h,
           Kept(g), LeadsBack(g, board, changed, mistakes), h = Unfinished(g, board, changed, mistakes)
    PROVE  /\ Parts(h) /\ Board(h) = board /\ h.puzzle = g.puzzle /\ h.moves = g.moves
           /\ h.changes = g.changes \o changed /\ Len(h.changes) = Total(g.moves) + Len(changed)
<1> DEFINE changes == g.changes \o changed
<1>0. /\ board \in Clean(g.puzzle) /\ changed \in Seq(Recordable(g.puzzle)) /\ mistakes \in 0 .. MaxMistakes
      /\ g.changes \in Seq(Recordable(g.puzzle))
  BY KeptFacts DEF LeadsBack
<1>1. board \in [values : Grids, notes : [Cells -> SUBSET Digits]]
  BY <1>0 DEF Clean
<1>2. changes \in Seq(Recordable(g.puzzle)) /\ Len(changes) = Len(g.changes) + Len(changed)
  BY <1>0, ConcatProperties
<1>3. changes \in Seq(Change)
  BY <1>2, SeqMonotonic DEF Recordable
<1> HIDE DEF changes
<1>4. h = [g EXCEPT !.changes = changes, !.values = board.values, !.notes = board.notes,
                    !.mistakes = mistakes]
  BY KeptFacts DEF changes, Game, Unfinished
<1>5. g \in Game
  BY KeptFacts
<1>6. h \in Game
  BY <1>0, <1>1, <1>3, <1>4, <1>5 DEF Game, Grids
<1>7. /\ h.values = board.values /\ h.notes = board.notes /\ h.changes = changes
      /\ h.puzzle = g.puzzle /\ h.moves = g.moves
  BY <1>4, <1>5 DEF Game
<1>8. Board(h) = board
  BY <1>1, <1>7 DEF Board
<1>9. Parts(h)
  BY <1>0, <1>2, <1>6, <1>7, <1>8, KeptFacts DEF Parts
<1>10. QED
  BY <1>2, <1>7, <1>8, <1>9, KeptFacts DEF changes

LEMMA MoveKept ==
    ASSUME NEW g, NEW h, Kept(g), IsMove(g, h)
    PROVE  Kept(h)
<1>1. PICK board, changed, mistakes :
         LeadsBack(g, board, changed, mistakes) /\ h = Moved(g, board, changed, mistakes)
  BY DEF IsMove
<1> DEFINE u == Unfinished(g, board, changed, mistakes)
<1>2. Parts(u) /\ Len(u.changes) = Total(u.moves) + Len(changed)
  BY <1>1, UnfinishedParts
<1> HIDE DEF u
<1>3. Kept(Finished(u, Len(changed)))
  BY <1>1, <1>2, FinishedKept DEF LeadsBack
<1>4. QED
  BY <1>1, <1>3 DEF Moved, u

LEMMA RecordedFacts ==
    ASSUME NEW g, Kept(g), NEW c \in Cells, g.puzzle.givens[c] = 0
    PROVE  /\ Recorded(g, c) \in Recordable(g.puzzle)
           /\ Recorded(g, c).cell = c
           /\ Recorded(g, c).value = Board(g).values[c]
           /\ Recorded(g, c).notes = Board(g).notes[c]
<1>1. g.values[c] \in 0 .. Side /\ g.notes[c] \in SUBSET Digits
  BY KeptFacts DEF Grids
<1>2. g.values[c] # 0 => g.notes[c] = {}
  BY DEF Kept
<1>3. QED
  BY <1>1, <1>2 DEF Recorded, Recordable, Change, Board

LEMMA EditableFacts ==
    ASSUME NEW g, Kept(g), NEW c, Editable(g, c)
    PROVE  /\ c \in Cells /\ g.puzzle.givens[c] = 0
           /\ g.mistakes \in 0 .. MaxMistakes - 1
<1>1. c \in Cells /\ g.puzzle.givens[c] = 0 /\ Status(g) = "playing"
  BY DEF Editable
<1>2. ~(g.mistakes >= MaxMistakes)
  BY <1>1 DEF Status
<1>3. QED
  BY <1>1, <1>2, KeptFacts, Sizes

LEMMA PencilledMove ==
    ASSUME NEW g, Kept(g), NEW cell, Editable(g, cell), g.values[cell] = 0, NEW digit \in Digits
    PROVE  IsMove(g, Pencilled(g, cell, digit))
<1> DEFINE r == Recorded(g, cell)
           marks == IF digit \in g.notes[cell] THEN g.notes[cell] \ {digit} ELSE g.notes[cell] \cup {digit}
           board == [values |-> g.values, notes |-> [g.notes EXCEPT ![cell] = marks]]
           changed == <<r>>
<1>1. cell \in Cells /\ g.puzzle.givens[cell] = 0 /\ g \in Game /\ g.mistakes \in 0 .. MaxMistakes
  BY EditableFacts, KeptFacts
<1>2. r \in Recordable(g.puzzle) /\ r.cell = cell /\ r.value = Board(g).values[cell]
      /\ r.notes = Board(g).notes[cell]
  BY <1>1, RecordedFacts
<1>3. marks \in SUBSET Digits
  BY <1>1, KeptFacts
<1>4. board \in Clean(g.puzzle)
  <2>1. [g.notes EXCEPT ![cell] = marks] \in [Cells -> SUBSET Digits]
    BY <1>3, KeptFacts
  <2>2. \A c \in Cells : /\ g.values[c] # 0 => [g.notes EXCEPT ![cell] = marks][c] = {}
                         /\ g.puzzle.givens[c] \in {0, g.values[c]}
    BY KeptFacts DEF Kept, Loadable
  <2>3. QED
    BY <2>1, <2>2, KeptFacts DEF Clean
<1>5. \A c \in Cells : c # cell => Agree(board, Board(g), c)
  BY KeptFacts DEF Agree, Board
<1> HIDE DEF r, marks
<1>6. Pencilled(g, cell, digit)
        = Finished([g EXCEPT !.changes = Append(g.changes, r),
                             !.notes = [g.notes EXCEPT ![cell] = marks]], 1)
  <2>1. [g EXCEPT !.changes = Append(@, Recorded(g, cell)),
                  !.notes[cell] = IF digit \in @ THEN @ \ {digit} ELSE @ \cup {digit}]
          = [g EXCEPT !.changes = Append(g.changes, r), !.notes = [g.notes EXCEPT ![cell] = marks]]
    BY <1>1 DEF r, marks, Game
  <2>2. QED
    BY <2>1 DEF Pencilled
<1>7. g.changes \o changed = Append(g.changes, r) /\ changed \in Seq(Recordable(g.puzzle))
      /\ Len(changed) = 1 /\ changed[1] = r
  BY <1>2, KeptFacts, AppendIsConcat
<1> HIDE DEF changed
<1>8. [g EXCEPT !.changes = Append(g.changes, r), !.notes = [g.notes EXCEPT ![cell] = marks]]
        = [g EXCEPT !.changes = @ \o changed, !.values = board.values, !.notes = board.notes,
                    !.mistakes = g.mistakes]
  BY <1>1, <1>7 DEF Game
<1>9. Pencilled(g, cell, digit) = Moved(g, board, changed, g.mistakes)
  BY <1>6, <1>7, <1>8 DEF Moved, Unfinished
<1> HIDE DEF board
<1>10. Restored(board, changed) = Board(g)
  <2>1. g.puzzle \in Puzzles /\ Board(g) \in Clean(g.puzzle)
    BY KeptFacts
  <2>2. Holds(changed, Board(g))
    BY <1>2, <1>7 DEF Holds
  <2>3. AgreeElsewhere(board, Board(g), changed)
    BY <1>2, <1>5, <1>7 DEF AgreeElsewhere
  <2>4. QED
    BY <1>4, <1>7, <2>1, <2>2, <2>3, RestoredTo
<1>11. QED
  <2>1. LeadsBack(g, board, changed, g.mistakes)
    BY <1>1, <1>4, <1>7, <1>10, BoardfulNat DEF LeadsBack
  <2>2. QED
    BY <1>9, <2>1 DEF IsMove

LEMMA ErasedMove ==
    ASSUME NEW g, Kept(g), NEW cell, Editable(g, cell)
    PROVE  IsMove(g, Finished([g EXCEPT !.changes = Append(@, Recorded(g, cell)),
                                        !.values[cell] = 0, !.notes[cell] = {}], 1))
<1> DEFINE r == Recorded(g, cell)
           values == [g.values EXCEPT ![cell] = 0]
           notes == [g.notes EXCEPT ![cell] = {}]
           board == [values |-> values, notes |-> notes]
           changed == <<r>>
           erased == [g EXCEPT !.changes = Append(@, Recorded(g, cell)), !.values[cell] = 0, !.notes[cell] = {}]
<1>1. cell \in Cells /\ g.puzzle.givens[cell] = 0 /\ g \in Game /\ g.mistakes \in 0 .. MaxMistakes
  BY EditableFacts, KeptFacts
<1>2. r \in Recordable(g.puzzle) /\ r.cell = cell /\ r.value = Board(g).values[cell]
      /\ r.notes = Board(g).notes[cell]
  BY <1>1, RecordedFacts
<1>3. values \in Grids /\ notes \in [Cells -> SUBSET Digits]
  <2>1. 0 \in 0 .. Side
    BY Sizes
  <2>2. QED
    BY <2>1, KeptFacts DEF Grids
<1>4. board \in Clean(g.puzzle)
  <2>1. \A c \in Cells : /\ values[c] # 0 => notes[c] = {}
                         /\ g.puzzle.givens[c] \in {0, values[c]}
    BY <1>1, KeptFacts DEF Kept, Loadable, Grids
  <2>2. QED
    BY <1>3, <2>1 DEF Clean
<1>5. \A c \in Cells : c # cell => Agree(board, Board(g), c)
  BY KeptFacts DEF Agree, Board, Grids
<1> HIDE DEF r
<1>7. g.changes \o changed = Append(g.changes, r) /\ changed \in Seq(Recordable(g.puzzle))
      /\ Len(changed) = 1 /\ changed[1] = r
  BY <1>2, KeptFacts, AppendIsConcat
<1> HIDE DEF changed
<1>6. erased = [g EXCEPT !.changes = g.changes \o changed, !.values = values, !.notes = notes]
  <2>1. erased = [g EXCEPT !.changes = Append(g.changes, r), !.values = values, !.notes = notes]
    BY <1>1 DEF r, Game
  <2>2. QED
    BY <1>7, <2>1
<1>8. erased = [g EXCEPT !.changes = @ \o changed, !.values = board.values, !.notes = board.notes,
                         !.mistakes = g.mistakes]
  <2> HIDE DEF erased, values, notes
  <2>1. QED
    BY <1>1, <1>6 DEF Game
<1>9. Finished(erased, 1) = Moved(g, board, changed, g.mistakes)
  BY <1>7, <1>8 DEF Moved, Unfinished
<1> HIDE DEF board
<1>10. Restored(board, changed) = Board(g)
  <2>1. g.puzzle \in Puzzles /\ Board(g) \in Clean(g.puzzle)
    BY KeptFacts
  <2>2. Holds(changed, Board(g))
    BY <1>2, <1>7 DEF Holds
  <2>3. AgreeElsewhere(board, Board(g), changed)
    BY <1>2, <1>5, <1>7 DEF AgreeElsewhere
  <2>4. QED
    BY <1>4, <1>7, <2>1, <2>2, <2>3, RestoredTo
<1>11. QED
  <2>1. LeadsBack(g, board, changed, g.mistakes)
    BY <1>1, <1>4, <1>7, <1>10, BoardfulNat DEF LeadsBack
  <2>2. QED
    BY <1>9, <2>1 DEF IsMove
(* The cells a digit changes, the cell itself first: each once, and none   *)
(* of them given.                                                          *)
Free(g) == {c \in Cells : g.puzzle.givens[c] = 0}
ChangedBy(cell, others) == <<cell>> \o InOrder(others)

LEMMA ChangedCells ==
    ASSUME NEW g, Kept(g), NEW cell, Editable(g, cell), NEW digit, NEW M \in SUBSET Marked(g, cell, digit)
    PROVE  /\ ChangedBy(cell, M) \in Seq(Free(g))
           /\ Len(ChangedBy(cell, M)) \in MoveSizes /\ Len(InOrder(M)) \in Nat
           /\ Len(ChangedBy(cell, M)) = Len(InOrder(M)) + 1 /\ ChangedBy(cell, M)[1] = cell
           /\ DOMAIN InOrder(M) = 1 .. Len(InOrder(M))
           /\ \A i \in 1 .. Len(InOrder(M)) : ChangedBy(cell, M)[i + 1] = InOrder(M)[i]
<1> DEFINE marked == InOrder(M)
           changed == <<cell>> \o marked
           n == Cardinality(M)
<1>1. cell \in Free(g) /\ M \in SUBSET Cells /\ cell \notin M
  BY EditableFacts DEF Marked, Related, Free
<1>2. M \subseteq Free(g)
  <2> SUFFICES ASSUME NEW c \in M PROVE c \in Free(g)
    OBVIOUS
  <2>1. c \in Cells /\ g.values[c] = 0
    BY DEF Marked
  <2>2. g.puzzle.givens[c] \in {0, g.values[c]}
    BY <2>1 DEF Kept, Loadable
  <2>3. QED
    BY <2>1, <2>2 DEF Free
<1>3. /\ IsFiniteSet(M) /\ n \in Nat /\ marked \in [1 .. n -> M]
      /\ \A c \in M : \E i \in 1 .. n : marked[i] = c
  BY <1>1, InOrderFacts
<1> HIDE DEF marked
<1>4. marked \in [1 .. n -> Free(g)]
  BY <1>2, <1>3
<1>5. marked \in Seq(Free(g)) /\ Len(marked) = n
  <2>1. marked \in Seq(Free(g))
    BY <1>3, <1>4, SeqDef
  <2>2. QED
    BY <1>3, <2>1
<1>6. <<cell>> \in Seq(Free(g)) /\ Len(<<cell>>) = 1 /\ <<cell>>[1] = cell
  BY <1>1
<1>7. /\ changed \in Seq(Free(g)) /\ Len(changed) = 1 + n
      /\ \A i \in 1 .. 1 + n : changed[i] = IF i <= 1 THEN <<cell>>[i] ELSE marked[i - 1]
  BY <1>5, <1>6, ConcatProperties
<1>8. n + 1 <= Boardful
  <2>1. M \cup {cell} \in SUBSET Cells
    BY <1>1 DEF Free
  <2>2. Cardinality(M \cup {cell}) = n + 1
    BY <1>1, <1>3, FS_AddElement
  <2>3. Cardinality(M \cup {cell}) <= Cardinality(Cells)
    BY <2>1, Sizes, FS_Subset
  <2>4. QED
    BY <2>2, <2>3, Sizes DEF Boardful
<1> HIDE DEF changed
<1>9. Len(changed) \in MoveSizes
  BY <1>3, <1>7, <1>8, BoardfulNat
<1>10. changed[1] = cell /\ \A i \in 1 .. n : changed[i + 1] = marked[i]
  <2>1. 1 \in 1 .. 1 + n
    BY <1>3
  <2>2. ASSUME NEW i \in 1 .. n PROVE changed[i + 1] = marked[i]
    <3>1. i + 1 \in 1 .. 1 + n /\ ~(i + 1 <= 1) /\ (i + 1) - 1 = i
      BY <1>3
    <3>2. QED
      BY <1>7, <3>1
  <2>3. QED
    BY <1>6, <1>7, <2>1, <2>2
<1>12. QED
  BY <1>3, <1>5, <1>7, <1>9, <1>10 DEF changed, marked, ChangedBy

LEMMA EnteredMove ==
    ASSUME NEW g, Kept(g), NEW cell, Editable(g, cell), NEW digit \in Digits
    PROVE  IsMove(g, Entered(g, cell, digit))
<1> DEFINE correct == digit = g.puzzle.solution[cell]
           M == IF correct THEN Marked(g, cell, digit) ELSE {}
           marked == InOrder(M)
           cells == ChangedBy(cell, M)
           changed == [i \in DOMAIN cells |-> Recorded(g, cells[i])]
           values == [g.values EXCEPT ![cell] = digit]
           notes == [c \in Cells |-> IF c = cell THEN {}
                        ELSE IF \E i \in DOMAIN marked : marked[i] = c THEN g.notes[c] \ {digit} ELSE g.notes[c]]
           board == [values |-> values, notes |-> notes]
           mistakes == IF correct THEN g.mistakes ELSE g.mistakes + 1
<1>1. cell \in Cells /\ g.puzzle.givens[cell] = 0 /\ g \in Game /\ mistakes \in 0 .. MaxMistakes
  BY EditableFacts, KeptFacts, Sizes
<1>2. M \in SUBSET Marked(g, cell, digit)
  OBVIOUS
<1>3. /\ cells \in Seq(Free(g)) /\ Len(cells) \in MoveSizes /\ Len(marked) \in Nat
      /\ Len(cells) = Len(marked) + 1 /\ cells[1] = cell /\ DOMAIN marked = 1 .. Len(marked)
      /\ \A i \in 1 .. Len(marked) : cells[i + 1] = marked[i]
  <2> HIDE DEF M
  <2>1. QED
    BY <1>2, ChangedCells
<1>4. changed \in Seq(Recordable(g.puzzle)) /\ Len(changed) = Len(cells)
  <2> HIDE DEF cells
  <2>1. DOMAIN cells = 1 .. Len(cells) /\ Len(cells) \in Nat
    BY <1>3
  <2>2. \A i \in 1 .. Len(cells) : Recorded(g, cells[i]) \in Recordable(g.puzzle)
    <3> TAKE i \in 1 .. Len(cells)
    <3>1. cells[i] \in Cells /\ g.puzzle.givens[cells[i]] = 0
      BY <1>3 DEF Free
    <3>2. QED
      BY <3>1, RecordedFacts
  <2>3. changed \in [1 .. Len(cells) -> Recordable(g.puzzle)]
    BY <2>1, <2>2
  <2> HIDE DEF changed
  <2>4. changed \in Seq(Recordable(g.puzzle))
    BY <2>1, <2>3, SeqDef
  <2>5. QED
    BY <2>1, <2>3, <2>4
<1>5. \A i \in 1 .. Len(changed) : /\ changed[i].cell = cells[i]
                                   /\ changed[i].value = Board(g).values[changed[i].cell]
                                   /\ changed[i].notes = Board(g).notes[changed[i].cell]
  <2> TAKE i \in 1 .. Len(changed)
  <2>1. i \in DOMAIN cells /\ cells[i] \in Free(g)
    <3> HIDE DEF cells, changed
    <3>1. QED
      BY <1>3, <1>4
  <2>2. changed[i] = Recorded(g, cells[i])
    <3> HIDE DEF cells
    <3>1. QED
      BY <2>1
  <2>3. QED
    BY <2>1, <2>2, RecordedFacts DEF Free
<1>6. board \in Clean(g.puzzle)
  <2>1. values \in Grids
    <3>1. digit \in 0 .. Side
      BY Sizes DEF Digits
    <3>2. QED
      BY <3>1, KeptFacts DEF Grids
  <2> HIDE DEF marked
  <2>2. notes \in [Cells -> SUBSET Digits]
    BY KeptFacts
  <2>3. \A c \in Cells : values[c] # 0 => notes[c] = {}
    BY <1>1, KeptFacts DEF Kept, Grids
  <2>4. \A c \in Cells : g.puzzle.givens[c] \in {0, values[c]}
    BY <1>1, KeptFacts DEF Kept, Loadable, Grids
  <2>5. QED
    BY <2>1, <2>2, <2>3, <2>4 DEF Clean
<1>7. \A c \in Cells : Agree(board, Board(g), c) \/ \E i \in 1 .. Len(changed) : changed[i].cell = c
  <2> TAKE c \in Cells
  <2> HIDE DEF marked, cells, changed
  <2>1. CASE c = cell
    <3>1. 1 \in 1 .. Len(changed)
      BY <1>3, <1>4
    <3>2. QED
      BY <1>3, <1>5, <2>1, <3>1
  <2>2. CASE \E i \in DOMAIN marked : marked[i] = c
    <3>1. PICK i \in 1 .. Len(marked) : marked[i] = c
      BY <1>3, <2>2
    <3>2. i + 1 \in 1 .. Len(changed)
      BY <1>3, <1>4
    <3>3. QED
      BY <1>3, <1>5, <3>1, <3>2
  <2>3. CASE c # cell /\ ~ \E i \in DOMAIN marked : marked[i] = c
    BY <1>1, <2>3, KeptFacts DEF Agree, Board, Grids
  <2>4. QED
    BY <2>1, <2>2, <2>3
<1>8. Entered(g, cell, digit) = Moved(g, board, changed, mistakes)
  <2>1. [g EXCEPT !.changes = @ \o changed, !.values[cell] = digit,
                  !.notes = [c \in Cells |-> IF c = cell THEN {}
                       ELSE IF \E i \in DOMAIN marked : marked[i] = c THEN @[c] \ {digit} ELSE @[c]],
                  !.mistakes = IF correct THEN @ ELSE @ + 1]
          = Unfinished(g, board, changed, mistakes)
    <3> HIDE DEF marked, changed, correct
    <3>1. QED
      BY <1>1 DEF Unfinished, Game
  <2>2. Entered(g, cell, digit) = Finished([g EXCEPT !.changes = @ \o changed, !.values[cell] = digit,
                  !.notes = [c \in Cells |-> IF c = cell THEN {}
                       ELSE IF \E i \in DOMAIN marked : marked[i] = c THEN @[c] \ {digit} ELSE @[c]],
                  !.mistakes = IF correct THEN @ ELSE @ + 1], Len(cells))
    BY DEF Entered, ChangedBy
  <2>3. QED
    BY <1>4, <2>1, <2>2 DEF Moved
<1> HIDE DEF changed, board, mistakes, cells
<1>9. Restored(board, changed) = Board(g)
  <2>1. g.puzzle \in Puzzles /\ Board(g) \in Clean(g.puzzle)
    BY KeptFacts
  <2>2. Holds(changed, Board(g))
    BY <1>5 DEF Holds
  <2>3. AgreeElsewhere(board, Board(g), changed)
    BY <1>7 DEF AgreeElsewhere
  <2>4. QED
    BY <1>4, <1>6, <2>1, <2>2, <2>3, RestoredTo
<1>10. LeadsBack(g, board, changed, mistakes)
  BY <1>1, <1>3, <1>4, <1>6, <1>9 DEF LeadsBack
<1>11. QED
  BY <1>8, <1>10 DEF IsMove
(* enter_digit() and erase_cell() change nothing or make a move.           *)
LEMMA EntersMove ==
    ASSUME NEW g, Kept(g), NEW digit \in Digits
    PROVE  Enters(g, digit) = g \/ IsMove(g, Enters(g, digit))
<1>1. CASE ~Editable(g, g.selected)
  BY <1>1 DEF Enters
<1>2. CASE Editable(g, g.selected) /\ g.notesMode
  BY <1>2, PencilledMove DEF Enters
<1>3. CASE Editable(g, g.selected) /\ ~g.notesMode
  BY <1>3, EnteredMove DEF Enters
<1>4. QED
  BY <1>1, <1>2, <1>3

LEMMA ErasesMove ==
    ASSUME NEW g, Kept(g)
    PROVE  Erases(g) = g \/ IsMove(g, Erases(g))
<1>1. CASE Editable(g, g.selected)
  BY <1>1, ErasedMove DEF Erases
<1>2. CASE ~Editable(g, g.selected)
  BY <1>2 DEF Erases
<1>3. QED
  BY <1>1, <1>2

LEMMA SelectsKept ==
    ASSUME NEW g, Kept(g), NEW cell \in Cells
    PROVE  Kept(Selects(g, cell)) /\ Board(Selects(g, cell)) = Board(g)
           /\ Selects(g, cell).moves = g.moves /\ Selects(g, cell).changes = g.changes
           /\ Selects(g, cell).puzzle = g.puzzle /\ Selects(g, cell) = [g EXCEPT !.selected = cell]
<1> DEFINE h == Selects(g, cell)
<1>1. g \in Game /\ h = [g EXCEPT !.selected = cell]
  BY KeptFacts DEF Selects
<1> HIDE DEF h
<1>2. /\ h \in Game /\ h.puzzle = g.puzzle /\ h.values = g.values /\ h.notes = g.notes
      /\ h.moves = g.moves /\ h.changes = g.changes
  BY <1>1 DEF Game
<1>3. Board(h) = Board(g)
  BY <1>2 DEF Board
<1>4. Parts(h) /\ Len(h.changes) = Total(h.moves)
  BY <1>2, <1>3, KeptParts DEF Parts
<1>5. Kept(h)
  BY <1>4, KeptParts
<1>6. QED
  BY <1>1, <1>2, <1>3, <1>5 DEF h

LEMMA TogglesKept ==
    ASSUME NEW g, Kept(g)
    PROVE  Kept(Toggles(g)) /\ Board(Toggles(g)) = Board(g)
           /\ Toggles(g).moves = g.moves /\ Toggles(g).changes = g.changes
           /\ Toggles(g).puzzle = g.puzzle
<1> DEFINE h == Toggles(g)
<1>1. g \in Game /\ h = [g EXCEPT !.notesMode = ~g.notesMode]
  BY KeptFacts DEF Toggles, Game
<1> HIDE DEF h
<1>2. /\ h \in Game /\ h.puzzle = g.puzzle /\ h.values = g.values /\ h.notes = g.notes
      /\ h.moves = g.moves /\ h.changes = g.changes
  BY <1>1 DEF Game
<1>3. Board(h) = Board(g)
  BY <1>2 DEF Board
<1>4. Parts(h) /\ Len(h.changes) = Total(h.moves)
  BY <1>2, <1>3, KeptParts DEF Parts
<1>5. Kept(h)
  BY <1>4, KeptParts
<1>6. QED
  BY <1>2, <1>3, <1>5 DEF h

LEMMA CreatedKept ==
    ASSUME NEW puzzle \in Puzzles
    PROVE  Kept(Created(puzzle)) /\ Created(puzzle).moves = <<>> /\ Created(puzzle).changes = <<>>
<1> DEFINE g == Created(puzzle)
<1>1. /\ puzzle \in [givens : Grids, solution : [Cells -> Digits]]
  BY PuzzlesTyped
<1>2. /\ g.puzzle = puzzle /\ g.values = puzzle.givens /\ g.notes = [c \in Cells |-> {}]
      /\ g.moves = <<>> /\ g.changes = <<>>
  BY DEF Created
<1>3. g \in Game
  BY <1>1, Sizes DEF Created, Game, Grids, NoCell
<1> HIDE DEF g
<1>4. Board(g) \in Clean(puzzle)
  BY <1>1, <1>2 DEF Board, Clean, Grids
<1>5. Total(<<>>) = 0
  <2> DEFINE zero == [i \in {0} |-> 0]
  <2>1. <<>> \in Seq(Nat) /\ Len(<<>>) = 0 /\ zero[0] = 0
    OBVIOUS
  <2>2. \A i \in 1 .. Len(<<>>) : zero[i] = zero[i - 1] + <<>>[i]
    BY <2>1
  <2> HIDE DEF zero
  <2>3. zero[Len(<<>>)] = Total(<<>>)
    BY <2>1, <2>2, TotalIs
  <2>4. QED
    BY <2>1, <2>3
<1>6. Parts(g)
  BY <1>2, <1>3, <1>4, Sizes, EmptySeq DEF Parts
<1>7. QED
  BY <1>2, <1>5, <1>6, KeptParts DEF g

(* The last move and its changes.                                          *)
LEMMA LastMove ==
    ASSUME NEW g, Kept(g), g.moves # <<>>
    PROVE  LET n == Len(g.moves)
               kept == Len(g.changes) - g.moves[n]
           IN /\ n \in 1 .. MaxMoves /\ g.moves[n] \in MoveSizes /\ kept \in 0 .. Len(g.changes)
              /\ LastChanges(g) \in Seq(Recordable(g.puzzle)) /\ Len(LastChanges(g)) = g.moves[n]
              /\ \A i \in 1 .. g.moves[n] : LastChanges(g)[i] = g.changes[kept + i]
              /\ SubSeq(g.changes, 1, kept) \in Seq(Recordable(g.puzzle))
              /\ Len(SubSeq(g.changes, 1, kept)) = Total(SubSeq(g.moves, 1, n - 1))
              /\ SubSeq(g.moves, 1, n - 1) \in Seq(MoveSizes) /\ Len(SubSeq(g.moves, 1, n - 1)) = n - 1
<1> DEFINE n == Len(g.moves)
           kept == Len(g.changes) - g.moves[n]
           m == kept + 1
<1>1. /\ g.moves \in Seq(MoveSizes) /\ n \in 1 .. MaxMoves /\ Len(g.changes) = Total(g.moves)
      /\ g.changes \in Seq(Recordable(g.puzzle)) /\ Len(g.changes) \in Nat
  <2>1. g.moves \in Seq(MoveSizes) /\ Len(g.moves) \in 0 .. MaxMoves /\ Len(g.changes) = Total(g.moves)
        /\ g.changes \in Seq(Recordable(g.puzzle))
    BY KeptFacts
  <2>2. Len(g.moves) \in Nat \ {0}
    BY <2>1, EmptySeq
  <2>3. QED
    BY <2>1, <2>2, Sizes
<1>2. g.moves[n] \in MoveSizes /\ g.moves[n] \in Nat \ {0} /\ g.moves \in Seq(Nat)
  BY <1>1, TotalBound, BoardfulNat
<1>3. g.moves[n] <= Total(g.moves) /\ Total(SubSeq(g.moves, 1, n - 1)) = Total(g.moves) - g.moves[n]
  BY <1>2, TotalFacts
<1>4. kept \in 0 .. Len(g.changes) /\ m \in 1 .. Len(g.changes) + 1 /\ Len(g.changes) - m + 1 = g.moves[n]
  <2>1. \A a, b \in Nat : b <= a => /\ a - b \in 0 .. a /\ (a - b) + 1 \in 1 .. a + 1
                                    /\ a - ((a - b) + 1) + 1 = b
    OBVIOUS
  <2>2. Len(g.changes) \in Nat /\ g.moves[n] \in Nat /\ g.moves[n] <= Len(g.changes)
    BY <1>1, <1>2, <1>3
  <2>3. QED
    BY <2>1, <2>2
<1>5. LastChanges(g) = SubSeq(g.changes, m, Len(g.changes))
  BY DEF LastChanges
<1> HIDE DEF n, m, kept
<1>6. /\ LastChanges(g) \in Seq(Recordable(g.puzzle)) /\ Len(LastChanges(g)) = g.moves[n]
      /\ \A i \in 1 .. g.moves[n] : LastChanges(g)[i] = g.changes[m + i - 1]
  BY <1>1, <1>4, <1>5, BackPart, SMTT(20)
<1>7. /\ SubSeq(g.changes, 1, kept) \in Seq(Recordable(g.puzzle))
      /\ Len(SubSeq(g.changes, 1, kept)) = kept
  BY <1>1, <1>4, FrontPart
<1>8. /\ SubSeq(g.moves, 1, n - 1) \in Seq(MoveSizes) /\ Len(SubSeq(g.moves, 1, n - 1)) = n - 1
  <2>1. n - 1 \in 0 .. Len(g.moves)
    BY <1>1 DEF n
  <2>2. QED
    BY <1>1, <2>1, FrontPart
<1>9. \A i \in 1 .. g.moves[n] : LastChanges(g)[i] = g.changes[kept + i]
  <2>1. \A i \in 1 .. g.moves[n] : m + i - 1 = kept + i
    BY <1>2, <1>4 DEF m
  <2>2. QED
    BY <1>6, <2>1
<1>10. kept = Total(SubSeq(g.moves, 1, n - 1))
  BY <1>1, <1>3 DEF kept
<1>11. QED
  BY <1>1, <1>2, <1>4, <1>6, <1>7, <1>8, <1>9, <1>10 DEF n, kept
LEMMA UndoesKept ==
    ASSUME NEW g, Kept(g), CanUndo(g)
    PROVE  /\ Kept(Undoes(g)) /\ Undoes(g).puzzle = g.puzzle
           /\ Board(Undoes(g)) = Restored(Board(g), LastChanges(g))
           /\ Undoes(g).moves = SubSeq(g.moves, 1, Len(g.moves) - 1)
           /\ Undoes(g).changes = SubSeq(g.changes, 1, Len(g.changes) - g.moves[Len(g.moves)])
<1> DEFINE changed == LastChanges(g)
           board == Restored(Board(g), changed)
           moves == SubSeq(g.moves, 1, Len(g.moves) - 1)
           changes == SubSeq(g.changes, 1, Len(g.changes) - g.moves[Len(g.moves)])
           cell == Head(changed).cell
           h == Undoes(g)
<1>1. g.moves # <<>>
  BY DEF CanUndo
<1>2. /\ changed \in Seq(Recordable(g.puzzle)) /\ Len(changed) = g.moves[Len(g.moves)]
      /\ Len(changed) \in MoveSizes
      /\ changes \in Seq(Recordable(g.puzzle)) /\ Len(changes) = Total(moves)
      /\ moves \in Seq(MoveSizes) /\ Len(moves) <= MaxMoves
  <2>1. Len(g.moves) \in 1 .. MaxMoves /\ Len(moves) = Len(g.moves) - 1
    BY <1>1, LastMove
  <2>2. Len(moves) <= MaxMoves
    BY <2>1, Sizes
  <2>3. QED
    BY <1>1, <2>2, LastMove
<1>3. g \in Game /\ g.puzzle \in Puzzles /\ Board(g) \in Clean(g.puzzle)
  BY KeptFacts
<1>4. h = [g EXCEPT !.values = board.values, !.notes = board.notes, !.selected = cell,
                    !.moves = moves, !.changes = changes]
  <2>1. h = [g EXCEPT !.values = board.values, !.notes = board.notes, !.selected = cell,
                      !.moves = SubSeq(@, 1, Len(@) - 1), !.changes = SubSeq(@, 1, Len(@) - Len(changed))]
    BY DEF Undoes
  <2> HIDE DEF changed, board, cell, h
  <2>2. QED
    BY <1>2, <1>3, <2>1 DEF Game
<1> HIDE DEF changed
<1>5. board \in Clean(g.puzzle)
  <2>1. PICK back \in [1 .. Len(changed) + 1 -> Clean(g.puzzle)] : back[1] = Restored(Board(g), changed)
    BY <1>2, <1>3, RestoredSteps, ZenonT(60)
  <2>2. 1 \in 1 .. Len(changed) + 1
    BY <1>2, BoardfulNat
  <2>3. QED
    BY <2>1, <2>2
<1>6. cell \in Cells
  <2>1. changed # <<>>
    BY <1>2, BoardfulNat, EmptySeq
  <2>2. Head(changed) \in Recordable(g.puzzle)
    BY <1>2, <2>1, HeadTailProperties
  <2>3. QED
    BY <2>2 DEF Recordable, Change
<1> HIDE DEF moves, changes, board, cell, h
<1>7. moves \in Seq(Nat \ {0}) /\ changes \in Seq(Change)
  <2>1. MoveSizes \subseteq Nat \ {0}
    BY BoardfulNat
  <2>2. moves \in Seq(Nat \ {0})
    BY <1>2, <2>1, SeqMonotonic
  <2>3. Recordable(g.puzzle) \subseteq Change
    BY DEF Recordable
  <2>4. changes \in Seq(Change)
    BY <1>2, <2>3, SeqMonotonic
  <2>5. QED
    BY <2>2, <2>4
<1>8. board \in [values : Grids, notes : [Cells -> SUBSET Digits]]
  BY <1>5 DEF Clean
<1>9. /\ h \in Game /\ h.puzzle = g.puzzle /\ h.values = board.values /\ h.notes = board.notes
      /\ h.moves = moves /\ h.changes = changes
  BY <1>3, <1>4, <1>6, <1>7, <1>8 DEF Game, Grids
<1>10. Board(h) = board
  BY <1>8, <1>9 DEF Board
<1>11. Kept(h)
  BY <1>2, <1>3, <1>5, <1>9, <1>10, KeptParts DEF Parts
<1>12. QED
  BY <1>9, <1>10, <1>11 DEF h, board, moves, changes, changed

(* Whatever the player does to a kept game leaves one.                     *)
LEMMA PlayKept ==
    ASSUME NEW g, Kept(g)
    PROVE  /\ \A digit \in Digits : Kept(Enters(g, digit))
           /\ Kept(Erases(g)) /\ Kept(Undoes(g)) /\ Kept(Toggles(g))
<1>1. \A digit \in Digits : Kept(Enters(g, digit))
  BY EntersMove, MoveKept
<1>2. Kept(Erases(g))
  BY ErasesMove, MoveKept
<1>3. Kept(Undoes(g))
  <2>1. CASE CanUndo(g)
    BY <2>1, UndoesKept
  <2>2. CASE ~CanUndo(g)
    BY <2>2 DEF Undoes
  <2>3. QED
    BY <2>1, <2>2
<1>4. QED
  BY <1>1, <1>2, <1>3, TogglesKept
-------------------------------------------------------------------------------
(* The app.                                                                *)

(* The view's types; a finger goes down on what is under it, on the board  *)
(* that resumes a paused game, or on nothing.                              *)
AppOK ==
    /\ app \in Views
    /\ main \in [at : {"idle", "taking", "joining", "dead"},
                 from : {"none", "create", "newGame", "primary", "puzzle"}]

(* Until create_app() has returned, the view is as it was made.            *)
LaunchOK ==
    /\ main.at \notin {"idle", "taking"} => app = Launched
    /\ main.at = "taking" /\ main.from = "create" => app = Launched /\ game = NoGame

(* What DialogMatches says between callbacks also holds in start_game().   *)
Matches(a, g) ==
    /\ a.dialog = "confirm" => Progress(g)
    /\ a.dialog \in {"won", "lost"} => a.dialog = StatusOf(g) /\ ~a.flash
    /\ a.paused => Playing(g)
DialogOK == Alive => Matches(app, game)

ViewInv == AppOK /\ LaunchOK /\ DialogOK /\ ClockRunsWhilePlaying /\ AskedBeforeReplacing
-------------------------------------------------------------------------------
(* What the operators on the view do to it.                                *)

LEMMA StatusKnown ==
    ASSUME NEW g
    PROVE  /\ Status(g) \in {"playing", "won", "lost"} /\ StatusOf(g) \in {"none", "playing", "won", "lost"}
           /\ Playing(g) \in BOOLEAN /\ Progress(g) \in BOOLEAN
           /\ StatusOf(g) \in {"won", "lost"} => StatusOf(g) = Status(g)
           /\ StatusOf(g) \in {"won", "lost"} => ~Playing(g)
           /\ Progress(g) => Playing(g)
  BY DEF Status, StatusOf, Playing, Progress

(* update() leaves the clock running exactly while the game is played.     *)
LEMMA UpdatedFacts ==
    ASSUME NEW a \in Views, NEW g
    PROVE  /\ Updated(a, g) \in Views
           /\ Updated(a, g).clock = Running(Updated(a, g), g)
           /\ Matches(a, g) => Matches(Updated(a, g), g)
           /\ Updated(a, g).pending = a.pending /\ Updated(a, g).flash = a.flash
           /\ Updated(a, g).window = a.window /\ Updated(a, g).pressed = a.pressed
           /\ Updated(a, g).resumed = a.resumed
<1> DEFINE result == StatusOf(g) \in {"won", "lost"} /\ ~a.shown /\ ~a.flash
<1>1. Running(a, g) \in BOOLEAN
  BY DEF Running, HasRenderer, Playing
<1>2. Updated(a, g) = [a EXCEPT !.clock = Running(a, g), !.shown = a.shown \/ result,
                                !.paused = a.paused /\ ~result,
                                !.dialog = IF result THEN Status(g) ELSE a.dialog]
  BY DEF Updated
<1>3. result => ~Playing(g) /\ Status(g) \in {"won", "lost"} /\ StatusOf(g) = Status(g)
  BY StatusKnown
<1>4. result \in BOOLEAN /\ (result => ~a.flash)
  OBVIOUS
<1> HIDE DEF result
<1> DEFINE u == Updated(a, g)
<1>5. /\ u \in Views /\ u.clock = Running(a, g) /\ u.paused = (a.paused /\ ~result)
      /\ u.dialog = (IF result THEN Status(g) ELSE a.dialog)
      /\ u.pending = a.pending /\ u.flash = a.flash /\ u.window = a.window
      /\ u.pressed = a.pressed /\ u.resumed = a.resumed
  BY <1>1, <1>2, <1>3, <1>4 DEF Views
<1> HIDE DEF u
<1>6. u.clock = Running(u, g)
  BY <1>3, <1>5 DEF Running, HasRenderer
<1>7. Matches(a, g) => Matches(u, g)
  BY <1>3, <1>4, <1>5 DEF Matches
<1>8. QED
  BY <1>5, <1>6, <1>7 DEF u

LEMMA LaunchedFacts ==
    /\ Launched \in Views /\ ~Launched.clock /\ ~Launched.resumed
    /\ \A g : Matches(Launched, g)
  BY DEF Launched, Views, Matches

(* hit_test() finds what is under the finger, the paused board, or nothing; *)
(* a cell is only found on a board that is shown.                          *)
LEMMA HitTestFacts ==
    ASSUME NEW place \in Places, NEW a \in Views, NEW g
    PROVE  /\ HitTest(place, a, g) \in {None, Hit("resume", -1)} \cup Places
           /\ HitTest(place, a, g).target = "cell" => a.dialog = "none" /\ ~a.paused
  BY DEF HitTest, None, Hit, Views
-------------------------------------------------------------------------------
(* The main thread's callbacks.                                            *)

Sources == {"none", "create", "newGame", "primary", "puzzle"}

(* A callback ends with a view that matches the game, and the right clock. *)
LEMMA IdleHolds ==
    ASSUME app' \in Views, app'.clock = Running(app', game'), Matches(app', game'),
           main'.at = "idle", main' \in [at : {"idle"}, from : Sources]
    PROVE  ViewInv'
  BY DEF ViewInv, AppOK, LaunchOK, DialogOK, Alive, Idle, ClockRunsWhilePlaying, AskedBeforeReplacing,
     Sources

LEMMA IdleFacts ==
    ASSUME ViewInv, Idle
    PROVE  /\ app \in Views /\ Matches(app, game) /\ app.clock = Running(app, game)
           /\ main.at = "idle" /\ main \in [at : {"idle"}, from : Sources]
           /\ Updated(app, game) \in Views /\ Matches(Updated(app, game), game)
<1>1. /\ app \in Views /\ Matches(app, game) /\ app.clock = Running(app, game)
      /\ main.at = "idle" /\ main \in [at : {"idle"}, from : Sources]
  BY DEF ViewInv, AppOK, DialogOK, Alive, Idle, ClockRunsWhilePlaying, Sources
<1>2. QED
  BY <1>1, UpdatedFacts

LEMMA SettlesKeeps ==
    ASSUME ViewInv, Idle, NEW a \in Views, Matches(a, game), Settles(a)
    PROVE  ViewInv'
<1>1. app' = Updated(a, game') /\ UNCHANGED <<game, main>> /\ Matches(a, game')
  BY DEF Settles
<1>2. app' \in Views /\ app'.clock = Running(app', game') /\ Matches(app', game')
  BY <1>1, UpdatedFacts
<1>3. QED
  BY <1>1, <1>2, IdleFacts, IdleHolds

LEMMA TakeKeeps ==
    ASSUME NEW caller \in Sources \ {"create"}, NEW a \in Views, Matches(a, game), TakeFrom(caller, a),
           Progress(game) => caller = "primary" \/ a.pending
    PROVE  ViewInv'
<1>1. /\ app' = a /\ main' = [at |-> "taking", from |-> caller] /\ UNCHANGED game
      /\ main'.at = "taking" /\ main'.from = caller
  BY DEF TakeFrom
<1>2. Matches(app', game') /\ (Progress(game') => main'.from = "primary" \/ app'.pending)
  BY <1>1
<1>3. QED
  BY <1>1, <1>2 DEF ViewInv, AppOK, LaunchOK, DialogOK, Alive, Idle, ClockRunsWhilePlaying, AskedBeforeReplacing,
     Sources

(* activate() opens a dialog over a game with progress, and pauses a game  *)
(* in progress; a move is only made without a dialog.                      *)
LEMMA ViewedFacts ==
    ASSUME NEW hit, NEW a \in Views, NEW g, Matches(a, g)
    PROVE  /\ Viewed(hit, a, g) \in Views
           /\ Matches(Viewed(hit, a, g), Played(hit, a, g))
           /\ Starts(hit, a, g) => Matches(Viewed(hit, a, g), g)
<1> DEFINE v == Viewed(hit, a, g)
           target == hit.target
           dialog == IF Asks(hit, a, g) THEN "confirm"
                     ELSE IF target \in {"primary", "secondary"} THEN "none" ELSE a.dialog
           paused == IF target = "pause" /\ Playing(g) /\ a.dialog = "none" THEN ~a.paused
                     ELSE IF target = "resume" THEN FALSE ELSE a.paused
           flash == a.flash \/ (target = "digit" /\ Interactive(a, g) /\ Completes(g, hit.index) # {})
<1>1. v = [a EXCEPT !.paused = paused, !.dialog = dialog, !.flash = flash, !.pressed = None]
  BY DEF Viewed, Asks
<1>2. /\ dialog \in {"none", "confirm", "won", "lost"} /\ flash \in BOOLEAN /\ paused \in BOOLEAN
  BY DEF Views
<1>3. v \in Views /\ v.paused = paused /\ v.dialog = dialog /\ v.flash = flash
  <2> HIDE DEF v, dialog, paused, flash
  <2>1. QED
    BY <1>1, <1>2 DEF Views
<1> HIDE DEF v
<1>4. CASE ~Interactive(a, g)
  <2>1. Played(hit, a, g) = g
    BY <1>4 DEF Played
  <2>2. flash = a.flash
    BY <1>4 DEF Views
  <2>3. dialog = "confirm" => Progress(g)
    BY DEF Asks, Matches
  <2>4. paused => Playing(g)
    BY DEF Matches
  <2>5. dialog \in {"won", "lost"} => dialog = a.dialog
    OBVIOUS
  <2>6. QED
    <3> HIDE DEF dialog, paused, flash
    <3>1. Matches(v, g)
      BY <1>3, <2>2, <2>3, <2>4, <2>5 DEF Matches
    <3>2. QED
      BY <1>3, <2>1, <3>1 DEF v
<1>5. CASE Interactive(a, g)
  <2>1. a.dialog = "none" /\ ~a.paused /\ Playing(g)
    BY <1>5 DEF Interactive
  <2>2. target \in {"newGame", "pause"} => Played(hit, a, g) = g
    BY <1>5 DEF Played
  <2>3. dialog = "none" \/ (dialog = "confirm" /\ Progress(g) /\ target = "newGame")
    BY <2>1 DEF Asks
  <2>4. paused => target = "pause"
    BY <2>1
  <2>5. Starts(hit, a, g) => target = "newGame" /\ ~Asks(hit, a, g)
    BY <2>1 DEF Starts
  <2>6. Starts(hit, a, g) => dialog = "none" /\ ~paused
    BY <2>1, <2>5
  <2>7. QED
    <3> HIDE DEF dialog, paused, flash
    <3>1. Matches(v, Played(hit, a, g))
      BY <1>3, <2>1, <2>2, <2>3, <2>4 DEF Matches
    <3>2. Starts(hit, a, g) => Matches(v, g)
      BY <1>3, <2>6 DEF Matches
    <3>3. QED
      BY <1>3, <3>1, <3>2 DEF v
<1>6. QED
  BY <1>4, <1>5

LEMMA ActivateKeeps ==
    ASSUME ViewInv, Idle, NEW hit, NEW a \in Views, Matches(a, game), Activate(hit, a)
    PROVE  ViewInv'
<1>1. CASE Starts(hit, a, game)
  <2>1. TakeFrom(hit.target, Viewed(hit, a, game)) /\ hit.target \in {"newGame", "primary"}
    BY <1>1 DEF Activate, Starts
  <2>2. Progress(game) => hit.target = "primary"
    BY <1>1 DEF Starts, Asks
  <2>3. QED
    BY <1>1, <2>1, <2>2, ViewedFacts, TakeKeeps DEF Sources
<1>2. CASE ~Starts(hit, a, game)
  <2> DEFINE g == Played(hit, a, game)
             v == Viewed(hit, a, game)
  <2>1. game' = g /\ app' = Updated(v, g) /\ UNCHANGED main
    BY <1>2 DEF Activate
  <2>2. v \in Views /\ Matches(v, g)
    BY ViewedFacts
  <2> HIDE DEF g, v
  <2>3. app' \in Views /\ app'.clock = Running(app', game') /\ Matches(app', game')
    BY <2>1, <2>2, UpdatedFacts
  <2>4. QED
    BY <2>1, <2>3, IdleFacts, IdleHolds
<1>3. QED
  BY <1>1, <1>2

LEMMA SelectKeeps ==
    ASSUME ViewInv, Idle, NEW cell, NEW a \in Views, a.dialog = "none", ~a.paused, SelectCell(cell, a)
    PROVE  ViewInv'
<1>1. app' = Updated(a, game') /\ UNCHANGED main
  BY DEF SelectCell
<1>2. Matches(a, game')
  BY DEF Matches
<1>3. app' \in Views /\ app'.clock = Running(app', game') /\ Matches(app', game')
  BY <1>1, <1>2, UpdatedFacts
<1>4. QED
  BY <1>1, <1>3, IdleFacts, IdleHolds

(* Every callback looks at the clock first; a key or a finger that goes    *)
(* leaves nothing pressed.                                                 *)
LEMMA UntouchedFacts ==
    ASSUME NEW a \in Views, NEW g, Matches(a, g), NEW hit \in {None, Hit("resume", -1)} \cup Places
    PROVE  /\ [a EXCEPT !.pressed = hit] \in Views /\ Matches([a EXCEPT !.pressed = hit], g)
           /\ [a EXCEPT !.pressed = hit].dialog = a.dialog /\ [a EXCEPT !.pressed = hit].paused = a.paused
           /\ Running([a EXCEPT !.pressed = hit], g) = Running(a, g)
           /\ [a EXCEPT !.pressed = hit].clock = a.clock
  BY DEF Views, Matches, Running, HasRenderer

LEMMA PressKeeps ==
    ASSUME ViewInv, NEW key \in Keys, Press(key)
    PROVE  ViewInv'
<1> DEFINE a == [Updated(app, game) EXCEPT !.pressed = None]
<1>1. Idle /\ Presses(key, a)
  BY DEF Press
<1>2. a \in Views /\ Matches(a, game)
  BY <1>1, IdleFacts, UntouchedFacts
<1> HIDE DEF a
<1>3. \/ \E hit \in {Hit("primary", -1), Hit("resume", -1), key} : Activate(hit, a)
      \/ a.dialog = "none" /\ ~a.paused /\ SelectCell(key.index, a)
  BY <1>1 DEF Presses
<1>4. QED
  BY <1>1, <1>2, <1>3, ActivateKeeps, SelectKeeps

LEMMA TouchKeeps ==
    ASSUME ViewInv, NEW place \in Places, TouchDown(place) \/ TouchUp(place)
    PROVE  ViewInv'
<1> DEFINE a == Updated(app, game)
           hit == HitTest(place, a, game)
           b == [a EXCEPT !.pressed = None]
           c == [a EXCEPT !.pressed = hit]
<1>1. /\ Idle
      /\ \/ hit.target = "cell" /\ SelectCell(hit.index, b)
         \/ Settles(c) \/ Activate(hit, a) \/ Settles(b)
  BY DEF TouchDown, TouchUp
<1>2. a \in Views /\ Matches(a, game)
  BY <1>1, IdleFacts
<1> HIDE DEF a
<1>3. /\ hit \in {None, Hit("resume", -1)} \cup Places
      /\ hit.target = "cell" => a.dialog = "none" /\ ~a.paused
  BY <1>2, HitTestFacts
<1> HIDE DEF hit
<1>4. /\ b \in Views /\ Matches(b, game) /\ b.dialog = a.dialog /\ b.paused = a.paused
      /\ c \in Views /\ Matches(c, game)
  BY <1>2, <1>3, UntouchedFacts
<1> HIDE DEF b, c
<1>5. QED
  BY <1>1, <1>2, <1>3, <1>4, SettlesKeeps, ActivateKeeps, SelectKeeps

LEMMA BackKeeps ==
    ASSUME ViewInv, Back
    PROVE  ViewInv'
<1>1. Idle /\ Activate(Hit("secondary", -1), Updated(app, game))
  BY DEF Back
<1>2. QED
  BY <1>1, IdleFacts, ActivateKeeps

(* The callbacks that settle a view that the user did not change.          *)
LEMMA SettlingKeeps ==
    ASSUME ViewInv,
           FingerLeaves \/ ContentChanged \/ ConfigurationChanged \/ Tick \/ Draw \/ WindowCreated
             \/ Start \/ Resume \/ FlashEnds
    PROVE  ViewInv'
<1>1. Idle
  BY DEF FingerLeaves, ContentChanged, ConfigurationChanged, Tick, Draw, WindowCreated, Start, Resume,
     FlashEnds
<1> DEFINE u == Updated(app, game)
<1>2. app \in Views /\ Matches(app, game) /\ u \in Views /\ Matches(u, game)
  BY <1>1, IdleFacts
<1> HIDE DEF u
<1>3. CASE FingerLeaves \/ ContentChanged \/ ConfigurationChanged
  <2>1. Settles([u EXCEPT !.pressed = None])
    BY <1>3 DEF FingerLeaves, ContentChanged, ConfigurationChanged, Untouched, u
  <2>2. QED
    BY <1>1, <1>2, <2>1, UntouchedFacts, SettlesKeeps
<1>4. CASE Tick /\ ~UNCHANGED vars
  <2> DEFINE q == [app EXCEPT !.pressed = None]
             r == [q EXCEPT !.pressed = None]
  <2>1. Settles(app) \/ Settles(q) \/ Settles(r)
    BY <1>4 DEF Tick, CheckSurface, RefreshContent
  <2>2. q \in Views /\ Matches(q, game)
    BY <1>2, UntouchedFacts
  <2> HIDE DEF q
  <2>3. r \in Views /\ Matches(r, game)
    BY <2>2, UntouchedFacts
  <2> HIDE DEF r
  <2>4. QED
    BY <1>1, <1>2, <2>1, <2>2, <2>3, SettlesKeeps
<1>5. CASE Draw
  <2>1. PICK shown \in {"drawn", app.window} : Settles([u EXCEPT !.window = shown])
    BY <1>5 DEF Draw, Drawn, u
  <2>2. [u EXCEPT !.window = shown] \in Views /\ Matches([u EXCEPT !.window = shown], game)
    BY <1>2 DEF Views, Matches
  <2>3. QED
    BY <1>1, <2>1, <2>2, SettlesKeeps
<1>6. CASE (WindowCreated /\ Settles(Attached(app))) \/ Start \/ FlashEnds
  <2>1. \E a \in {[app EXCEPT !.window = "attached"], [app EXCEPT !.started = TRUE],
                  [app EXCEPT !.flash = FALSE]} : Settles(a)
    BY <1>6 DEF WindowCreated, Attached, Start, FlashEnds
  <2>2. ASSUME NEW a \in {[app EXCEPT !.window = "attached"], [app EXCEPT !.started = TRUE],
                          [app EXCEPT !.flash = FALSE]}
        PROVE  a \in Views /\ Matches(a, game)
    BY <1>2, ZenonT(20) DEF Views, Matches
  <2>3. QED
    BY <1>1, <2>1, <2>2, SettlesKeeps
<1>7. CASE Resume
  <2> DEFINE q == [u EXCEPT !.pressed = None]
             r == [q EXCEPT !.resumed = TRUE]
  <2>1. Settles(Updated(r, game))
    BY <1>7 DEF Resume, Resumed, Untouched, u
  <2>2. q \in Views /\ Matches(q, game)
    BY <1>2, UntouchedFacts
  <2> HIDE DEF q
  <2>3. r \in Views /\ Matches(r, game)
    BY <2>2 DEF Views, Matches
  <2> HIDE DEF r
  <2>4. QED
    BY <1>1, <2>1, <2>3, UpdatedFacts, SettlesKeeps
<1>8. CASE app' = [app EXCEPT !.window = "refused"] /\ app.window = "none" /\ UNCHANGED <<game, main>>
  <2>1. app' \in Views /\ Matches(app', game')
    BY <1>2, <1>8 DEF Views, Matches
  <2>2. app'.clock = Running(app', game')
    BY <1>1, <1>2, <1>8, IdleFacts DEF Views, Running, HasRenderer
  <2>3. QED
    BY <1>1, <1>8, <2>1, <2>2, IdleFacts, IdleHolds
<1>9. CASE UNCHANGED vars
  BY <1>9 DEF vars, ViewInv, AppOK, LaunchOK, DialogOK, ClockRunsWhilePlaying, AskedBeforeReplacing, Idle, Alive
<1>10. QED
  BY <1>3, <1>4, <1>5, <1>6, <1>7, <1>8, <1>9 DEF WindowCreated

(* Those that do not: the clock is stopped, goes on, or does not matter.   *)
LEMMA UnsettledKeeps ==
    ASSUME ViewInv, InputDestroyed \/ Redraw \/ WindowDestroyed \/ Stop \/ Pause
    PROVE  ViewInv'
<1>1. Idle /\ UNCHANGED <<game, main>>
  BY DEF InputDestroyed, Redraw, WindowDestroyed, Stop, Pause
<1> DEFINE u == Updated(app, game)
<1>2. /\ app \in Views /\ Matches(app, game) /\ app.clock = Running(app, game)
      /\ main'.at = "idle" /\ main' \in [at : {"idle"}, from : Sources]
      /\ u \in Views /\ Matches(u, game)
  BY <1>1, IdleFacts
<1>3. ASSUME app' \in Views, app'.clock = Running(app', game), Matches(app', game)
      PROVE  ViewInv'
  BY <1>1, <1>2, <1>3, IdleHolds
<1> HIDE DEF u
<1> DEFINE q == [u EXCEPT !.pressed = None]
<1>4. q \in Views /\ Matches(q, game)
  BY <1>2, UntouchedFacts
<1>5. Untouched(app) = q
  BY DEF Untouched, u
<1> HIDE DEF q
<1>6. CASE InputDestroyed
  BY <1>3, <1>4, <1>5, <1>6, UpdatedFacts DEF InputDestroyed
<1>7. CASE Redraw
  <2>1. PICK a \in {app, [app EXCEPT !.pressed = None]} :
          app' \in IF HasRenderer(a) THEN Drawn(a) ELSE {a}
    BY <1>7 DEF Redraw, RefreshContent
  <2>2. CASE app' = a
    <3>1. a \in Views /\ Matches(a, game) /\ a.clock = Running(a, game)
      BY <1>2 DEF Views, Matches, Running, HasRenderer
    <3>2. QED
      BY <1>3, <2>2, <3>1
  <2>3. CASE HasRenderer(a) /\ app' \in Drawn(a)
    <3>1. PICK shown \in {"drawn", a.window} : app' = [Updated(a, game) EXCEPT !.window = shown]
      BY <2>3 DEF Drawn
    <3>2. a \in Views /\ Matches(a, game) /\ a.window \in {"attached", "drawn"}
      BY <1>2, <2>3 DEF Views, Matches, HasRenderer
    <3> DEFINE b == Updated(a, game)
    <3>3. b \in Views /\ Matches(b, game) /\ b.clock = Running(b, game) /\ b.window = a.window
      BY <3>2, UpdatedFacts
    <3> HIDE DEF b
    <3>4. app' = [b EXCEPT !.window = shown] /\ shown \in {"attached", "drawn"}
      BY <3>2, <3>1 DEF b
    <3>5. app' \in Views /\ Matches(app', game) /\ app'.clock = Running(app', game)
      BY <3>2, <3>3, <3>4 DEF Views, Matches, Running, HasRenderer
    <3>6. QED
      BY <1>3, <3>5
  <2>4. QED
    BY <2>1, <2>2, <2>3
<1>8. CASE WindowDestroyed
  <2>1. app' = [q EXCEPT !.window = "none", !.pressed = None, !.clock = FALSE]
    BY <1>5, <1>8 DEF WindowDestroyed, Detached
  <2>2. app' \in Views /\ Matches(app', game) /\ app'.clock = Running(app', game)
    BY <1>4, <2>1 DEF Views, Matches, Running, HasRenderer
  <2>3. QED
    BY <1>3, <2>2
<1>9. CASE Stop
  <2>1. app' = [app EXCEPT !.started = FALSE]
    BY <1>9 DEF Stop
  <2>2. app' \in Views /\ Matches(app', game) /\ app'.clock = Running(app', game)
    BY <1>2, <2>1 DEF Views, Matches, Running, HasRenderer
  <2>3. QED
    BY <1>3, <2>2
<1>10. CASE Pause
  <2> DEFINE r == [q EXCEPT !.resumed = FALSE]
  <2>1. app' = Updated(r, game)
    BY <1>5, <1>10 DEF Pause, Resumed
  <2>2. r \in Views /\ Matches(r, game)
    BY <1>4 DEF Views, Matches
  <2> HIDE DEF r
  <2>3. QED
    BY <1>3, <2>1, <2>2, UpdatedFacts
<1>11. QED
  BY <1>6, <1>7, <1>8, <1>9, <1>10

LEMMA OnPuzzleKeeps ==
    ASSUME ViewInv, OnPuzzle
    PROVE  ViewInv'
<1>1. Idle
  BY DEF OnPuzzle
<1>2. Updated(app, game) \in Views /\ Matches(Updated(app, game), game)
      /\ Updated(app, game).pending = app.pending /\ app \in Views /\ Matches(app, game)
  BY <1>1, IdleFacts, UpdatedFacts
<1>3. CASE app.pending
  BY <1>2, <1>3, TakeKeeps DEF OnPuzzle, Sources
<1>4. CASE ~app.pending
  <2>1. app' = Updated(app, game') /\ UNCHANGED <<game, main>>
    BY <1>4 DEF OnPuzzle
  <2>2. app' \in Views /\ app'.clock = Running(app', game') /\ Matches(app', game')
    BY <1>2, <2>1, UpdatedFacts
  <2>3. QED
    BY <1>1, <2>1, <2>2, IdleFacts, IdleHolds
<1>5. QED
  BY <1>3, <1>4

(* start_game() ends with the puzzle, or waits for one.                    *)
LEMMA StartEndsKeeps ==
    ASSUME ViewInv, main.at = "taking", NEW a \in Views, Matches(a, game'), StartEnds(a),
           app = Launched => ~a.clock /\ ~a.resumed,
           main' \in [at : {"idle"}, from : Sources]
    PROVE  ViewInv'
<1>1. CASE main.from = "create"
  <2>1. app' = a /\ ~a.clock /\ ~a.resumed
    BY <1>1 DEF StartEnds, ViewInv, LaunchOK
  <2>2. Running(a, game') = FALSE /\ a.clock = FALSE
    BY <2>1 DEF Running, HasRenderer, Views
  <2>3. QED
    BY <2>1, <2>2, IdleHolds
<1>2. CASE main.from # "create"
  <2>1. app' = Updated(a, game')
    BY <1>2 DEF StartEnds
  <2>2. QED
    BY <2>1, UpdatedFacts, IdleHolds
<1>3. QED
  BY <1>1, <1>2

LEMMA TakingKeeps ==
    ASSUME ViewInv, NoPuzzle \/ NewGame \/ NoMemory
    PROVE  ViewInv'
<1>1. main.at = "taking" /\ main' = Idling
  BY DEF NoPuzzle, NewGame, NoMemory
<1>2. app \in Views /\ Matches(app, game) /\ main' \in [at : {"idle"}, from : Sources]
  BY <1>1 DEF ViewInv, AppOK, DialogOK, Alive, Idling, Sources
<1> DEFINE a == [Unviewed(app) EXCEPT !.pending = TRUE]
           b == [Unviewed(app) EXCEPT !.pending = FALSE, !.shown = FALSE, !.flash = FALSE]
           c == [app EXCEPT !.pending = TRUE]
<1>3. /\ a \in Views /\ \A g : Matches(a, g)
      /\ a.clock = app.clock /\ a.resumed = app.resumed
  BY <1>2 DEF Unviewed, Views, Matches
<1>4. /\ b \in Views /\ \A g : Matches(b, g)
      /\ b.clock = app.clock /\ b.resumed = app.resumed
  BY <1>2 DEF Unviewed, Views, Matches
<1>5. /\ c \in Views /\ Matches(c, game)
      /\ c.clock = app.clock /\ c.resumed = app.resumed
  BY <1>2 DEF Views, Matches
<1>6. app = Launched => ~app.clock /\ ~app.resumed
  BY LaunchedFacts
<1>7. \/ StartEnds(a) \/ StartEnds(b)
      \/ UNCHANGED game /\ StartEnds(c)
  BY DEF NoPuzzle, NewGame, NoMemory
<1> HIDE DEF a, b, c
<1>8. CASE StartEnds(a)
  BY <1>1, <1>2, <1>3, <1>6, <1>8, StartEndsKeeps
<1>9. CASE StartEnds(b)
  BY <1>1, <1>2, <1>4, <1>6, <1>9, StartEndsKeeps
<1>10. CASE UNCHANGED game /\ StartEnds(c)
  <2>1. Matches(c, game')
    BY <1>5, <1>10
  <2>2. QED
    BY <1>1, <1>2, <1>5, <1>6, <1>10, <2>1, StartEndsKeeps
<1>11. QED
  BY <1>7, <1>8, <1>9, <1>10

(* The process begins and ends.                                            *)
LEMMA ProcessKeeps ==
    ASSUME ViewInv, Destroy \/ Join \/ Die \/ Launch
    PROVE  ViewInv'
<1>1. Progress(NoGame) = FALSE
  BY DEF Progress, Playing, StatusOf
<1>2. CASE Destroy \/ Join \/ Die
  <2>1. app' = Launched /\ main'.at \in {"joining", "dead"} /\ main'.from = "none"
        /\ main' \in [at : {"joining", "dead"}, from : Sources]
    BY <1>2 DEF Destroy, Join, Die, Ended, ViewInv, LaunchOK, Sources
  <2>2. QED
    BY <2>1, LaunchedFacts DEF ViewInv, AppOK, LaunchOK, DialogOK, Alive, Idle, ClockRunsWhilePlaying,
       AskedBeforeReplacing, Sources
<1>3. CASE Launch
  <2>1. app' = Launched
    BY <1>3 DEF Launch, ViewInv, LaunchOK
  <2>2. CASE main' = Idling
    <3>1. Running(Launched, game') = FALSE /\ Launched.clock = FALSE
      BY LaunchedFacts DEF Running, HasRenderer, Launched
    <3>2. main'.at = "idle" /\ main' \in [at : {"idle"}, from : Sources]
      BY <2>2 DEF Idling, Sources
    <3>3. QED
      BY <2>1, <3>1, <3>2, LaunchedFacts, IdleHolds
  <2>3. CASE main' = [at |-> "taking", from |-> "create"] /\ game' = NoGame
    <3>1. main'.at = "taking" /\ main'.from = "create"
      BY <2>3
    <3>2. QED
      BY <1>1, <2>1, <2>3, <3>1, LaunchedFacts DEF ViewInv, AppOK, LaunchOK, DialogOK, Alive, Idle,
         ClockRunsWhilePlaying, AskedBeforeReplacing, Sources
  <2>4. QED
    BY <1>3, <2>2, <2>3 DEF Launch
<1>4. QED
  BY <1>2, <1>3
-------------------------------------------------------------------------------
LEMMA ViewInit == Init => ViewInv
  BY LaunchedFacts DEF Init, Ended, ViewInv, AppOK, LaunchOK, DialogOK, Alive, Idle, ClockRunsWhilePlaying,
     AskedBeforeReplacing

LEMMA ViewNext == ViewInv /\ [Next]_vars => ViewInv'
<1> SUFFICES ASSUME ViewInv, [Next]_vars PROVE ViewInv'
  OBVIOUS
<1>1. ASSUME UNCHANGED <<game, app, main>> PROVE ViewInv'
  BY <1>1 DEF ViewInv, AppOK, LaunchOK, DialogOK, Alive, Idle, ClockRunsWhilePlaying, AskedBeforeReplacing
<1>2. CASE Generates \/ Wakes
  BY <1>1, <1>2 DEF Generates, Wakes
<1>3. CASE UNCHANGED vars
  BY <1>1, <1>3 DEF vars
<1>4. QED
  BY <1>2, <1>3, PressKeeps, TouchKeeps, BackKeeps, SettlingKeeps, UnsettledKeeps, OnPuzzleKeeps,
     TakingKeeps, ProcessKeeps DEF Next

LEMMA ViewHolds == Spec => []ViewInv
  BY ViewInit, ViewNext, PTL DEF Spec

(* The clock runs exactly while the game on the screen is played.          *)
THEOREM ClockStaysRight == Spec => []ClockRunsWhilePlaying
<1>1. ViewInv => ClockRunsWhilePlaying
  BY DEF ViewInv
<1>2. QED
  BY <1>1, ViewHolds, PTL

(* No game with progress is replaced without the user having said so       *)
(* (app.cc, request_new_game() and start_game()).                          *)
THEOREM ProgressIsAskedFor == Spec => []AskedBeforeReplacing
<1>1. ViewInv => AskedBeforeReplacing
  BY DEF ViewInv
<1>2. QED
  BY <1>1, ViewHolds, PTL

(* What the dialog and the pause say is true of the game on the screen     *)
(* (app.cc, update() and activate()).                                      *)
THEOREM DialogsStayTrue == Spec => []DialogMatches
<1>1. ViewInv => DialogMatches
  BY DEF ViewInv, DialogOK, Alive, Idle, Matches, DialogMatches
<1>2. QED
  BY <1>1, ViewHolds, PTL
-------------------------------------------------------------------------------
(* The game and the file.                                                  *)

GameOK == game = NoGame \/ Kept(game)
FileOK == /\ disk \in [file : Game \cup {Absent, Unreadable}, saved : BOOLEAN]
          /\ disk.file \in {Absent, Unreadable} \/ Kept(disk.file)

(* A save that succeeded is of the game on the screen, whatever cell was   *)
(* selected since.                                                         *)
SameBut(file, g) == [file EXCEPT !.selected = g.selected] = g
SavedOK == game # NoGame /\ disk.saved => SameBut(disk.file, game)
RestOK == gen \in Generators /\ edits \in 0 .. MaxEdits

GameInv == GameOK /\ FileOK /\ SavedOK /\ RestOK

LEMMA KeptIsGame ==
    ASSUME NEW g, Kept(g)
    PROVE  g \in Game /\ g # NoGame /\ g \notin {Absent, Unreadable} /\ Loadable(g)
<1>1. g \in Game /\ Loadable(g)
  BY DEF Kept
<1>2. g # NoGame
  <2>1. "values" \in DOMAIN g /\ DOMAIN NoGame = {"puzzle"}
    BY <1>1 DEF Game, NoGame
  <2>2. QED
    BY <2>1
<1>3. QED
  BY <1>1, <1>2, AppAssumption

(* Saving replaces the file, or not, but never says so of an older one.    *)
LEMMA SaveKeeps ==
    ASSUME GameInv, Kept(game'), Save(game')
    PROVE  FileOK' /\ SavedOK'
<1>1. game' \in Game /\ game' # NoGame /\ game' \notin {Absent, Unreadable}
  BY KeptIsGame
<1>2. disk' \in {[file |-> disk.file, saved |-> FALSE], [file |-> game', saved |-> FALSE],
                [file |-> game', saved |-> TRUE]}
  BY <1>1 DEF Save, SaveFile
<1>3. FileOK'
  <2>1. disk.file \in Game \cup {Absent, Unreadable} /\ (disk.file \in {Absent, Unreadable} \/ Kept(disk.file))
    BY DEF GameInv, FileOK
  <2>2. disk' \in [file : {disk.file, game'}, saved : BOOLEAN]
    <3>1. PICK file \in {disk.file, game'}, saved \in BOOLEAN : disk' = [file |-> file, saved |-> saved]
      BY <1>2
    <3>2. QED
      BY <3>1
  <2>3. disk' \in [file : Game \cup {Absent, Unreadable}, saved : BOOLEAN]
    BY <1>1, <2>1, <2>2
  <2>4. disk'.file \in {Absent, Unreadable} \/ Kept(disk'.file)
    <3>1. disk'.file = disk.file \/ disk'.file = game'
      BY <2>2
    <3>2. QED
      BY <2>1, <3>1
  <2>5. QED
    BY <2>3, <2>4 DEF FileOK
<1>4. game' = [game' EXCEPT !.selected = game'.selected]
  BY <1>1 DEF Game
<1>5. SavedOK'
  BY <1>2, <1>4 DEF SavedOK, SameBut
<1>6. QED
  BY <1>3, <1>5

LEMMA SameGameKeeps ==
    ASSUME GameInv, UNCHANGED <<game, disk, edits>>, gen' \in Generators
    PROVE  GameInv'
  BY DEF GameInv, GameOK, FileOK, SavedOK, RestOK

LEMMA GeneratorsKept ==
    ASSUME NEW g \in Generators
    PROVE  /\ Signalled(g) \in Generators /\ Taken(g) \in Generators
           /\ [g EXCEPT !.readable = FALSE] \in Generators
           /\ Signalled([g EXCEPT !.stopping = TRUE]) \in Generators
           /\ Generating \in Generators
  BY DEF Generators, Signalled, Taken, Generating

(* activate() makes a move of the game or starts another.                  *)
LEMMA PlayedKept ==
    ASSUME NEW hit, hit.target = "digit" => hit.index \in Digits, NEW a, NEW g, g = NoGame \/ Kept(g)
    PROVE  Played(hit, a, g) = g \/ Kept(Played(hit, a, g))
<1>1. CASE ~Interactive(a, g)
  BY <1>1 DEF Played
<1>2. CASE Interactive(a, g)
  <2>1. Kept(g)
    BY <1>2 DEF Interactive, Playing, StatusOf
  <2>2. Played(hit, a, g) \in {g, Erases(g), Undoes(g), Toggles(g)} \cup {Enters(g, digit) : digit \in Digits}
    BY <1>2 DEF Played
  <2>3. QED
    BY <2>1, <2>2, PlayKept
<1>3. QED
  BY <1>1, <1>2

LEMMA ActivateKeepsGame ==
    ASSUME GameInv, NEW hit, hit.target = "digit" => hit.index \in Digits, NEW a, Activate(hit, a)
    PROVE  GameInv'
<1>1. CASE Starts(hit, a, game)
  <2>1. gen' = [gen EXCEPT !.readable = FALSE] /\ UNCHANGED <<game, disk, edits>>
    BY <1>1 DEF Activate, TakeFrom
  <2>2. QED
    BY <2>1, SameGameKeeps, GeneratorsKept DEF GameInv, RestOK
<1>2. CASE ~Starts(hit, a, game)
  <2> DEFINE g == Played(hit, a, game)
  <2>1. /\ game' = g /\ UNCHANGED gen
        /\ IF g = game THEN UNCHANGED <<disk, edits>> ELSE Edited /\ Save(g)
    BY <1>2 DEF Activate
  <2>2. g = game \/ Kept(g)
    BY PlayedKept DEF GameInv, GameOK
  <2> HIDE DEF g
  <2>3. CASE g = game
    BY <2>1, <2>3, SameGameKeeps DEF GameInv, RestOK
  <2>4. CASE g # game
    <3>1. Kept(game') /\ Save(game')
      BY <2>1, <2>2, <2>4
    <3>2. edits' \in 0 .. MaxEdits
      BY <2>1, <2>4, AppAssumption DEF GameInv, RestOK, Edited
    <3>3. QED
      BY <2>1, <3>1, <3>2, SaveKeeps DEF GameInv, GameOK, RestOK
  <2>5. QED
    BY <2>3, <2>4
<1>3. QED
  BY <1>1, <1>2

(* The selected cell is not saved until the next move.                     *)
LEMMA SelectKeepsGame ==
    ASSUME GameInv, game # NoGame, NEW cell \in Cells, NEW a, SelectCell(cell, a)
    PROVE  GameInv'
<1>1. game' = Selects(game, cell) /\ UNCHANGED <<gen, disk, edits>>
  BY DEF SelectCell
<1>2. Kept(game) /\ Kept(game') /\ game' = [game EXCEPT !.selected = cell]
  BY <1>1, SelectsKept DEF GameInv, GameOK
<1>3. ASSUME disk.saved PROVE SameBut(disk.file, game')
  <2>1. [disk.file EXCEPT !.selected = game.selected] = game
    BY <1>3 DEF GameInv, SavedOK, SameBut
  <2>2. game'.selected = cell
    BY <1>2 DEF Kept, Game
  <2>4. [[disk.file EXCEPT !.selected = game.selected] EXCEPT !.selected = cell]
          = [disk.file EXCEPT !.selected = cell]
    OBVIOUS
  <2>5. QED
    BY <1>2, <2>1, <2>2, <2>4 DEF SameBut
<1>4. QED
  BY <1>1, <1>2, <1>3 DEF GameInv, GameOK, FileOK, SavedOK, RestOK
(* The user's callbacks.                                                   *)
LEMMA PressKeepsGame ==
    ASSUME GameInv, NEW key \in Keys, Press(key)
    PROVE  GameInv'
<1> DEFINE a == [Updated(app, game) EXCEPT !.pressed = None]
<1>1. \/ Activate(Hit("primary", -1), a) \/ Activate(Hit("resume", -1), a)
      \/ Activate(key, a)
      \/ game # NoGame /\ key.target = "cell" /\ SelectCell(key.index, a)
  BY DEF Press, Presses
<1>2. /\ key.target = "cell" => key.index \in Cells
      /\ key.target = "digit" => key.index \in Digits
  BY AppAssumption
<1>3. Hit("primary", -1).target # "digit" /\ Hit("resume", -1).target # "digit"
  BY DEF Hit
<1> HIDE DEF a
<1>4. QED
  BY <1>1, <1>2, <1>3, ActivateKeepsGame, SelectKeepsGame

LEMMA TouchKeepsGame ==
    ASSUME GameInv, NEW place \in Places, TouchDown(place) \/ TouchUp(place)
    PROVE  GameInv'
<1> DEFINE a == Updated(app, game)
           hit == HitTest(place, a, game)
           b == [a EXCEPT !.pressed = None]
           c == [a EXCEPT !.pressed = hit]
<1>1. \/ hit.target = "cell" /\ SelectCell(hit.index, b)
      \/ Settles(c) \/ Activate(hit, a) \/ Settles(b)
  BY DEF TouchDown, TouchUp
<1>2. /\ hit.target = "cell" => hit = place /\ game # NoGame
      /\ hit.target = "digit" => hit = place
  BY DEF HitTest, None, Hit
<1>3. /\ place.target = "cell" => place.index \in Cells
      /\ place.target = "digit" => place.index \in Digits
  BY AppAssumption
<1> HIDE DEF hit
<1>4. /\ hit.target = "cell" => hit.index \in Cells /\ game # NoGame
      /\ hit.target = "digit" => hit.index \in Digits
  BY <1>2, <1>3
<1>5. CASE Settles(b) \/ Settles(c)
  <2>1. UNCHANGED <<game, gen, disk, edits>>
    BY <1>5 DEF Settles
  <2>2. QED
    BY <2>1, SameGameKeeps DEF GameInv, RestOK
<1> HIDE DEF a, b, c
<1>6. QED
  BY <1>1, <1>4, <1>5, ActivateKeepsGame, SelectKeepsGame

LEMMA BackKeepsGame ==
    ASSUME GameInv, Back
    PROVE  GameInv'
<1>1. Activate(Hit("secondary", -1), Updated(app, game)) /\ Hit("secondary", -1).target # "digit"
  BY DEF Back, Hit
<1>2. QED
  BY <1>1, ActivateKeepsGame

(* The callbacks and steps that only look at the game.                     *)
LEMMA OthersKeepGame ==
    ASSUME GameInv,
           \/ FingerLeaves \/ InputDestroyed \/ ContentChanged \/ ConfigurationChanged
           \/ Tick \/ Draw \/ Redraw \/ WindowCreated \/ WindowDestroyed
           \/ Start \/ Stop \/ Resume \/ FlashEnds \/ OnPuzzle \/ NoMemory \/ Generates \/ Wakes
    PROVE  GameInv'
<1>1. gen \in Generators
  BY DEF GameInv, RestOK
<1>2. CASE \/ FingerLeaves \/ InputDestroyed \/ ContentChanged \/ ConfigurationChanged
           \/ Tick \/ Draw \/ Redraw \/ WindowCreated \/ WindowDestroyed
           \/ Start \/ Stop \/ Resume \/ FlashEnds
  <2>1. UNCHANGED <<game, gen, disk, edits>>
    BY <1>2 DEF FingerLeaves, InputDestroyed, ContentChanged, ConfigurationChanged, Tick, Draw, Redraw,
       WindowCreated, WindowDestroyed, Start, Stop, Resume, FlashEnds, Settles, vars
  <2>2. QED
    BY <1>1, <2>1, SameGameKeeps
<1>3. CASE OnPuzzle
  <2>1. UNCHANGED <<game, disk, edits>> /\ gen' = [gen EXCEPT !.readable = FALSE]
    BY <1>3 DEF OnPuzzle, TakeFrom
  <2>2. QED
    BY <1>1, <2>1, SameGameKeeps, GeneratorsKept
<1>4. CASE NoMemory
  BY <1>1, <1>4, SameGameKeeps, GeneratorsKept DEF NoMemory
<1>5. CASE Generates
  <2>1. gen' \in Generators
    BY <1>1, <1>5 DEF Generates, Generators
  <2>2. QED
    BY <1>5, <2>1, SameGameKeeps DEF Generates
<1>6. CASE Wakes
  <2>1. gen' \in Generators
    BY <1>1, <1>6 DEF Wakes, Generators
  <2>2. QED
    BY <1>6, <2>1, SameGameKeeps DEF Wakes
<1>7. QED
  BY <1>2, <1>3, <1>4, <1>5, <1>6

(* The process begins and ends, saves when it pauses, and starts a game.   *)
LEMMA ReplacingKeepsGame ==
    ASSUME GameInv, Pause \/ Destroy \/ Join \/ Die \/ Launch \/ NoPuzzle \/ NewGame
    PROVE  GameInv'
<1>1. gen \in Generators /\ edits \in 0 .. MaxEdits
  BY DEF GameInv, RestOK
<1>2. ASSUME game' = NoGame, UNCHANGED <<disk, edits>>, gen' \in Generators PROVE GameInv'
  BY <1>1, <1>2 DEF GameInv, GameOK, FileOK, SavedOK, RestOK
<1>3. ASSUME Kept(game'), Save(game'), UNCHANGED edits, gen' \in Generators PROVE GameInv'
  BY <1>1, <1>3, SaveKeeps DEF GameInv, GameOK, RestOK
<1>4. CASE Pause
  <2>1. CASE game = NoGame
    BY <1>1, <1>2, <1>4, <2>1 DEF Pause, Save
  <2>2. CASE game # NoGame
    <3>1. game' = game /\ Save(game') /\ UNCHANGED <<gen, edits>>
      BY <1>4 DEF Pause
    <3>2. Kept(game')
      BY <2>2, <3>1 DEF GameInv, GameOK
    <3>3. QED
      BY <1>1, <1>3, <3>1, <3>2
  <2>3. QED
    BY <2>1, <2>2
<1>5. CASE Destroy
  <2>1. game' = NoGame /\ UNCHANGED <<disk, edits>> /\ gen' = Signalled([gen EXCEPT !.stopping = TRUE])
    BY <1>5 DEF Destroy
  <2>2. QED
    BY <1>1, <1>2, <2>1, GeneratorsKept
<1>6. CASE Join
  <2>1. UNCHANGED <<game, disk, edits>> /\ gen' = Generating
    BY <1>6 DEF Join
  <2>2. QED
    BY <1>1, <2>1, SameGameKeeps, GeneratorsKept
<1>7. CASE Die
  <2>1. game' = NoGame /\ UNCHANGED <<disk, edits>> /\ gen' = Generating
    BY <1>7 DEF Die
  <2>2. QED
    BY <1>1, <1>2, <2>1, GeneratorsKept
<1>8. CASE NoPuzzle
  BY <1>1, <1>2, <1>8 DEF NoPuzzle
<1>9. CASE NewGame
  <2>1. PICK puzzle \in Puzzles : game' = Created(puzzle)
    BY <1>9 DEF NewGame
  <2>2. Save(game') /\ UNCHANGED edits /\ gen' = Taken(gen)
    BY <1>9 DEF NewGame
  <2>3. QED
    BY <1>1, <1>3, <2>1, <2>2, CreatedKept, GeneratorsKept
<1>10. CASE Launch
  <2>1. PICK file \in LoadFile(disk) :
           IF file \notin {Absent, Unreadable} /\ Loadable(file)
             THEN game' = file ELSE game' = NoGame
    BY <1>10 DEF Launch
  <2>2. UNCHANGED <<gen, disk, edits>>
    BY <1>10 DEF Launch
  <2>3. CASE game' = NoGame
    BY <1>1, <1>2, <2>2, <2>3
  <2>4. CASE file \notin {Absent, Unreadable} /\ game' = file
    <3>1. file = disk.file
      BY <2>1, <2>4 DEF LoadFile
    <3>2. Kept(game')
      BY <2>4, <3>1 DEF GameInv, FileOK
    <3>3. SameBut(disk'.file, game')
      BY <2>2, <2>4, <3>1, <3>2 DEF SameBut, Kept, Game
    <3>4. QED
      BY <1>1, <2>2, <3>2, <3>3 DEF GameInv, GameOK, FileOK, SavedOK, RestOK
  <2>5. QED
    BY <2>1, <2>3, <2>4
<1>11. QED
  BY <1>4, <1>5, <1>6, <1>7, <1>8, <1>9, <1>10

LEMMA GameInit == Init => GameInv
<1> SUFFICES ASSUME Init PROVE GameInv
  OBVIOUS
<1>1. game = NoGame /\ gen = Generating /\ edits = 0
  BY DEF Init
<1>2. PICK file \in FilesFirst : disk = [file |-> file, saved |-> FALSE]
  BY DEF Init
<1>3. file \in {Absent, Unreadable} \/ Kept(file)
  BY AppAssumption
<1>4. FileOK /\ ~disk.saved
  BY <1>2, <1>3, KeptIsGame DEF FileOK
<1>5. Generating \in Generators
  BY DEF Generating, Generators
<1>6. QED
  BY <1>1, <1>4, <1>5, AppAssumption DEF GameInv, GameOK, SavedOK, RestOK

LEMMA GameNext == GameInv /\ [Next]_vars => GameInv'
<1> SUFFICES ASSUME GameInv, [Next]_vars PROVE GameInv'
  OBVIOUS
<1>1. CASE UNCHANGED vars
  BY <1>1, SameGameKeeps DEF vars, GameInv, RestOK
<1>2. CASE Next
  BY <1>2, PressKeepsGame, TouchKeepsGame, BackKeepsGame, OthersKeepGame, ReplacingKeepsGame DEF Next
<1>3. QED
  BY <1>1, <1>2

LEMMA GameHolds == Spec => []GameInv
  BY GameInit, GameNext, PTL DEF Spec

(* The types, and that no pencil mark hides under a digit.                 *)
THEOREM TypesKept == Spec => []TypeOK
<1>1. ViewInv /\ GameInv => TypeOK
  BY KeptIsGame DEF ViewInv, AppOK, GameInv, GameOK, FileOK, RestOK, Kept, TypeOK
<1>2. QED
  BY <1>1, ViewHolds, GameHolds, PTL

(* What is left on disk can be loaded, and holds every move of the game on *)
(* the screen once a save succeeded (app.cc, save() and create_app()).     *)
THEOREM MovesStaySaved == Spec => []MovesSurvive
<1>1. GameInv => MovesSurvive
  BY KeptIsGame DEF GameInv, FileOK, SavedOK, SameBut, MovesSurvive
<1>2. QED
  BY <1>1, GameHolds, PTL
-------------------------------------------------------------------------------
(* Histories.                                                              *)

(* Parts of two sequences with the same members are the same.              *)
LEMMA SameSubSeq ==
    ASSUME NEW S, NEW s \in Seq(S), NEW t \in Seq(S), NEW m \in Nat, NEW k \in Nat, NEW size \in Nat,
           m + size <= Len(s), k + size <= Len(t),
           \A i \in 1 .. size : s[m + i] = t[k + i]
    PROVE  SubSeq(s, m + 1, m + size) = SubSeq(t, k + 1, k + size)
<1> DEFINE a == SubSeq(s, m + 1, m + size)
           b == SubSeq(t, k + 1, k + size)
<1>1. \A i \in m + 1 .. m + size : s[i] \in S
  <2> TAKE i \in m + 1 .. m + size
  <2>1. i \in 1 .. Len(s)
    OBVIOUS
  <2>2. QED
    BY <2>1, ElementOfSeq
<1>2. \A i \in k + 1 .. k + size : t[i] \in S
  <2> TAKE i \in k + 1 .. k + size
  <2>1. i \in 1 .. Len(t)
    OBVIOUS
  <2>2. QED
    BY <2>1, ElementOfSeq
<1>3. /\ a \in Seq(S) /\ Len(a) = IF m + 1 <= m + size THEN (m + size) - (m + 1) + 1 ELSE 0
      /\ \A i \in 1 .. (m + size) - (m + 1) + 1 : a[i] = s[(m + 1) + i - 1]
  BY <1>1, SubSeqProperties
<1>4. /\ b \in Seq(S) /\ Len(b) = IF k + 1 <= k + size THEN (k + size) - (k + 1) + 1 ELSE 0
      /\ \A i \in 1 .. (k + size) - (k + 1) + 1 : b[i] = t[(k + 1) + i - 1]
  BY <1>2, SubSeqProperties
<1> HIDE DEF a, b
<1>5. Len(a) = size /\ Len(b) = size
  BY <1>3, <1>4
<1>6. \A i \in 1 .. size : a[i] = b[i]
  <2> TAKE i \in 1 .. size
  <2>1. /\ i \in 1 .. (m + size) - (m + 1) + 1 /\ (m + 1) + i - 1 = m + i
        /\ i \in 1 .. (k + size) - (k + 1) + 1 /\ (k + 1) + i - 1 = k + i
    OBVIOUS
  <2>2. a[i] = s[m + i] /\ b[i] = t[k + i]
    BY <1>3, <1>4, <2>1
  <2>3. QED
    BY <2>2
<1>7. a = b
  BY <1>3, <1>4, <1>5, <1>6, SeqEqual
<1>8. QED
  BY <1>7 DEF a, b
(* A part of a sequence is still there when more follows.                  *)
LEMMA ConcatPart ==
    ASSUME NEW S, NEW s \in Seq(S), NEW t \in Seq(S), NEW m \in Nat, NEW size \in Nat,
           m + size <= Len(s)
    PROVE  SubSeq(s \o t, m + 1, m + size) = SubSeq(s, m + 1, m + size)
<1> DEFINE u == s \o t
<1>1. /\ u \in Seq(S) /\ Len(u) = Len(s) + Len(t) /\ Len(s) \in Nat /\ Len(t) \in Nat
      /\ \A i \in 1 .. Len(s) + Len(t) : u[i] = IF i <= Len(s) THEN s[i] ELSE t[i - Len(s)]
  BY ConcatProperties
<1> HIDE DEF u
<1>2. m + size <= Len(u)
  BY <1>1
<1>3. ASSUME NEW j \in 1 .. size PROVE u[m + j] = s[m + j]
  <2>1. m + j \in 1 .. Len(s) + Len(t) /\ m + j <= Len(s)
    BY <1>1
  <2>2. QED
    BY <1>1, <2>1
<1>4. \A j \in 1 .. size : u[m + j] = s[m + j]
  BY <1>3
<1>5. SubSeq(u, m + 1, m + size) = SubSeq(s, m + 1, m + size)
  BY <1>1, <1>2, <1>4, SameSubSeq
<1>6. QED
  BY <1>5 DEF u
-------------------------------------------------------------------------------
(* The changes of the i-th move are those after the first f[i - 1], and    *)
(* b[i - 1] is the board before it.                                        *)
Sums(moves, changes, f) ==
    /\ f \in [0 .. Len(moves) -> Nat] /\ f[0] = 0 /\ f[Len(moves)] = Len(changes)
    /\ \A i \in 1 .. Len(moves) : f[i] = f[i - 1] + moves[i]
Rewinds(moves, changes, board, f, b) ==
    /\ Sums(moves, changes, f)
    /\ b[Len(moves)] = board
    /\ \A i \in 1 .. Len(moves) : b[i - 1] = Restored(b[i], SubSeq(changes, f[i - 1] + 1, f[i]))

LEMMA SumsFacts ==
    ASSUME NEW moves \in Seq(Nat), NEW changes, NEW f, Sums(moves, changes, f)
    PROVE  /\ \A i \in 0 .. Len(moves) : f[i] \in Nat /\ f[i] <= Len(changes)
           /\ \A i \in 1 .. Len(moves) : f[i - 1] \in Nat /\ moves[i] \in Nat /\ f[i] = f[i - 1] + moves[i]
<1> DEFINE n == Len(moves)
<1>1. /\ n \in Nat /\ f \in [0 .. n -> Nat] /\ f[n] = Len(changes)
      /\ \A i \in 1 .. n : f[i] = f[i - 1] + moves[i] /\ moves[i] \in Nat
  BY DEF Sums
<1>2. \A i \in 0 .. n : f[i] \in Nat
  BY <1>1
<1> DEFINE T == {k \in 0 .. n : ~(f[n - k] <= f[n])}
<1>3. T = {}
  <2>1. SUFFICES ASSUME T # {} PROVE FALSE
    OBVIOUS
  <2>2. T \subseteq Nat
    BY DEF T
  <2> HIDE DEF T
  <2>3. PICK k \in T : \A j \in T : k <= j
    BY <2>1, <2>2, Least
  <2>4. k \in 0 .. n /\ ~(f[n - k] <= f[n])
    BY DEF T
  <2>5. n \in 0 .. n /\ f[n] \in Nat
    BY <1>1, <1>2
  <2>6. k # 0
    BY <1>1, <2>4, <2>5
  <2>7. k - 1 \in 0 .. n /\ k - 1 \notin T /\ n - (k - 1) \in 1 .. n /\ (n - (k - 1)) - 1 = n - k
        /\ n - k \in 0 .. n /\ n - (k - 1) \in 0 .. n
    BY <1>1, <2>3, <2>4, <2>6
  <2>8. f[n - (k - 1)] <= f[n]
    BY <2>7 DEF T
  <2>9. f[n - (k - 1)] = f[n - k] + moves[n - (k - 1)] /\ moves[n - (k - 1)] \in Nat
    BY <1>1, <2>7
  <2>10. f[n - k] \in Nat
    BY <1>2, <2>7
  <2>11. QED
    BY <2>4, <2>5, <2>8, <2>9, <2>10
<1>4. ASSUME NEW i \in 0 .. n PROVE f[i] <= f[n]
  <2> HIDE DEF T
  <2>1. n - i \in 0 .. n /\ n - (n - i) = i /\ n - i \notin T
    BY <1>1, <1>3
  <2>2. f[n - (n - i)] <= f[n]
    BY <2>1 DEF T
  <2>3. QED
    BY <2>1, <2>2
<1>5. \A i \in 1 .. n : i - 1 \in 0 .. n
  BY <1>1
<1>6. QED
  BY <1>1, <1>2, <1>4, <1>5
Before(n, b) == [i \in 1 .. n |-> b[i - 1]]

(* What Rewound computes, from the newest move to the oldest.              *)
LEMMA RewoundIs ==
    ASSUME NEW g, g.moves \in Seq(Nat), NEW f, NEW b, Rewinds(g.moves, g.changes, Board(g), f, b)
    PROVE  Rewound(g) = Before(Len(g.moves), b)
<1> DEFINE n == Len(g.moves)
           start == CHOOSE start : start = [i \in 1 .. n + 1 |->
                       IF i = n + 1 THEN Len(g.changes) + 1 ELSE start[i + 1] - g.moves[i]]
           before == CHOOSE before : before = [i \in 1 .. n + 1 |->
                       IF i = n + 1 THEN Board(g)
                       ELSE Restored(before[i + 1], SubSeq(g.changes, start[i], start[i + 1] - 1))]
           s == [i \in 1 .. n + 1 |-> f[i - 1] + 1]
           c == [i \in 1 .. n + 1 |-> b[i - 1]]
<1>0. n \in Nat
  OBVIOUS
<1>1. /\ n \in Nat /\ f[n] = Len(g.changes) /\ f[n] \in Nat /\ b[n] = Board(g)
      /\ \A i \in 1 .. n : /\ f[i - 1] \in Nat /\ g.moves[i] \in Nat /\ f[i] = f[i - 1] + g.moves[i]
                          /\ b[i - 1] = Restored(b[i], SubSeq(g.changes, f[i - 1] + 1, f[i]))
  <2>1. Sums(g.moves, g.changes, f) /\ n \in Nat /\ n \in 0 .. n
    BY DEF Rewinds
  <2>2. /\ \A i \in 0 .. n : f[i] \in Nat
        /\ \A i \in 1 .. n : f[i - 1] \in Nat /\ g.moves[i] \in Nat /\ f[i] = f[i - 1] + g.moves[i]
    BY <2>1, SumsFacts
  <2>3. f[n] = Len(g.changes) /\ b[n] = Board(g)
    BY <2>1 DEF Rewinds, Sums
  <2>4. \A i \in 1 .. n : b[i - 1] = Restored(b[i], SubSeq(g.changes, f[i - 1] + 1, f[i]))
    BY DEF Rewinds
  <2>5. QED
    BY <2>1, <2>2, <2>3, <2>4
<1>2. Rewound(g) = [i \in 1 .. n |-> before[i]]
  BY DEF Rewound
<1>3. s = [i \in 1 .. n + 1 |-> IF i = n + 1 THEN Len(g.changes) + 1 ELSE s[i + 1] - g.moves[i]]
  <2>1. ASSUME NEW i \in 1 .. n + 1
        PROVE  s[i] = IF i = n + 1 THEN Len(g.changes) + 1 ELSE s[i + 1] - g.moves[i]
    <3>1. CASE i = n + 1
      BY <1>1, <3>1
    <3>2. CASE i # n + 1
      <4>1. i \in 1 .. n /\ i + 1 \in 1 .. n + 1 /\ (i + 1) - 1 = i
        BY <1>0, <3>2
      <4>2. s[i] = f[i - 1] + 1 /\ s[i + 1] = f[i] + 1
        BY <4>1
      <4>3. QED
        BY <1>1, <3>2, <4>1, <4>2, SMTT(20)
    <3>3. QED
      BY <3>1, <3>2
  <2>2. QED
    BY <2>1
<1>4. start = [i \in 1 .. n + 1 |-> IF i = n + 1 THEN Len(g.changes) + 1 ELSE start[i + 1] - g.moves[i]]
  <2> HIDE DEF s
  <2>1. QED
    BY <1>3
<1> HIDE DEF before, start
<1> DEFINE T == {k \in 0 .. n : start[n + 1 - k] # f[n - k] + 1}
<1>5. T = {}
  <2>1. SUFFICES ASSUME T # {} PROVE FALSE
    OBVIOUS
  <2>2. T \subseteq Nat
    BY DEF T
  <2> HIDE DEF T
  <2>3. PICK k \in T : \A j \in T : k <= j
    BY <2>1, <2>2, Least
  <2>4. k \in 0 .. n /\ start[n + 1 - k] # f[n - k] + 1
    BY DEF T
  <2>5. k # 0
    <3>1. n + 1 \in 1 .. n + 1
      BY <1>1
    <3>2. start[n + 1] = Len(g.changes) + 1
      BY <1>4, <3>1
    <3>3. QED
      BY <1>1, <2>4, <3>2
  <2> DEFINE i == n + 1 - k
  <2>6. k - 1 \in 0 .. n /\ k - 1 \notin T /\ i \in 1 .. n /\ i \in 1 .. n + 1 /\ i # n + 1
        /\ n + 1 - (k - 1) = i + 1 /\ n - (k - 1) = i /\ n - k = i - 1
    BY <1>1, <2>3, <2>4, <2>5
  <2>7. start[i + 1] = f[i] + 1
    BY <2>6 DEF T
  <2>8. start[i] = start[i + 1] - g.moves[i]
    BY <1>4, <2>6
  <2>9. start[i] # f[i - 1] + 1
    BY <2>4, <2>6
  <2> HIDE DEF i
  <2>10. f[i - 1] \in Nat /\ g.moves[i] \in Nat /\ f[i] = f[i - 1] + g.moves[i]
    BY <1>1, <2>6
  <2>11. start[i] = (f[i] + 1) - g.moves[i]
    BY <2>7, <2>8
  <2>12. QED
    BY <2>9, <2>10, <2>11
<1>6. \A i \in 1 .. n + 1 : start[i] = f[i - 1] + 1
  <2> TAKE i \in 1 .. n + 1
  <2> HIDE DEF T
  <2>1. n + 1 - i \in 0 .. n /\ n + 1 - i \notin T /\ n + 1 - (n + 1 - i) = i /\ n - (n + 1 - i) = i - 1
    BY <1>1, <1>5
  <2>2. start[n + 1 - (n + 1 - i)] = f[n - (n + 1 - i)] + 1
    BY <2>1 DEF T
  <2>3. QED
    BY <2>1, <2>2
<1>7. \A i \in 1 .. n : start[i] = f[i - 1] + 1 /\ start[i + 1] - 1 = f[i]
  <2> TAKE i \in 1 .. n
  <2>1. i \in 1 .. n + 1 /\ i + 1 \in 1 .. n + 1 /\ (i + 1) - 1 = i
    BY <1>1
  <2>2. start[i + 1] = f[i] + 1 /\ f[i] \in Int
    BY <1>1, <1>6, <2>1
  <2>3. QED
    BY <1>6, <2>1, <2>2
<1> HIDE DEF T
<1>8. c = [i \in 1 .. n + 1 |-> IF i = n + 1 THEN Board(g)
              ELSE Restored(c[i + 1], SubSeq(g.changes, start[i], start[i + 1] - 1))]
  <2>1. ASSUME NEW i \in 1 .. n + 1
        PROVE  c[i] = IF i = n + 1 THEN Board(g)
                      ELSE Restored(c[i + 1], SubSeq(g.changes, start[i], start[i + 1] - 1))
    <3>1. CASE i = n + 1
      BY <1>1, <3>1
    <3>2. CASE i # n + 1
      <4>1. i \in 1 .. n /\ i + 1 \in 1 .. n + 1 /\ (i + 1) - 1 = i
        BY <1>0, <3>2
      <4>2. c[i] = b[i - 1] /\ c[i + 1] = b[i]
        BY <4>1
      <4> HIDE DEF c
      <4>3. QED
        BY <1>1, <1>7, <3>2, <4>1, <4>2
    <3>3. QED
      BY <3>1, <3>2
  <2>2. QED
    BY <2>1
<1>9. before = [i \in 1 .. n + 1 |-> IF i = n + 1 THEN Board(g)
              ELSE Restored(before[i + 1], SubSeq(g.changes, start[i], start[i + 1] - 1))]
  <2> HIDE DEF c
  <2>1. QED
    BY <1>8 DEF before
<1> DEFINE U == {k \in 0 .. n : before[n + 1 - k] # b[n - k]}
<1>10. U = {}
  <2>1. SUFFICES ASSUME U # {} PROVE FALSE
    OBVIOUS
  <2>2. U \subseteq Nat
    BY DEF U
  <2> HIDE DEF U
  <2>3. PICK k \in U : \A j \in U : k <= j
    BY <2>1, <2>2, Least
  <2>4. k \in 0 .. n /\ before[n + 1 - k] # b[n - k]
    BY DEF U
  <2>5. k # 0
    <3>1. n + 1 \in 1 .. n + 1
      BY <1>1
    <3>2. before[n + 1] = Board(g)
      BY <1>9, <3>1
    <3>3. QED
      BY <1>1, <2>4, <3>2
  <2> DEFINE i == n + 1 - k
  <2>6. k - 1 \in 0 .. n /\ k - 1 \notin U /\ i \in 1 .. n /\ i \in 1 .. n + 1 /\ i # n + 1
        /\ n + 1 - (k - 1) = i + 1 /\ n - (k - 1) = i /\ n - k = i - 1
    BY <1>1, <2>3, <2>4, <2>5
  <2>7. before[i + 1] = b[i]
    BY <2>6 DEF U
  <2>8. before[i] = Restored(before[i + 1], SubSeq(g.changes, start[i], start[i + 1] - 1))
    BY <1>9, <2>6
  <2>9. before[i] # b[i - 1]
    BY <2>4, <2>6
  <2> HIDE DEF i
  <2>10. QED
    BY <1>1, <1>7, <2>6, <2>7, <2>8, <2>9
<1>11. \A i \in 1 .. n : before[i] = b[i - 1]
  <2> TAKE i \in 1 .. n
  <2> HIDE DEF U
  <2>1. n + 1 - i \in 0 .. n /\ n + 1 - i \notin U /\ n + 1 - (n + 1 - i) = i /\ n - (n + 1 - i) = i - 1
    BY <1>1, <1>10
  <2>2. before[n + 1 - (n + 1 - i)] = b[n - (n + 1 - i)]
    BY <2>1 DEF U
  <2>3. QED
    BY <2>1, <2>2
<1>12. QED
  BY <1>2, <1>11 DEF Before
LEMMA RestoredClean ==
    ASSUME NEW puzzle \in Puzzles, NEW board \in Clean(puzzle), NEW changed \in Seq(Recordable(puzzle))
    PROVE  Restored(board, changed) \in Clean(puzzle)
<1>1. PICK back \in [1 .. Len(changed) + 1 -> Clean(puzzle)] : back[1] = Restored(board, changed)
  BY RestoredSteps
<1>2. 1 \in 1 .. Len(changed) + 1
  OBVIOUS
<1>3. QED
  BY <1>1, <1>2

(* The changes of one move are some of the changes.                        *)
LEMMA PieceTyped ==
    ASSUME NEW S, NEW changes \in Seq(S), NEW moves \in Seq(Nat), NEW f, Sums(moves, changes, f),
           NEW i \in 1 .. Len(moves)
    PROVE  SubSeq(changes, f[i - 1] + 1, f[i]) \in Seq(S)
<1>1. f[i - 1] \in Nat /\ f[i] \in Nat /\ f[i] <= Len(changes)
  <2>1. i \in 0 .. Len(moves)
    OBVIOUS
  <2>2. QED
    BY <2>1, SumsFacts
<1>2. \A j \in f[i - 1] + 1 .. f[i] : changes[j] \in S
  <2> TAKE j \in f[i - 1] + 1 .. f[i]
  <2>1. j \in 1 .. Len(changes)
    BY <1>1
  <2>2. QED
    BY <2>1, ElementOfSeq
<1>3. f[i - 1] + 1 \in Int /\ f[i] \in Int
  BY <1>1
<1>4. QED
  BY <1>2, <1>3, SubSeqProperties

LEMMA RewoundExists ==
    ASSUME NEW g, Kept(g)
    PROVE  \E f, b : /\ Rewinds(g.moves, g.changes, Board(g), f, b)
                    /\ b \in [0 .. Len(g.moves) -> Clean(g.puzzle)]
                    /\ Rewound(g) = Before(Len(g.moves), b)
<1> DEFINE n == Len(g.moves)
           S == Clean(g.puzzle)
<1>1. /\ g.moves \in Seq(Nat) /\ n \in Nat /\ g.changes \in Seq(Recordable(g.puzzle))
      /\ Len(g.changes) = Total(g.moves) /\ g.puzzle \in Puzzles /\ Board(g) \in S
  BY KeptFacts, TotalBound
<1>2. PICK f \in [0 .. n -> Nat] :
         /\ f[0] = 0 /\ f[n] = Total(g.moves)
         /\ \A i \in 1 .. n : f[i] = f[i - 1] + g.moves[i]
  BY <1>1, TotalSteps
<1>3. Sums(g.moves, g.changes, f)
  BY <1>1, <1>2 DEF Sums
<1> DEFINE piece(i) == SubSeq(g.changes, f[i - 1] + 1, f[i])
           step == [k \in 1 .. n |-> [x \in S |-> Restored(x, piece(n + 1 - k))]]
<1>4. \A i \in 1 .. n : piece(i) \in Seq(Recordable(g.puzzle))
  BY <1>1, <1>3, PieceTyped
<1> HIDE DEF piece
<1>5. \A k \in 1 .. n : \A x \in S : Restored(x, piece(n + 1 - k)) \in S
  <2> TAKE k \in 1 .. n
  <2> TAKE x \in S
  <2>1. n + 1 - k \in 1 .. n
    BY <1>1
  <2>2. piece(n + 1 - k) \in Seq(Recordable(g.puzzle))
    BY <1>4, <2>1
  <2>3. QED
    BY <1>1, <2>2, RestoredClean
<1> HIDE DEF S
<1>6. step \in [1 .. n -> [S -> S]]
  BY <1>5
<1>7. PICK c \in [0 .. n -> S] : Steps(c, n, Board(g), step)
  <2> HIDE DEF step
  <2>1. QED
    BY <1>1, <1>6, StepsExist
<1> DEFINE b == [i \in 0 .. n |-> c[n - i]]
<1>8. b \in [0 .. n -> S]
  BY <1>1, <1>7
<1>9. b[n] = Board(g)
  BY <1>1, <1>7 DEF Steps
<1>10. \A i \in 1 .. n : b[i - 1] = Restored(b[i], piece(i))
  <2> TAKE i \in 1 .. n
  <2> DEFINE k == n + 1 - i
  <2>1. k \in 1 .. n /\ n + 1 - k = i /\ k - 1 = n - i /\ k = n - (i - 1)
        /\ k - 1 \in 0 .. n /\ i \in 0 .. n /\ i - 1 \in 0 .. n
    BY <1>1
  <2> HIDE DEF k
  <2>2. c[k] = step[k][c[k - 1]]
    <3> HIDE DEF step
    <3>1. QED
      BY <1>7, <2>1 DEF Steps
  <2>3. c[k - 1] \in S
    BY <1>7, <2>1
  <2>4. c[k] = Restored(c[k - 1], piece(n + 1 - k))
    BY <2>1, <2>2, <2>3
  <2>5. b[i - 1] = c[n - (i - 1)] /\ b[i] = c[n - i]
    BY <2>1
  <2> HIDE DEF b
  <2>6. QED
    BY <2>1, <2>4, <2>5
<1> HIDE DEF b
<1>11. Rewinds(g.moves, g.changes, Board(g), f, b)
  BY <1>3, <1>9, <1>10 DEF Rewinds, piece
<1>12. Rewound(g) = Before(n, b)
  <2>1. g.moves \in Seq(Nat)
    BY <1>1
  <2>2. QED
    BY <1>11, <2>1, RewoundIs
<1>13. QED
  BY <1>8, <1>11, <1>12 DEF S
-------------------------------------------------------------------------------
(* A move goes on top, the oldest one goes, the newest is undone.          *)

Then(n, f, last) == [i \in 0 .. n + 1 |-> IF i = n + 1 THEN last ELSE f[i]]
From(n, f) == [i \in 0 .. n - 1 |-> f[i + 1] - f[1]]
Later(n, b) == [i \in 0 .. n - 1 |-> b[i + 1]]
UpTo(n, f) == [i \in 0 .. n - 1 |-> f[i]]

LEMMA AppendRewinds ==
    ASSUME NEW S, NEW moves \in Seq(Nat), NEW changes \in Seq(S), NEW changed \in Seq(S),
           NEW old, NEW board, Restored(board, changed) = old, NEW f, NEW b,
           Rewinds(moves, changes, old, f, b)
    PROVE  Rewinds(Append(moves, Len(changed)), changes \o changed, board,
                   Then(Len(moves), f, Len(changes) + Len(changed)), Then(Len(moves), b, board))
<1> DEFINE n == Len(moves)
           size == Len(changed)
           moves2 == Append(moves, size)
           changes2 == changes \o changed
           f2 == Then(n, f, Len(changes) + size)
           b2 == Then(n, b, board)
<1>0. n \in Nat /\ size \in Nat /\ Len(changes) \in Nat
  OBVIOUS
<1>1. Sums(moves, changes, f) /\ b[n] = old
      /\ \A i \in 1 .. n : b[i - 1] = Restored(b[i], SubSeq(changes, f[i - 1] + 1, f[i]))
  BY DEF Rewinds
<1>2. /\ \A i \in 0 .. n : f[i] \in Nat /\ f[i] <= Len(changes)
      /\ \A i \in 1 .. n : f[i - 1] \in Nat /\ moves[i] \in Nat /\ f[i] = f[i - 1] + moves[i]
      /\ f[0] = 0 /\ f[n] = Len(changes)
  BY <1>1, SumsFacts DEF Sums
<1>3. /\ Len(moves2) = n + 1 /\ moves2[n + 1] = size
      /\ \A i \in 1 .. n : moves2[i] = moves[i]
  BY <1>0, Appended
<1>4. /\ changes2 \in Seq(S) /\ Len(changes2) = Len(changes) + size
      /\ \A i \in 1 .. Len(changes) : changes2[i] = changes[i]
      /\ \A i \in 1 .. size : changes2[Len(changes) + i] = changed[i]
  <2>1. /\ changes2 \in Seq(S) /\ Len(changes2) = Len(changes) + size
        /\ \A i \in 1 .. Len(changes) + size : changes2[i] =
              IF i <= Len(changes) THEN changes[i] ELSE changed[i - Len(changes)]
    BY ConcatProperties
  <2> HIDE DEF changes2
  <2>2. ASSUME NEW i \in 1 .. size PROVE changes2[Len(changes) + i] = changed[i]
    <3>1. Len(changes) + i \in 1 .. Len(changes) + size /\ ~(Len(changes) + i <= Len(changes))
          /\ (Len(changes) + i) - Len(changes) = i
      BY <1>0
    <3>2. QED
      BY <2>1, <3>1
  <2>3. ASSUME NEW i \in 1 .. Len(changes) PROVE changes2[i] = changes[i]
    <3>1. i \in 1 .. Len(changes) + size /\ i <= Len(changes)
      BY <1>0
    <3>2. QED
      BY <2>1, <3>1
  <2>4. QED
    BY <2>1, <2>2, <2>3
<1>5. /\ f2[n + 1] = Len(changes) + size /\ b2[n + 1] = board
      /\ \A i \in 0 .. n : f2[i] = f[i] /\ b2[i] = b[i]
  BY <1>0 DEF Then
<1>6. f2 \in [0 .. n + 1 -> Nat]
  <2>1. \A i \in 0 .. n + 1 : i = n + 1 \/ i \in 0 .. n
    BY <1>0
  <2>2. QED
    BY <1>0, <1>2, <2>1 DEF Then
<1> HIDE DEF moves2, changes2, f2, b2
<1>7. \A i \in 1 .. n + 1 : i = n + 1 \/ (i \in 1 .. n /\ i - 1 \in 0 .. n /\ i \in 0 .. n)
  BY <1>0
<1>8. \A i \in 1 .. n + 1 : f2[i] = f2[i - 1] + moves2[i]
  <2> TAKE i \in 1 .. n + 1
  <2>1. CASE i = n + 1
    <3>1. i - 1 = n /\ n \in 0 .. n
      BY <1>0, <2>1
    <3>2. QED
      BY <1>2, <1>3, <1>5, <2>1, <3>1
  <2>2. CASE i \in 1 .. n /\ i - 1 \in 0 .. n /\ i \in 0 .. n
    BY <1>2, <1>3, <1>5, <2>2
  <2>3. QED
    BY <1>7, <2>1, <2>2
<1>9. Sums(moves2, changes2, f2)
  <2>1. f2[0] = 0
    BY <1>0, <1>2, <1>5
  <2>2. QED
    BY <1>3, <1>4, <1>5, <1>6, <1>8, <2>1 DEF Sums
<1>10. \A i \in 1 .. n + 1 : b2[i - 1] = Restored(b2[i], SubSeq(changes2, f2[i - 1] + 1, f2[i]))
  <2> TAKE i \in 1 .. n + 1
  <2>1. CASE i = n + 1
    <3>1. i - 1 = n /\ n \in 0 .. n
      BY <1>0, <2>1
    <3>2. SubSeq(changes2, Len(changes) + 1, Len(changes) + size) = changed
      <4>1. 0 \in Nat /\ Len(changes) + size <= Len(changes2) /\ 0 + size <= Len(changed)
            /\ \A j \in 1 .. size : changes2[Len(changes) + j] = changed[0 + j]
        BY <1>0, <1>4
      <4>2. SubSeq(changes2, Len(changes) + 1, Len(changes) + size) = SubSeq(changed, 0 + 1, 0 + size)
        BY <1>0, <1>4, <4>1, SameSubSeq
      <4>3. 0 + 1 = 1 /\ 0 + size = Len(changed)
        BY <1>0
      <4>4. SubSeq(changed, 1, Len(changed)) = changed
        BY SubSeqFull
      <4>5. QED
        BY <4>2, <4>3, <4>4
    <3>3. b2[i - 1] = old /\ b2[i] = board /\ f2[i - 1] = Len(changes) /\ f2[i] = Len(changes) + size
      BY <1>1, <1>2, <1>5, <2>1, <3>1
    <3>4. QED
      BY <3>2, <3>3
  <2>2. CASE i \in 1 .. n /\ i - 1 \in 0 .. n /\ i \in 0 .. n
    <3>1. /\ f[i - 1] \in Nat /\ moves[i] \in Nat /\ f[i] = f[i - 1] + moves[i]
          /\ f[i] <= Len(changes) /\ f[i] <= Len(changes2)
      BY <1>0, <1>2, <1>4, <2>2
    <3>2. f[i - 1] + moves[i] <= Len(changes)
      BY <3>1
    <3>3. SubSeq(changes2, f[i - 1] + 1, f[i - 1] + moves[i])
            = SubSeq(changes, f[i - 1] + 1, f[i - 1] + moves[i])
      BY <3>1, <3>2, ConcatPart DEF changes2
    <3>4. b[i - 1] = Restored(b[i], SubSeq(changes, f[i - 1] + 1, f[i]))
      BY <1>1, <2>2
    <3>5. QED
      BY <1>5, <2>2, <3>1, <3>3, <3>4
  <2>3. QED
    BY <1>7, <2>1, <2>2
<1>11. Rewinds(moves2, changes2, board, f2, b2)
  BY <1>3, <1>5, <1>9, <1>10 DEF Rewinds
<1>12. QED
  BY <1>11 DEF moves2, changes2, f2, b2

(* Parts of the back and of the front of a sequence are parts of it.       *)
LEMMA BackPieces ==
    ASSUME NEW S, NEW s \in Seq(S), NEW d \in 0 .. Len(s), NEW m \in Nat, NEW size \in Nat,
           d + m + size <= Len(s)
    PROVE  SubSeq(SubSeq(s, d + 1, Len(s)), m + 1, m + size) = SubSeq(s, (d + m) + 1, (d + m) + size)
<1> DEFINE t == SubSeq(s, d + 1, Len(s))
<1>1. Len(s) \in Nat /\ d + 1 \in 1 .. Len(s) + 1 /\ Len(s) - (d + 1) + 1 = Len(s) - d /\ d + m \in Nat
  OBVIOUS
<1>2. /\ t \in Seq(S) /\ Len(t) = Len(s) - (d + 1) + 1
      /\ \A i \in 1 .. Len(s) - (d + 1) + 1 : t[i] = s[(d + 1) + i - 1]
  BY <1>1, BackPart
<1> HIDE DEF t
<1>3. m + size <= Len(t) /\ (d + m) + size <= Len(s)
  BY <1>1, <1>2
<1>4. ASSUME NEW j \in 1 .. size PROVE t[m + j] = s[(d + m) + j]
  <2>1. m + j \in 1 .. Len(s) - (d + 1) + 1 /\ (d + 1) + (m + j) - 1 = (d + m) + j
    BY <1>1
  <2>2. QED
    BY <1>2, <2>1
<1>5. \A j \in 1 .. size : t[m + j] = s[(d + m) + j]
  BY <1>4
<1>6. SubSeq(t, m + 1, m + size) = SubSeq(s, (d + m) + 1, (d + m) + size)
  BY <1>1, <1>2, <1>3, <1>5, SameSubSeq
<1>7. QED
  BY <1>6 DEF t

LEMMA FrontPieces ==
    ASSUME NEW S, NEW s \in Seq(S), NEW n \in 0 .. Len(s), NEW m \in Nat, NEW size \in Nat, m + size <= n
    PROVE  SubSeq(SubSeq(s, 1, n), m + 1, m + size) = SubSeq(s, m + 1, m + size)
<1> DEFINE t == SubSeq(s, 1, n)
<1>1. t \in Seq(S) /\ Len(t) = n /\ \A i \in 1 .. n : t[i] = s[i]
  BY FrontPart
<1> HIDE DEF t
<1>2. m + size <= Len(t) /\ m + size <= Len(s)
  BY <1>1
<1>3. \A j \in 1 .. size : t[m + j] = s[m + j]
  <2> TAKE j \in 1 .. size
  <2>1. m + j \in 1 .. n
    OBVIOUS
  <2>2. QED
    BY <1>1, <2>1
<1>4. SubSeq(t, m + 1, m + size) = SubSeq(s, m + 1, m + size)
  BY <1>1, <1>2, <1>3, SameSubSeq
<1>5. QED
  BY <1>4 DEF t

LEMMA FirstLeast ==
    ASSUME NEW moves \in Seq(Nat), moves # <<>>, NEW changes, NEW f, Sums(moves, changes, f)
    PROVE  /\ f[1] = moves[1] /\ moves[1] \in Nat
           /\ \A i \in 1 .. Len(moves) : f[1] <= f[i]
<1> DEFINE n == Len(moves)
<1>1. /\ n \in Nat /\ n # 0
      /\ \A i \in 0 .. n : f[i] \in Nat
      /\ \A i \in 1 .. n : moves[i] \in Nat /\ f[i] = f[i - 1] + moves[i]
      /\ f[0] = 0
  BY SumsFacts, EmptySeq DEF Sums
<1>2. f[1] = moves[1] /\ moves[1] \in Nat
  <2>1. 1 \in 1 .. n /\ 1 - 1 = 0
    BY <1>1
  <2>2. f[1] = f[0] + moves[1] /\ moves[1] \in Nat
    BY <1>1, <2>1
  <2>3. QED
    BY <1>1, <2>2
<1> DEFINE T == {k \in 1 .. n : ~(f[1] <= f[k])}
<1>3. T = {}
  <2>1. SUFFICES ASSUME T # {} PROVE FALSE
    OBVIOUS
  <2>2. T \subseteq Nat
    BY DEF T
  <2> HIDE DEF T
  <2>3. PICK k \in T : \A j \in T : k <= j
    BY <2>1, <2>2, Least
  <2>4. k \in 1 .. n /\ ~(f[1] <= f[k])
    BY DEF T
  <2>5. k # 1
    BY <1>2, <2>4
  <2>6. k - 1 \in 1 .. n /\ k - 1 \notin T /\ k - 1 \in 0 .. n
    BY <1>1, <2>3, <2>4, <2>5
  <2>7. f[1] <= f[k - 1] /\ f[k - 1] \in Nat
    BY <1>1, <2>6 DEF T
  <2>8. f[k] = f[k - 1] + moves[k] /\ moves[k] \in Nat
    BY <1>1, <2>4
  <2>9. QED
    BY <1>2, <2>4, <2>7, <2>8
<1>4. QED
  BY <1>1, <1>2, <1>3 DEF T

LEMMA TailRewinds ==
    ASSUME NEW S, NEW moves \in Seq(Nat), moves # <<>>, NEW changes \in Seq(S), NEW board, NEW f, NEW b,
           Rewinds(moves, changes, board, f, b)
    PROVE  Rewinds(Tail(moves), SubSeq(changes, Head(moves) + 1, Len(changes)), board,
                   From(Len(moves), f), Later(Len(moves), b))
<1> DEFINE n == Len(moves)
           d == f[1]
           moves2 == Tail(moves)
           changes2 == SubSeq(changes, Head(moves) + 1, Len(changes))
           f2 == From(n, f)
           b2 == Later(n, b)
<1>1. Sums(moves, changes, f) /\ b[n] = board
      /\ \A i \in 1 .. n : b[i - 1] = Restored(b[i], SubSeq(changes, f[i - 1] + 1, f[i]))
  BY DEF Rewinds
<1>2. n \in Nat \ {0} /\ Len(changes) \in Nat
  BY EmptySeq
<1>3. /\ \A i \in 0 .. n : f[i] \in Nat /\ f[i] <= Len(changes)
      /\ \A i \in 1 .. n : moves[i] \in Nat /\ f[i] = f[i - 1] + moves[i]
      /\ f[n] = Len(changes)
  BY <1>1, SumsFacts DEF Sums
<1>4. Head(moves) = d /\ \A i \in 1 .. n : d <= f[i]
  BY <1>1, FirstLeast
<1>5. d \in Nat /\ d <= Len(changes) /\ d \in 0 .. Len(changes)
  BY <1>2, <1>3
<1> HIDE DEF d
<1>6. /\ Len(moves2) = n - 1
      /\ \A i \in 1 .. n - 1 : moves2[i] = moves[i + 1]
  BY HeadTailProperties
<1>7. /\ changes2 \in Seq(S) /\ Len(changes2) = Len(changes) - d
      /\ changes2 = SubSeq(changes, d + 1, Len(changes))
  <2>1. d + 1 \in 1 .. Len(changes) + 1 /\ Len(changes) - (d + 1) + 1 = Len(changes) - d
    BY <1>2, <1>5
  <2>2. QED
    BY <1>4, <2>1, BackPart
<1>8. \A i \in 0 .. n - 1 : f2[i] = f[i + 1] - d /\ b2[i] = b[i + 1]
  BY <1>2 DEF From, Later, d
<1>9. f2 \in [0 .. n - 1 -> Nat]
  <2>1. ASSUME NEW i \in 0 .. n - 1 PROVE f[i + 1] - f[1] \in Nat
    <3>1. i + 1 \in 1 .. n /\ i + 1 \in 0 .. n
      BY <1>2
    <3>2. f[i + 1] \in Nat /\ d <= f[i + 1]
      BY <1>3, <1>4, <3>1
    <3>3. QED
      BY <1>5, <3>2 DEF d
  <2>2. QED
    BY <2>1 DEF From
<1> HIDE DEF moves2, changes2, f2, b2
<1>10. \A i \in 1 .. n - 1 : /\ i \in 0 .. n - 1 /\ i - 1 \in 0 .. n - 1 /\ (i - 1) + 1 = i
                             /\ i \in 1 .. n /\ i + 1 \in 1 .. n /\ (i + 1) - 1 = i
                             /\ i \in 0 .. n /\ i + 1 \in 0 .. n
  BY <1>2
<1>11. \A i \in 1 .. n - 1 : f2[i] = f2[i - 1] + moves2[i]
  <2> TAKE i \in 1 .. n - 1
  <2>1. f2[i] = f[i + 1] - d /\ f2[i - 1] = f[i] - d /\ moves2[i] = moves[i + 1]
    BY <1>6, <1>8, <1>10
  <2>2. f[i + 1] = f[i] + moves[i + 1] /\ f[i] \in Nat /\ moves[i + 1] \in Nat
    BY <1>3, <1>10
  <2>3. QED
    BY <1>5, <2>1, <2>2
<1>12. f2[0] = 0 /\ f2[n - 1] = Len(changes2) /\ b2[n - 1] = board
  <2>1. 0 \in 0 .. n - 1 /\ n - 1 \in 0 .. n - 1 /\ 0 + 1 = 1 /\ (n - 1) + 1 = n
    BY <1>2
  <2>2. f2[0] = f[1] - d /\ f2[n - 1] = f[n] - d /\ b2[n - 1] = b[n]
    BY <1>8, <2>1
  <2>3. f[1] - d = 0
    BY <1>5 DEF d
  <2>4. QED
    BY <1>1, <1>3, <1>7, <2>2, <2>3
<1>13. Sums(moves2, changes2, f2)
  BY <1>6, <1>9, <1>11, <1>12 DEF Sums
<1>14. \A i \in 1 .. n - 1 : b2[i - 1] = Restored(b2[i], SubSeq(changes2, f2[i - 1] + 1, f2[i]))
  <2> TAKE i \in 1 .. n - 1
  <2> DEFINE m == f[i] - d
             size == moves[i + 1]
  <2>1. f[i + 1] = f[i] + size /\ f[i] \in Nat /\ size \in Nat /\ f[i + 1] <= Len(changes) /\ d <= f[i]
    BY <1>3, <1>4, <1>10
  <2>2. f2[i] = f[i + 1] - d /\ f2[i - 1] = m
    BY <1>8, <1>10
  <2>3. m \in Nat /\ d + m = f[i] /\ d + m + size <= Len(changes) /\ f2[i] = m + size
        /\ (d + m) + size = f[i + 1]
    <3>1. m \in Nat /\ d + m = f[i]
      BY <1>5, <2>1, SMTT(20)
    <3> HIDE DEF m, size
    <3>2. f2[i] = (d + m + size) - d /\ d + m + size <= Len(changes)
      BY <2>1, <2>2, <3>1
    <3>3. QED
      BY <1>5, <2>1, <3>1, <3>2
  <2>4. b[i] = Restored(b[i + 1], SubSeq(changes, f[i] + 1, f[i + 1]))
    BY <1>1, <1>10
  <2>5. b2[i - 1] = b[i] /\ b2[i] = b[i + 1]
    BY <1>8, <1>10
  <2> HIDE DEF m, size
  <2>6. SubSeq(changes2, m + 1, m + size) = SubSeq(changes, (d + m) + 1, (d + m) + size)
    BY <1>5, <1>7, <2>1, <2>3, BackPieces
  <2>7. QED
    BY <2>2, <2>3, <2>4, <2>5, <2>6
<1>15. Rewinds(moves2, changes2, board, f2, b2)
  BY <1>6, <1>12, <1>13, <1>14 DEF Rewinds
<1>16. QED
  BY <1>15 DEF moves2, changes2, f2, b2

LEMMA FrontRewinds ==
    ASSUME NEW S, NEW moves \in Seq(Nat), moves # <<>>, NEW changes \in Seq(S), NEW board, NEW f, NEW b,
           Rewinds(moves, changes, board, f, b)
    PROVE  LET n == Len(moves)
           IN /\ Rewinds(SubSeq(moves, 1, n - 1), SubSeq(changes, 1, Len(changes) - moves[n]), b[n - 1],
                         UpTo(n, f), UpTo(n, b))
              /\ b[n - 1] = Restored(board, SubSeq(changes, Len(changes) - moves[n] + 1, Len(changes)))
<1> DEFINE n == Len(moves)
           d == Len(changes) - moves[n]
           moves2 == SubSeq(moves, 1, n - 1)
           changes2 == SubSeq(changes, 1, d)
           f2 == UpTo(n, f)
           b2 == UpTo(n, b)
<1>1. Sums(moves, changes, f) /\ b[n] = board
      /\ \A i \in 1 .. n : b[i - 1] = Restored(b[i], SubSeq(changes, f[i - 1] + 1, f[i]))
  BY DEF Rewinds
<1>2. n \in Nat \ {0} /\ Len(changes) \in Nat /\ n \in 1 .. n /\ n \in 0 .. n
  BY EmptySeq
<1>3. /\ \A i \in 0 .. n : f[i] \in Nat
      /\ \A i \in 1 .. n : moves[i] \in Nat /\ f[i] = f[i - 1] + moves[i]
      /\ f[0] = 0 /\ f[n] = Len(changes)
  BY <1>1, SumsFacts DEF Sums
<1>4. d = f[n - 1] /\ d \in Nat /\ d <= Len(changes) /\ moves[n] \in Nat
  <2>1. n - 1 \in 0 .. n
    BY <1>2
  <2>2. f[n] = f[n - 1] + moves[n] /\ f[n - 1] \in Nat /\ moves[n] \in Nat
    BY <1>2, <1>3, <2>1
  <2>3. QED
    BY <1>2, <1>3, <2>2
<1>5. b[n - 1] = Restored(board, SubSeq(changes, d + 1, Len(changes)))
  BY <1>1, <1>2, <1>3, <1>4
<1>6. /\ moves2 \in Seq(Nat) /\ Len(moves2) = n - 1
      /\ \A i \in 1 .. n - 1 : moves2[i] = moves[i]
  <2>1. n - 1 \in 0 .. Len(moves)
    BY <1>2
  <2>2. QED
    BY <2>1, FrontPart
<1> HIDE DEF d
<1>7. d \in 0 .. Len(changes) /\ changes2 \in Seq(S) /\ Len(changes2) = d
  <2>1. d \in 0 .. Len(changes)
    BY <1>2, <1>4
  <2>2. QED
    BY <2>1, FrontPart
<1>8. \A i \in 0 .. n - 1 : f2[i] = f[i] /\ b2[i] = b[i]
  BY DEF UpTo
<1>9. f2 \in [0 .. n - 1 -> Nat]
  <2>1. \A i \in 0 .. n - 1 : i \in 0 .. n
    BY <1>2
  <2>2. QED
    BY <1>3, <2>1 DEF UpTo
<1> HIDE DEF moves2, changes2, f2, b2
<1>10. \A i \in 1 .. n - 1 : /\ i \in 0 .. n - 1 /\ i - 1 \in 0 .. n - 1
                             /\ i \in 1 .. n /\ i \in 0 .. n /\ i - 1 \in 0 .. n
  BY <1>2
<1>11. f2[0] = 0 /\ f2[n - 1] = Len(changes2) /\ b2[n - 1] = b[n - 1]
  <2>1. 0 \in 0 .. n - 1 /\ n - 1 \in 0 .. n - 1
    BY <1>2
  <2>2. QED
    BY <1>3, <1>4, <1>7, <1>8, <2>1
<1>12. \A i \in 1 .. n - 1 : f2[i] = f2[i - 1] + moves2[i]
  BY <1>3, <1>6, <1>8, <1>10
<1>13. Sums(moves2, changes2, f2)
  BY <1>6, <1>9, <1>11, <1>12 DEF Sums
<1>14. \A i \in 0 .. n - 1 : f2[i] \in Nat /\ f2[i] <= d
  BY <1>6, <1>7, <1>13, SumsFacts
<1>15. \A i \in 1 .. n - 1 : b2[i - 1] = Restored(b2[i], SubSeq(changes2, f2[i - 1] + 1, f2[i]))
  <2> TAKE i \in 1 .. n - 1
  <2> DEFINE m == f[i - 1]
             size == moves[i]
  <2>1. m \in Nat /\ size \in Nat /\ f[i] = m + size /\ m + size <= d
    <3>1. f[i] = m + size /\ m \in Nat /\ size \in Nat
      BY <1>3, <1>10
    <3>2. f[i] <= d
      BY <1>8, <1>10, <1>14
    <3>3. QED
      BY <3>1, <3>2
  <2>2. f2[i] = f[i] /\ f2[i - 1] = m /\ b2[i] = b[i] /\ b2[i - 1] = b[i - 1]
    BY <1>8, <1>10
  <2>3. b[i - 1] = Restored(b[i], SubSeq(changes, m + 1, f[i]))
    BY <1>1, <1>10
  <2> HIDE DEF m, size
  <2>4. SubSeq(changes2, m + 1, m + size) = SubSeq(changes, m + 1, m + size)
    BY <1>7, <2>1, FrontPieces DEF changes2
  <2>5. QED
    BY <2>1, <2>2, <2>3, <2>4
<1>16. Rewinds(moves2, changes2, b[n - 1], f2, b2)
  BY <1>6, <1>11, <1>13, <1>15 DEF Rewinds
<1>17. QED
  BY <1>5, <1>16 DEF moves2, changes2, f2, b2, d

(* The boards before the moves, when one is added, the first or the last   *)
(* is taken away.                                                          *)
Boards(n, b, S) == \A i \in 0 .. n : b[i] \in S

LEMMA BeforeIs ==
    ASSUME NEW S, NEW n \in Nat, NEW b, Boards(n, b, S)
    PROVE  /\ Before(n, b) \in Seq(S) /\ Len(Before(n, b)) = n
           /\ \A i \in 1 .. n : Before(n, b)[i] = b[i - 1]
<1>1. \A i \in 1 .. n : i - 1 \in 0 .. n
  OBVIOUS
<1>2. Before(n, b) \in [1 .. n -> S] /\ \A i \in 1 .. n : Before(n, b)[i] = b[i - 1]
  BY <1>1 DEF Before, Boards
<1>3. Before(n, b) \in Seq(S)
  BY <1>2, SeqDef
<1>4. DOMAIN Before(n, b) = 1 .. Len(Before(n, b)) /\ Len(Before(n, b)) \in Nat
      /\ DOMAIN Before(n, b) = 1 .. n
  BY <1>2, <1>3, LenProperties
<1>5. Len(Before(n, b)) = n
  <2> DEFINE size == Len(Before(n, b))
  <2>1. size \in Nat /\ \A i : i \in 1 .. size <=> i \in 1 .. n
    BY <1>4
  <2> HIDE DEF size
  <2>2. size \in 1 .. size <=> size \in 1 .. n
    BY <2>1
  <2>3. n \in 1 .. size <=> n \in 1 .. n
    BY <2>1
  <2>4. size = n
    BY <2>1, <2>2, <2>3
  <2>5. QED
    BY <2>4 DEF size
<1>6. QED
  BY <1>2, <1>3, <1>5

LEMMA BeforeThen ==
    ASSUME NEW S, NEW n \in Nat, NEW b, Boards(n, b, S), NEW x \in S
    PROVE  /\ Before(n + 1, Then(n, b, x)) = Append(Before(n, b), b[n])
           /\ Boards(n + 1, Then(n, b, x), S)
<1> DEFINE c == Then(n, b, x)
           p == Before(n, b)
           q == Before(n + 1, c)
<1>1. n \in 0 .. n /\ n + 1 \in Nat /\ \A i \in 0 .. n + 1 : i # n + 1 => i \in 0 .. n
  OBVIOUS
<1>2. Boards(n + 1, c, S) /\ \A i \in 0 .. n : c[i] = b[i]
  BY <1>1 DEF Then, Boards
<1> HIDE DEF c
<1>3. /\ p \in Seq(S) /\ Len(p) = n /\ \A i \in 1 .. n : p[i] = b[i - 1]
  BY BeforeIs
<1>4. /\ q \in Seq(S) /\ Len(q) = n + 1 /\ \A i \in 1 .. n + 1 : q[i] = c[i - 1]
  <2> HIDE DEF p
  <2> DEFINE k == n + 1
  <2>1. k \in Nat /\ Boards(k, c, S)
    BY <1>1, <1>2
  <2> HIDE DEF k
  <2>2. /\ Before(k, c) \in Seq(S) /\ Len(Before(k, c)) = k
        /\ \A i \in 1 .. k : Before(k, c)[i] = c[i - 1]
    BY <2>1, BeforeIs
  <2>3. QED
    BY <2>2 DEF k
<1> HIDE DEF p, q
<1>5. b[n] \in S
  BY <1>1 DEF Boards
<1>6. /\ Append(p, b[n]) \in Seq(S) /\ Len(Append(p, b[n])) = n + 1 /\ Append(p, b[n])[n + 1] = b[n]
      /\ \A i \in 1 .. n : Append(p, b[n])[i] = p[i]
  BY <1>3, <1>5, Appended
<1>7. ASSUME NEW i \in 1 .. n + 1 PROVE q[i] = Append(p, b[n])[i]
  <2>1. i - 1 \in 0 .. n /\ (i = n + 1 => i - 1 = n) /\ (i # n + 1 => i \in 1 .. n)
    BY <1>1
  <2>2. q[i] = b[i - 1]
    BY <1>2, <1>4, <2>1
  <2>3. CASE i = n + 1
    BY <1>6, <2>1, <2>2, <2>3
  <2>4. CASE i # n + 1
    BY <1>3, <1>6, <2>1, <2>2, <2>4
  <2>5. QED
    BY <2>3, <2>4
<1>8. q = Append(p, b[n])
  BY <1>4, <1>6, <1>7, SeqEqual
<1>9. QED
  BY <1>2, <1>8 DEF p, q, c

LEMMA BeforeLater ==
    ASSUME NEW S, NEW n \in Nat \ {0}, NEW b, Boards(n, b, S)
    PROVE  Before(n - 1, Later(n, b)) = Tail(Before(n, b))
<1> DEFINE c == Later(n, b)
           p == Before(n, b)
           q == Before(n - 1, c)
<1>1. n \in Nat /\ n - 1 \in Nat /\ \A i \in 0 .. n - 1 : i + 1 \in 0 .. n
  OBVIOUS
<1>2. Boards(n - 1, c, S) /\ \A i \in 0 .. n - 1 : c[i] = b[i + 1]
  BY <1>1 DEF Later, Boards
<1> HIDE DEF c
<1>3. /\ p \in Seq(S) /\ Len(p) = n /\ \A i \in 1 .. n : p[i] = b[i - 1]
  BY <1>1, BeforeIs
<1>4. /\ q \in Seq(S) /\ Len(q) = n - 1 /\ \A i \in 1 .. n - 1 : q[i] = c[i - 1]
  <2> HIDE DEF p
  <2> DEFINE k == n - 1
  <2>1. k \in Nat /\ Boards(k, c, S)
    BY <1>1, <1>2
  <2> HIDE DEF k
  <2>2. /\ Before(k, c) \in Seq(S) /\ Len(Before(k, c)) = k
        /\ \A i \in 1 .. k : Before(k, c)[i] = c[i - 1]
    BY <2>1, BeforeIs
  <2>3. QED
    BY <2>2 DEF k
<1> HIDE DEF p, q
<1>5. p # <<>>
  BY <1>3, EmptySeq
<1>6. /\ Tail(p) \in Seq(S) /\ Len(Tail(p)) = n - 1 /\ \A i \in 1 .. n - 1 : Tail(p)[i] = p[i + 1]
  BY <1>3, <1>5, HeadTailProperties
<1>7. ASSUME NEW i \in 1 .. n - 1 PROVE q[i] = Tail(p)[i]
  <2>1. i - 1 \in 0 .. n - 1 /\ (i - 1) + 1 = i /\ i + 1 \in 1 .. n /\ (i + 1) - 1 = i
    BY <1>1
  <2>2. q[i] = b[i] /\ p[i + 1] = b[i]
    BY <1>2, <1>3, <1>4, <2>1
  <2>3. QED
    BY <1>6, <2>2
<1>8. q = Tail(p)
  BY <1>4, <1>6, <1>7, SeqEqual
<1>9. QED
  BY <1>8 DEF p, q, c

LEMMA BeforeUpTo ==
    ASSUME NEW S, NEW n \in Nat \ {0}, NEW b, Boards(n, b, S)
    PROVE  /\ Before(n - 1, UpTo(n, b)) = SubSeq(Before(n, b), 1, n - 1)
           /\ Before(n, b)[n] = b[n - 1] /\ Before(n, b) # <<>> /\ Len(Before(n, b)) = n
<1> DEFINE c == UpTo(n, b)
           p == Before(n, b)
           q == Before(n - 1, c)
<1>1. n \in Nat /\ n - 1 \in Nat /\ n - 1 \in 0 .. n /\ n \in 1 .. n
      /\ \A i \in 0 .. n - 1 : i \in 0 .. n
  OBVIOUS
<1>2. Boards(n - 1, c, S) /\ \A i \in 0 .. n - 1 : c[i] = b[i]
  BY <1>1 DEF UpTo, Boards
<1> HIDE DEF c
<1>3. /\ p \in Seq(S) /\ Len(p) = n /\ \A i \in 1 .. n : p[i] = b[i - 1]
  BY <1>1, BeforeIs
<1>4. /\ q \in Seq(S) /\ Len(q) = n - 1 /\ \A i \in 1 .. n - 1 : q[i] = c[i - 1]
  <2> HIDE DEF p
  <2> DEFINE k == n - 1
  <2>1. k \in Nat /\ Boards(k, c, S)
    BY <1>1, <1>2
  <2> HIDE DEF k
  <2>2. /\ Before(k, c) \in Seq(S) /\ Len(Before(k, c)) = k
        /\ \A i \in 1 .. k : Before(k, c)[i] = c[i - 1]
    BY <2>1, BeforeIs
  <2>3. QED
    BY <2>2 DEF k
<1> HIDE DEF p, q
<1>5. p # <<>> /\ n - 1 \in 0 .. Len(p)
  BY <1>1, <1>3, EmptySeq
<1>6. /\ SubSeq(p, 1, n - 1) \in Seq(S) /\ Len(SubSeq(p, 1, n - 1)) = n - 1
      /\ \A i \in 1 .. n - 1 : SubSeq(p, 1, n - 1)[i] = p[i]
  BY <1>3, <1>5, FrontPart
<1>7. ASSUME NEW i \in 1 .. n - 1 PROVE q[i] = SubSeq(p, 1, n - 1)[i]
  <2>1. i - 1 \in 0 .. n - 1 /\ i \in 1 .. n
    BY <1>1
  <2>2. q[i] = b[i - 1] /\ p[i] = b[i - 1]
    BY <1>2, <1>3, <1>4, <2>1
  <2>3. QED
    BY <1>6, <2>2
<1>8. q = SubSeq(p, 1, n - 1)
  BY <1>4, <1>6, <1>7, SeqEqual
<1>9. p[n] = b[n - 1]
  BY <1>1, <1>3
<1>10. QED
  BY <1>3, <1>5, <1>8, <1>9 DEF p, q, c
-------------------------------------------------------------------------------
(* A move of the game is one of the stack, and so is undoing it.           *)

Pushed(past, board) ==
    IF Len(Append(past, board)) > MaxMoves THEN Tail(Append(past, board)) ELSE Append(past, board)

LEMMA FinishedParts ==
    ASSUME NEW g \in Game, NEW size
    PROVE  LET moves == Append(g.moves, size)
               h == Finished(g, size)
           IN /\ Board(h) = Board(g)
              /\ Len(moves) <= MaxMoves => h.moves = moves /\ h.changes = g.changes
              /\ ~(Len(moves) <= MaxMoves) =>
                    /\ h.moves = Tail(moves)
                    /\ h.changes = SubSeq(g.changes, Head(moves) + 1, Len(g.changes))
<1> DEFINE moves == Append(g.moves, size)
           h == Finished(g, size)
<1>1. CASE Len(moves) <= MaxMoves
  <2>1. h = [g EXCEPT !.moves = moves]
    BY <1>1 DEF Finished
  <2> HIDE DEF h, moves
  <2>2. Board(h) = Board(g) /\ h.moves = moves /\ h.changes = g.changes
    BY <2>1 DEF Game, Board
  <2>3. QED
    BY <1>1, <2>2 DEF h, moves
<1>2. CASE ~(Len(moves) <= MaxMoves)
  <2> DEFINE changes == SubSeq(g.changes, Head(moves) + 1, Len(g.changes))
             rest == Tail(moves)
  <2>1. h = [g EXCEPT !.moves = rest, !.changes = changes]
    BY <1>2 DEF Finished
  <2> HIDE DEF h, rest, changes
  <2>2. Board(h) = Board(g) /\ h.moves = rest /\ h.changes = changes
    BY <2>1 DEF Game, Board
  <2>3. QED
    BY <1>2, <2>2 DEF h, rest, changes
<1>3. QED
  BY <1>1, <1>2

(* What a move leaves: its changes are pushed, the oldest may go.          *)
LEMMA MovePushes ==
    ASSUME NEW g, Kept(g), NEW h, IsMove(g, h)
    PROVE  Rewound(h) = Pushed(Rewound(g), Board(g))
<1> DEFINE n == Len(g.moves)
           S == Recordable(g.puzzle)
           C == Clean(g.puzzle)
<1>1. PICK board, changed, mistakes :
         LeadsBack(g, board, changed, mistakes) /\ h = Moved(g, board, changed, mistakes)
  BY DEF IsMove
<1> DEFINE size == Len(changed)
           u == Unfinished(g, board, changed, mistakes)
           moves == Append(g.moves, size)
           changes == g.changes \o changed
<1>2. /\ board \in C /\ changed \in Seq(S) /\ size \in MoveSizes /\ size \in Nat
      /\ Restored(board, changed) = Board(g)
  BY <1>1, BoardfulNat DEF LeadsBack
<1>3. /\ u \in Game /\ Board(u) = board /\ u.moves = g.moves /\ u.changes = changes
      /\ h = Finished(u, size)
  <2>1. /\ Parts(u) /\ Board(u) = board /\ u.moves = g.moves /\ u.changes = changes
    BY <1>1, UnfinishedParts
  <2>2. h = Finished(u, size)
    BY <1>1 DEF Moved
  <2> HIDE DEF u
  <2>3. QED
    BY <2>1, <2>2 DEF Parts
<1>4. /\ g.moves \in Seq(Nat) /\ n \in Nat /\ g.changes \in Seq(S) /\ Board(g) \in C
  BY KeptFacts, TotalBound
<1>5. PICK f, b : /\ Rewinds(g.moves, g.changes, Board(g), f, b)
                  /\ b \in [0 .. n -> C] /\ Rewound(g) = Before(n, b)
  BY RewoundExists
<1>6. Boards(n, b, C) /\ b[n] = Board(g)
  BY <1>5 DEF Boards, Rewinds
<1> DEFINE f2 == Then(n, f, Len(g.changes) + size)
           b2 == Then(n, b, board)
<1>7. Rewinds(moves, changes, board, f2, b2)
  BY <1>2, <1>4, <1>5, AppendRewinds
<1>8. Before(n + 1, b2) = Append(Rewound(g), Board(g)) /\ Boards(n + 1, b2, C)
  <2> HIDE DEF n, S, C, size, u, moves, changes, f2
  <2>1. Before(n + 1, Then(n, b, board)) = Append(Before(n, b), b[n]) /\ Boards(n + 1, Then(n, b, board), C)
    BY <1>2, <1>4, <1>6, BeforeThen
  <2>2. QED
    BY <1>5, <1>6, <2>1
<1>9. Len(Append(Rewound(g), Board(g))) = n + 1
  <2>1. n + 1 \in Nat
    BY <1>4
  <2>2. Len(Before(n + 1, b2)) = n + 1
    BY <1>8, <2>1, BeforeIs
  <2>3. QED
    BY <1>8, <2>2
<1>10. /\ moves \in Seq(Nat) /\ Len(moves) = n + 1 /\ moves # <<>>
       /\ changes \in Seq(S)
  <2>1. moves \in Seq(Nat) /\ Len(moves) = n + 1 /\ moves # <<>>
    <3> HIDE DEF S, C, size, u, changes, f2, b2
    <3>1. QED
      BY <1>2, <1>4, Appended
  <2>2. changes \in Seq(S)
    BY <1>2, <1>4, ConcatProperties
  <2>3. QED
    BY <2>1, <2>2
<1>11. /\ Board(h) = board
       /\ Len(moves) <= MaxMoves => h.moves = moves /\ h.changes = changes
       /\ ~(Len(moves) <= MaxMoves) =>
             /\ h.moves = Tail(moves)
             /\ h.changes = SubSeq(changes, Head(moves) + 1, Len(changes))
  <2> HIDE DEF u, changes
  <2>1. QED
    BY <1>3, FinishedParts
<1> HIDE DEF S, C, u, moves, changes, f2, b2
<1>12. MaxMoves \in Nat
  BY Sizes
<1>13. CASE Len(moves) <= MaxMoves
  <2>1. Rewinds(h.moves, h.changes, Board(h), f2, b2) /\ h.moves = moves
    BY <1>7, <1>11, <1>13
  <2>2. h.moves \in Seq(Nat)
    BY <1>10, <2>1
  <2>3. Rewound(h) = Before(Len(h.moves), b2)
    BY <2>1, <2>2, RewoundIs
  <2>4. ~(n + 1 > MaxMoves)
    BY <1>4, <1>10, <1>12, <1>13
  <2>5. QED
    BY <1>8, <1>9, <1>10, <2>1, <2>3, <2>4 DEF Pushed
<1>14. CASE ~(Len(moves) <= MaxMoves)
  <2> DEFINE f3 == From(Len(moves), f2)
             b3 == Later(Len(moves), b2)
  <2>1. Rewinds(Tail(moves), SubSeq(changes, Head(moves) + 1, Len(changes)), board, f3, b3)
    BY <1>7, <1>10, TailRewinds
  <2>2. Tail(moves) \in Seq(Nat) /\ Len(Tail(moves)) = (n + 1) - 1
    BY <1>10, HeadTailProperties
  <2> HIDE DEF f3, b3
  <2>3. /\ Rewinds(h.moves, h.changes, Board(h), f3, b3) /\ h.moves = Tail(moves)
        /\ h.moves \in Seq(Nat)
    BY <1>11, <1>14, <2>1, <2>2
  <2>4. Rewound(h) = Before(Len(h.moves), b3)
    BY <2>3, RewoundIs
  <2>5. Before((n + 1) - 1, b3) = Tail(Before(n + 1, b2))
    <3>1. n + 1 \in Nat \ {0}
      BY <1>4
    <3>2. Before((n + 1) - 1, Later(n + 1, b2)) = Tail(Before(n + 1, b2))
      BY <1>8, <3>1, BeforeLater
    <3>3. QED
      BY <1>10, <3>2 DEF b3
  <2>6. n + 1 > MaxMoves
    BY <1>4, <1>10, <1>12, <1>14
  <2>7. QED
    BY <1>8, <1>9, <2>2, <2>3, <2>4, <2>5, <2>6 DEF Pushed
<1>15. QED
  BY <1>13, <1>14

(* What undoing a move leaves: the board on top is the game's, and goes.   *)
LEMMA UndoPops ==
    ASSUME NEW g, Kept(g), CanUndo(g)
    PROVE  /\ Rewound(g) # <<>>
           /\ Board(Undoes(g)) = Rewound(g)[Len(Rewound(g))]
           /\ Rewound(Undoes(g)) = SubSeq(Rewound(g), 1, Len(Rewound(g)) - 1)
<1> DEFINE n == Len(g.moves)
           C == Clean(g.puzzle)
           S == Recordable(g.puzzle)
           h == Undoes(g)
<1>1. /\ g.moves \in Seq(Nat) /\ g.moves # <<>> /\ n \in Nat \ {0} /\ g.changes \in Seq(S)
  <2>1. g.moves \in Seq(Nat) /\ g.moves # <<>> /\ g.changes \in Seq(S)
    BY KeptFacts, TotalBound DEF CanUndo
  <2>2. QED
    BY <2>1, EmptySeq
<1>2. PICK f, b : /\ Rewinds(g.moves, g.changes, Board(g), f, b)
                  /\ b \in [0 .. n -> C] /\ Rewound(g) = Before(n, b)
  BY RewoundExists
<1>3. Boards(n, b, C)
  BY <1>2 DEF Boards
<1> DEFINE kept == Len(g.changes) - g.moves[n]
<1>4. /\ Rewinds(SubSeq(g.moves, 1, n - 1), SubSeq(g.changes, 1, kept), b[n - 1], UpTo(n, f), UpTo(n, b))
      /\ b[n - 1] = Restored(Board(g), LastChanges(g))
  <2> DEFINE moves == g.moves
             changes == g.changes
             board == Board(g)
  <2>1. moves \in Seq(Nat) /\ moves # <<>> /\ changes \in Seq(S) /\ Rewinds(moves, changes, board, f, b)
    BY <1>1, <1>2
  <2> HIDE DEF S, C, moves, changes, board
  <2>2. LET size == Len(moves)
        IN /\ Rewinds(SubSeq(moves, 1, size - 1), SubSeq(changes, 1, Len(changes) - moves[size]), b[size - 1],
                      UpTo(size, f), UpTo(size, b))
           /\ b[size - 1] = Restored(board, SubSeq(changes, Len(changes) - moves[size] + 1, Len(changes)))
    BY <2>1, FrontRewinds
  <2>3. QED
    BY <2>2 DEF LastChanges, moves, changes, board
<1>5. /\ Board(h) = b[n - 1]
      /\ h.moves = SubSeq(g.moves, 1, n - 1) /\ h.changes = SubSeq(g.changes, 1, kept)
  BY <1>4, UndoesKept
<1> HIDE DEF h
<1>6. h.moves \in Seq(Nat) /\ Len(h.moves) = n - 1
  <2>1. n - 1 \in 0 .. n
    BY <1>1
  <2> HIDE DEF kept, S, C
  <2>2. SubSeq(g.moves, 1, n - 1) \in Seq(Nat) /\ Len(SubSeq(g.moves, 1, n - 1)) = n - 1
    BY <1>1, <2>1, FrontPart
  <2>3. QED
    BY <1>5, <2>2
<1>7. Rewound(h) = Before(n - 1, UpTo(n, b))
  <2>1. Rewinds(h.moves, h.changes, Board(h), UpTo(n, f), UpTo(n, b))
    BY <1>4, <1>5
  <2>2. QED
    BY <1>6, <2>1, RewoundIs
<1>8. /\ Before(n - 1, UpTo(n, b)) = SubSeq(Before(n, b), 1, n - 1)
      /\ Before(n, b)[n] = b[n - 1] /\ Before(n, b) # <<>> /\ Len(Before(n, b)) = n
  BY <1>1, <1>3, BeforeUpTo
<1>9. QED
  BY <1>2, <1>5, <1>7, <1>8 DEF h

(* The history is one of the moves and the changes of the game alone.      *)
LEMMA SameHistory ==
    ASSUME NEW g, Kept(g), NEW h, h.moves = g.moves, h.changes = g.changes, Board(h) = Board(g)
    PROVE  Rewound(h) = Rewound(g)
<1>1. PICK f, b : /\ Rewinds(g.moves, g.changes, Board(g), f, b)
                  /\ Rewound(g) = Before(Len(g.moves), b)
  BY RewoundExists
<1>2. g.moves \in Seq(Nat)
  BY KeptFacts, TotalBound
<1>3. Rewound(h) = Before(Len(h.moves), b)
  BY <1>1, <1>2, RewoundIs
<1>4. QED
  BY <1>1, <1>3

LEMMA NoHistory ==
    ASSUME NEW g, g.moves = <<>>
    PROVE  Rewound(g) = <<>>
BY DEF Rewound
-------------------------------------------------------------------------------
(* What a step of the program does to the game and to the file.            *)

FileFollows == disk' = disk \/ disk'.file \in {disk.file, game'}
Plays(g, h) == \/ IsMove(g, h)
               \/ CanUndo(g) /\ h = Undoes(g)
               \/ h = Toggles(g)
               \/ \E cell \in Cells : h = Selects(g, cell)
Begins == game' = NoGame \/ \E puzzle \in Puzzles : game' = Created(puzzle)
GameStep ==
    \/ UNCHANGED <<game, disk>>
    \/ FileFollows /\ \/ UNCHANGED game
                      \/ Kept(game) /\ Plays(game, game')
                      \/ Begins
                      \/ Kept(disk.file) /\ game' = disk.file

LEMMA SaveFollows ==
    ASSUME NEW g, game' = g, Save(g)
    PROVE  FileFollows
BY DEF Save, SaveFile, FileFollows

LEMMA PlayedPlays ==
    ASSUME NEW hit, hit.target = "digit" => hit.index \in Digits, NEW a, NEW g, g = NoGame \/ Kept(g)
    PROVE  Played(hit, a, g) = g \/ (Kept(g) /\ Plays(g, Played(hit, a, g)))
<1>1. CASE ~Interactive(a, g)
  BY <1>1 DEF Played
<1>2. CASE Interactive(a, g)
  <2>1. Kept(g)
    BY <1>2 DEF Interactive, Playing, StatusOf
  <2>2. CASE hit.target = "digit"
    <3>1. Played(hit, a, g) = Enters(g, hit.index)
      BY <1>2, <2>2 DEF Played
    <3>2. Enters(g, hit.index) = g \/ IsMove(g, Enters(g, hit.index))
      BY <2>1, <2>2, EntersMove
    <3>3. QED
      BY <2>1, <3>1, <3>2 DEF Plays
  <2>3. CASE hit.target = "undo"
    <3>1. Played(hit, a, g) = Undoes(g)
      BY <1>2, <2>3 DEF Played
    <3>2. ~CanUndo(g) => Undoes(g) = g
      BY DEF Undoes
    <3>3. QED
      BY <2>1, <3>1, <3>2 DEF Plays
  <2>4. CASE hit.target = "erase"
    <3>1. Played(hit, a, g) = Erases(g)
      BY <1>2, <2>4 DEF Played
    <3>2. QED
      BY <2>1, <3>1, ErasesMove DEF Plays
  <2>5. CASE hit.target = "notes"
    <3>1. Played(hit, a, g) = Toggles(g)
      BY <1>2, <2>5 DEF Played
    <3>2. QED
      BY <2>1, <3>1 DEF Plays
  <2>6. CASE hit.target \notin {"digit", "undo", "erase", "notes"}
    BY <1>2, <2>6 DEF Played
  <2>7. QED
    BY <2>2, <2>3, <2>4, <2>5, <2>6
<1>3. QED
  BY <1>1, <1>2

LEMMA ActivateSteps ==
    ASSUME GameInv, NEW hit, hit.target = "digit" => hit.index \in Digits, NEW a, Activate(hit, a)
    PROVE  GameStep
<1>1. CASE Starts(hit, a, game)
  BY <1>1 DEF Activate, TakeFrom, GameStep
<1>2. CASE ~Starts(hit, a, game)
  <2> DEFINE g == Played(hit, a, game)
  <2>1. game' = g /\ IF g = game THEN UNCHANGED <<disk, edits>> ELSE Save(g)
    BY <1>2 DEF Activate
  <2>2. g = game \/ (Kept(game) /\ Plays(game, g))
    BY PlayedPlays DEF GameInv, GameOK
  <2> HIDE DEF g
  <2>3. QED
    BY <2>1, <2>2, SaveFollows DEF GameStep
<1>3. QED
  BY <1>1, <1>2

LEMMA SelectSteps ==
    ASSUME GameInv, game # NoGame, NEW cell \in Cells, NEW a, SelectCell(cell, a)
    PROVE  GameStep
BY DEF SelectCell, GameInv, GameOK, GameStep, Plays, FileFollows

LEMMA PressSteps ==
    ASSUME GameInv, NEW key \in Keys, Press(key)
    PROVE  GameStep
<1> DEFINE a == [Updated(app, game) EXCEPT !.pressed = None]
<1>1. \/ Activate(Hit("primary", -1), a) \/ Activate(Hit("resume", -1), a)
      \/ Activate(key, a)
      \/ game # NoGame /\ key.target = "cell" /\ SelectCell(key.index, a)
  BY DEF Press, Presses
<1>2. /\ key.target = "cell" => key.index \in Cells
      /\ key.target = "digit" => key.index \in Digits
  BY AppAssumption
<1>3. Hit("primary", -1).target # "digit" /\ Hit("resume", -1).target # "digit"
  BY DEF Hit
<1> HIDE DEF a
<1>4. QED
  BY <1>1, <1>2, <1>3, ActivateSteps, SelectSteps

LEMMA TouchSteps ==
    ASSUME GameInv, NEW place \in Places, TouchDown(place) \/ TouchUp(place)
    PROVE  GameStep
<1> DEFINE a == Updated(app, game)
           hit == HitTest(place, a, game)
           b == [a EXCEPT !.pressed = None]
           c == [a EXCEPT !.pressed = hit]
<1>1. \/ hit.target = "cell" /\ SelectCell(hit.index, b)
      \/ Settles(c) \/ Activate(hit, a) \/ Settles(b)
  BY DEF TouchDown, TouchUp
<1>2. /\ hit.target = "cell" => hit = place /\ game # NoGame
      /\ hit.target = "digit" => hit = place
  BY DEF HitTest, None, Hit
<1>3. /\ place.target = "cell" => place.index \in Cells
      /\ place.target = "digit" => place.index \in Digits
  BY AppAssumption
<1> HIDE DEF hit
<1>4. /\ hit.target = "cell" => hit.index \in Cells /\ game # NoGame
      /\ hit.target = "digit" => hit.index \in Digits
  BY <1>2, <1>3
<1>5. CASE Settles(b) \/ Settles(c)
  BY <1>5 DEF Settles, GameStep
<1> HIDE DEF a, b, c
<1>6. QED
  BY <1>1, <1>4, <1>5, ActivateSteps, SelectSteps

LEMMA StepsTaken == GameInv /\ [Next]_vars => GameStep
<1> SUFFICES ASSUME GameInv, [Next]_vars PROVE GameStep
  OBVIOUS
<1>1. CASE UNCHANGED vars
  BY <1>1 DEF vars, GameStep
<1>2. CASE \/ FingerLeaves \/ InputDestroyed \/ ContentChanged \/ ConfigurationChanged
           \/ Tick \/ Draw \/ Redraw \/ WindowCreated \/ WindowDestroyed
           \/ Start \/ Stop \/ Resume \/ FlashEnds
  <2>1. UNCHANGED <<game, disk>>
    BY <1>2 DEF FingerLeaves, InputDestroyed, ContentChanged, ConfigurationChanged, Tick, Draw, Redraw,
       WindowCreated, WindowDestroyed, Start, Stop, Resume, FlashEnds, Settles, vars
  <2>2. QED
    BY <2>1 DEF GameStep
<1>3. CASE OnPuzzle \/ NoMemory \/ Generates \/ Wakes \/ Join
  BY <1>3 DEF OnPuzzle, TakeFrom, NoMemory, Generates, Wakes, Join, GameStep
<1>4. CASE \E key \in Keys : Press(key)
  BY <1>4, PressSteps
<1>5. CASE \E place \in Places : TouchDown(place) \/ TouchUp(place)
  BY <1>5, TouchSteps
<1>6. CASE Back
  <2>1. Activate(Hit("secondary", -1), Updated(app, game)) /\ Hit("secondary", -1).target # "digit"
    BY <1>6 DEF Back, Hit
  <2>2. QED
    BY <2>1, ActivateSteps
<1>7. CASE Destroy \/ Die \/ NoPuzzle
  BY <1>7 DEF Destroy, Die, NoPuzzle, GameStep, FileFollows, Begins
<1>8. CASE Pause
  <2>1. game' = game /\ Save(game)
    BY <1>8 DEF Pause
  <2>2. QED
    BY <2>1, SaveFollows DEF GameStep
<1>9. CASE NewGame
  <2>1. Begins /\ Save(game')
    BY <1>9 DEF NewGame, Begins
  <2>2. QED
    BY <2>1, SaveFollows DEF GameStep
<1>10. CASE Launch
  <2>1. PICK file \in LoadFile(disk) :
           IF file \notin {Absent, Unreadable} /\ Loadable(file)
             THEN game' = file ELSE game' = NoGame
    BY <1>10 DEF Launch
  <2>2. disk' = disk
    BY <1>10 DEF Launch
  <2>3. CASE game' = NoGame
    BY <2>2, <2>3 DEF GameStep, FileFollows, Begins
  <2>4. CASE file \notin {Absent, Unreadable} /\ game' = file
    <3>1. file = disk.file
      BY <2>1, <2>4 DEF LoadFile
    <3>2. Kept(disk.file)
      BY <2>4, <3>1 DEF GameInv, FileOK
    <3>3. QED
      BY <2>2, <2>4, <3>1, <3>2 DEF GameStep, FileFollows
  <2>5. QED
    BY <2>1, <2>3, <2>4
<1>11. QED
  BY <1>1, <1>2, <1>3, <1>4, <1>5, <1>6, <1>7, <1>8, <1>9, <1>10 DEF Next
-------------------------------------------------------------------------------
(* Each of them is a step of the stack of boards.                          *)

StackStep == UNCHANGED <<game, disk>> \/ History!Next

LEMMA StackIs ==
    ASSUME NEW g
    PROVE  /\ StackOf(g) = [now |-> StackOf(g).now, past |-> StackOf(g).past]
           /\ Kept(g) => StackOf(g).now = Board(g) /\ StackOf(g).past = Rewound(g)
           /\ g = NoGame => StackOf(g).now = NoGame /\ StackOf(g).past = <<>>
<1>1. StackOf(g) = [now |-> StackOf(g).now, past |-> StackOf(g).past]
  BY DEF StackOf
<1>2. ASSUME Kept(g) PROVE StackOf(g).now = Board(g) /\ StackOf(g).past = Rewound(g)
  <2>1. g \in Game
    BY <1>2 DEF Kept
  <2>2. "values" \in DOMAIN g
    BY <2>1 DEF Game
  <2>3. QED
    BY <2>2 DEF StackOf
<1>3. ASSUME g = NoGame PROVE StackOf(g).now = NoGame /\ StackOf(g).past = <<>>
  <2>1. ~("values" \in DOMAIN g)
    BY <1>3 DEF NoGame
  <2>2. QED
    BY <2>1 DEF StackOf
<1>4. QED
  BY <1>1, <1>2, <1>3

LEMMA StacksSaved ==
    ASSUME FileFollows
    PROVE  {StackOf(disk'.file)} \subseteq {StackOf(disk.file)} \cup {StackOf(game')}
BY DEF FileFollows

(* A step of the stack: its two parts change together, and what is saved   *)
(* was there before or is what the step leaves.                            *)
LEMMA StackSteps ==
    ASSUME FileFollows,
           \/ StackOf(game').past = Pushed(StackOf(game).past, StackOf(game).now)
           \/ /\ StackOf(game).past # <<>>
              /\ StackOf(game').now = StackOf(game).past[Len(StackOf(game).past)]
              /\ StackOf(game').past = SubSeq(StackOf(game).past, 1, Len(StackOf(game).past) - 1)
           \/ /\ StackOf(game').now \in {Board(Created(puzzle)) : puzzle \in Puzzles} \cup {NoGame}
              /\ StackOf(game').past = <<>>
           \/ StackOf(game') = StackOf(disk.file)
           \/ StackOf(game').now = StackOf(game).now /\ StackOf(game').past = StackOf(game).past
    PROVE  History!Next
<1>1. History!Move \/ History!Undo \/ History!Begin \/ History!Load \/ History!Keep
  BY StackIs DEF History!Move, History!Undo, History!Begin, History!Load, History!Keep, History!Bounded,
     History!Stack, Pushed
<1>2. {StackOf(disk'.file)} \subseteq {StackOf(disk.file)} \cup {History!Stack'}
  BY StacksSaved, StackIs DEF History!Stack
<1>3. QED
  BY <1>1, <1>2 DEF History!Next

LEMMA PlaySteps ==
    ASSUME Kept(game), Plays(game, game'), FileFollows
    PROVE  History!Next
<1>1. StackOf(game).now = Board(game) /\ StackOf(game).past = Rewound(game)
  BY StackIs
<1>2. CASE IsMove(game, game')
  <2>1. Kept(game')
    BY <1>2, MoveKept
  <2>2. Rewound(game') = Pushed(Rewound(game), Board(game))
    BY <1>2, MovePushes
  <2>3. StackOf(game').past = Rewound(game')
    BY <2>1, StackIs
  <2>4. QED
    BY <1>1, <2>2, <2>3, StackSteps
<1>3. CASE CanUndo(game) /\ game' = Undoes(game)
  <2>1. Kept(game')
    BY <1>3, UndoesKept
  <2>2. /\ Rewound(game) # <<>>
        /\ Board(game') = Rewound(game)[Len(Rewound(game))]
        /\ Rewound(game') = SubSeq(Rewound(game), 1, Len(Rewound(game)) - 1)
    BY <1>3, UndoPops
  <2>3. StackOf(game').now = Board(game') /\ StackOf(game').past = Rewound(game')
    BY <2>1, StackIs
  <2>4. QED
    BY <1>1, <2>2, <2>3, StackSteps
<1>4. CASE game' = Toggles(game) \/ \E cell \in Cells : game' = Selects(game, cell)
  <2>1. /\ Kept(game') /\ Board(game') = Board(game)
        /\ game'.moves = game.moves /\ game'.changes = game.changes
    BY <1>4, TogglesKept, SelectsKept
  <2>2. Rewound(game') = Rewound(game)
    BY <2>1, SameHistory
  <2>3. StackOf(game').now = Board(game') /\ StackOf(game').past = Rewound(game')
    BY <2>1, StackIs
  <2>4. QED
    BY <1>1, <2>1, <2>2, <2>3, StackSteps
<1>5. QED
  BY <1>2, <1>3, <1>4 DEF Plays

LEMMA BeginSteps ==
    ASSUME Begins, FileFollows
    PROVE  History!Next
<1>1. CASE game' = NoGame
  BY <1>1, StackIs, StackSteps
<1>2. CASE \E puzzle \in Puzzles : game' = Created(puzzle)
  <2>1. PICK puzzle \in Puzzles : game' = Created(puzzle)
    BY <1>2
  <2>2. Kept(game') /\ game'.moves = <<>>
    BY <2>1, CreatedKept
  <2>3. StackOf(game').now = Board(game') /\ StackOf(game').past = <<>>
    BY <2>2, StackIs, NoHistory
  <2>4. Board(game') \in {Board(Created(p)) : p \in Puzzles} \cup {NoGame}
    BY <2>1
  <2>5. QED
    BY <2>3, <2>4, StackSteps
<1>3. QED
  BY <1>1, <1>2 DEF Begins

LEMMA StackNext == GameInv /\ GameStep => StackStep
<1> SUFFICES ASSUME GameInv, GameStep PROVE StackStep
  OBVIOUS
<1>1. CASE UNCHANGED <<game, disk>>
  BY <1>1 DEF StackStep
<1>2. CASE FileFollows /\ UNCHANGED game
  BY <1>2, StackSteps DEF StackStep
<1>3. CASE FileFollows /\ Kept(game) /\ Plays(game, game')
  BY <1>3, PlaySteps DEF StackStep
<1>4. CASE FileFollows /\ Begins
  BY <1>4, BeginSteps DEF StackStep
<1>5. CASE FileFollows /\ game' = disk.file
  BY <1>5, StackSteps DEF StackStep
<1>6. QED
  BY <1>1, <1>2, <1>3, <1>4, <1>5 DEF GameStep

(* The code's history of changes (finish_move() and undo() of game.cc) is  *)
(* a bounded stack of whole boards: a move pushes the board before it, and *)
(* above the limit the oldest goes, undoing a move returns exactly that    *)
(* board, and a game that is loaded has a stack that was there when it was *)
(* saved.  This is for boards, puzzles and histories of every size.        *)
THEOREM HistoryImplemented == Spec => ImplementsHistory
<1>1. GameInv /\ [Next]_vars => (UNCHANGED <<game, disk>> \/ History!Next)
  BY StepsTaken, StackNext DEF StackStep
<1>2. QED
  BY <1>1, GameHolds, PTL DEF Spec, ImplementsHistory
-------------------------------------------------------------------------------
(* How puzzles are made and rated.                                         *)

LEMMA OneMore ==
    ASSUME NEW S, NEW x, IsFiniteSet(S), x \notin S
    PROVE  IsFiniteSet(S \cup {x}) /\ Cardinality(S \cup {x}) = Cardinality(S) + 1
BY FS_AddElement

LEMMA FourCells ==
    ASSUME NEW a \in Int, NEW b \in Int, NEW c \in Int, NEW d \in Int, a < b, b < c, c < d
    PROVE  Cardinality({a, b, c, d}) = 4
<1>1. IsFiniteSet({a}) /\ Cardinality({a}) = 1
  BY FS_Singleton
<1>2. b \notin {a} /\ c \notin {a, b} /\ d \notin {a, b, c}
  OBVIOUS
<1>3. {a, b} = {a} \cup {b} /\ {a, b, c} = {a, b} \cup {c} /\ {a, b, c, d} = {a, b, c} \cup {d}
  OBVIOUS
<1>4. IsFiniteSet({a, b}) /\ Cardinality({a, b}) = 2
  BY <1>1, <1>2, <1>3, OneMore
<1>5. IsFiniteSet({a, b, c}) /\ Cardinality({a, b, c}) = 3
  BY <1>2, <1>3, <1>4, OneMore
<1>6. QED
  BY <1>2, <1>3, <1>5, OneMore

LEMMA Shape4 == Shaped(4, Boxes4)
<1>1. /\ Cardinality({0, 1, 4, 5}) = 4 /\ Cardinality({2, 3, 6, 7}) = 4
      /\ Cardinality({8, 9, 12, 13}) = 4 /\ Cardinality({10, 11, 14, 15}) = 4
  <2>1. Cardinality({0, 1, 4, 5}) = 4
    BY FourCells
  <2>2. Cardinality({2, 3, 6, 7}) = 4
    BY FourCells
  <2>3. Cardinality({8, 9, 12, 13}) = 4
    BY FourCells
  <2>4. Cardinality({10, 11, 14, 15}) = 4
    BY FourCells
  <2>5. QED
    BY <2>1, <2>2, <2>3, <2>4
<1>2. \A box \in Boxes4 : Cardinality(box) = 4
  BY <1>1 DEF Boxes4
<1>3. \A box \in Boxes4 : box \subseteq 0 .. 4 * 4 - 1
  BY DEF Boxes4
<1>4. QED
  BY <1>2, <1>3 DEF Shaped

LEMMA Solution4Values ==
    /\ Solution4[0] = 1 /\ Solution4[1] = 2 /\ Solution4[2] = 3 /\ Solution4[3] = 4
    /\ Solution4[4] = 3 /\ Solution4[5] = 4 /\ Solution4[6] = 1 /\ Solution4[7] = 2
    /\ Solution4[8] = 2 /\ Solution4[9] = 1 /\ Solution4[10] = 4 /\ Solution4[11] = 3
    /\ Solution4[12] = 4 /\ Solution4[13] = 3 /\ Solution4[14] = 2 /\ Solution4[15] = 1
BY DEF Solution4

LEMMA Solution4Valid == Solution4 \in Valid(Tables4)
<1> DEFINE Differ(a, b) == a # b => Solution4[a] # Solution4[b]
<1>1. Solution4 \in [0 .. 15 -> 1 .. 4]
  <2>1. \A c \in 0 .. 15 : Solution4[c] \in 1 .. 4
    BY Solution4Values
  <2>2. Solution4 = [c \in 0 .. 15 |-> Solution4[c]]
    BY DEF Solution4
  <2>3. QED
    BY <2>1, <2>2
<1>2. ASSUME NEW row \in 0 .. 3, NEW i \in 0 .. 3, NEW j \in 0 .. 3
      PROVE  Differ(row * 4 + i, row * 4 + j)
  BY Solution4Values
<1>3. ASSUME NEW column \in 0 .. 3, NEW i \in 0 .. 3, NEW j \in 0 .. 3
      PROVE  Differ(i * 4 + column, j * 4 + column)
  BY Solution4Values
<1>4. ASSUME NEW box \in Boxes4, NEW a \in box, NEW b \in box PROVE Differ(a, b)
  BY Solution4Values DEF Boxes4
<1>5. ASSUME NEW unit \in Tables4.units, NEW a \in unit, NEW b \in unit PROVE Differ(a, b)
  <2>1. CASE \E row \in 0 .. 3 : unit = {row * 4 + i : i \in 0 .. 3}
    <3> HIDE DEF Differ
    <3>1. QED
      BY <1>2, <2>1
  <2>2. CASE \E column \in 0 .. 3 : unit = {i * 4 + column : i \in 0 .. 3}
    <3> HIDE DEF Differ
    <3>1. QED
      BY <1>3, <2>2
  <2>3. CASE unit \in Boxes4
    BY <1>4, <2>3
  <2>4. \/ \E row \in 0 .. 3 : unit = {row * 4 + i : i \in 0 .. 3}
        \/ \E column \in 0 .. 3 : unit = {i * 4 + column : i \in 0 .. 3}
        \/ unit \in Boxes4
    <3>1. Tables4.units = {{row * 4 + i : i \in 0 .. 4 - 1} : row \in 0 .. 4 - 1}
                          \cup {{i * 4 + column : i \in 0 .. 4 - 1} : column \in 0 .. 4 - 1} \cup Boxes4
      BY DEF Tables4, Tables
    <3>2. 4 - 1 = 3
      OBVIOUS
    <3>3. QED
      BY <3>1, <3>2
  <2>5. QED
    BY <2>1, <2>2, <2>3, <2>4
<1>6. /\ Tables4.cells = 0 .. 15 /\ Tables4.digits = 1 .. 4
      /\ Tables4.peers = [c \in 0 .. 15 |-> (UNION {unit \in Tables4.units : c \in unit}) \ {c}]
  <2>1. 4 * 4 - 1 = 15
    OBVIOUS
  <2>2. QED
    BY <2>1 DEF Tables4, Tables
<1>7. ASSUME NEW c \in Tables4.cells, NEW p \in Tables4.peers[c] PROVE Solution4[c] # Solution4[p]
  <2>1. PICK unit \in Tables4.units : c \in unit /\ p \in unit /\ p # c
    BY <1>6
  <2>2. QED
    BY <1>5, <2>1
<1>8. QED
  BY <1>1, <1>6, <1>7 DEF Valid

(* The positions that the run looks at are ones that agree with the        *)
(* solution.                                                               *)
LEMMA PositionsAgree ==
    ASSUME NEW cells \in SUBSET (0 .. 15), NEW digits \in SUBSET (1 .. 4),
           NEW marks \in SUBSET Spare(cells, digits)
    PROVE  Agrees(Tables4, Without(marks))
<1>1. Fitting(Tables4)
  BY Shape4, TablesFit DEF Tables4
<1>2. Tables4.cells = 0 .. 15 /\ Tables4.digits = 1 .. 4 /\ Tables4.side = 4
  <2>1. 4 * 4 - 1 = 15
    OBVIOUS
  <2>2. QED
    BY <2>1 DEF Tables4, Tables
<1>3. Clues(Tables4, Blank(Tables4), Solution4)
  BY <1>2, Solution4Valid DEF Clues, Blank
<1>4. Agrees(Tables4, Blank4)
  BY <1>1, <1>3, CluedAgrees DEF Blank4
<1>5. Blank4.reference = Solution4
  BY DEF Blank4, Clued
<1>6. marks \in SUBSET Spared(Tables4, Blank4)
  BY <1>2, <1>5 DEF Spare, Spared
<1>7. QED
  BY <1>1, <1>4, <1>6, EliminateAgrees DEF Without

LEMMA PositionsSound ==
    ASSUME NEW cells \in SUBSET (0 .. 15), NEW digits \in SUBSET (1 .. 4),
           NEW marks \in SUBSET Spare(cells, digits), NEW level \in 1 .. 5
    PROVE  Sound(Tables4, Without(marks), level)
<1>1. Agrees(Tables4, Without(marks))
  BY PositionsAgree
<1>2. QED
  BY <1>1, Shape4, TechniquesSound DEF Tables4

LEMMA DeductionsAreSound == DeductionsSound
<1>1. ASSUME NEW a \in 1 .. 2, NEW b \in 4 .. 5, NEW s \in Wings(a, b), NEW level \in 1 .. 5
      PROVE  Sound(Tables4, s, level)
  <2>1. PICK marks \in SUBSET Spare({0, a, b}, 1 .. 4) : s = Without(marks)
    BY DEF Wings
  <2>2. {0, a, b} \in SUBSET (0 .. 15)
    OBVIOUS
  <2>3. QED
    BY <2>1, <2>2, PositionsSound
<1>2. ASSUME NEW s \in Lines, NEW level \in 1 .. 5 PROVE Sound(Tables4, s, level)
  <2>1. PICK digit \in 1 .. 4,
             line \in {{4 * row + i : row \in {0, other}, i \in 0 .. 3} : other \in 1 .. 2}
                      \cup {{4 * i + column : column \in {0, other}, i \in 0 .. 3} : other \in 1 .. 2} :
             \E marks \in SUBSET Spare(line, {digit}) : s = Without(marks)
    BY DEF Lines
  <2>2. PICK marks \in SUBSET Spare(line, {digit}) : s = Without(marks)
    BY <2>1
  <2>3. line \in SUBSET (0 .. 15)
    OBVIOUS
  <2>4. QED
    BY <2>2, <2>3, PositionsSound
<1>3. \A s \in AllWings : \E a \in 1 .. 2, b \in 4 .. 5 : s \in Wings(a, b)
  BY DEF AllWings
<1>4. 1 \in 1 .. 2 /\ 4 \in 4 .. 5
  OBVIOUS
<1>5. QED
  BY <1>1, <1>2, <1>3, <1>4 DEF DeductionsSound

(* Each of these orders goes through all the cells.                        *)
LEMMA OrdersReach ==
    ASSUME NEW order \in Orders4
    PROVE  /\ order \in Seq(0 .. 15)
           /\ \A c \in 0 .. 15 : \E i \in 1 .. Len(order) : order[i] = c
<1>1. PICK k \in {1, 3, 5, 7}, j \in {0, 5} : order = [i \in 1 .. 16 |-> (k * i + j) % 16]
  BY DEF Orders4
<1>2. \A i \in 1 .. 16 : (k * i + j) % 16 \in 0 .. 15
  <2> TAKE i \in 1 .. 16
  <2>1. k * i + j \in Int
    OBVIOUS
  <2> DEFINE x == k * i + j
  <2> HIDE DEF x
  <2>2. x % 16 \in 0 .. 15
    BY <2>1 DEF x
  <2>3. QED
    BY <2>2 DEF x
<1>3. order \in [1 .. 16 -> 0 .. 15]
  BY <1>1, <1>2
<1>4. order \in Seq(0 .. 15) /\ Len(order) = 16
  <2>1. order \in Seq(0 .. 15)
    BY <1>3, SeqDef
  <2>2. DOMAIN order = 1 .. 16 /\ DOMAIN order = 1 .. Len(order) /\ Len(order) \in Nat
    BY <1>3, <2>1, LenProperties
  <2>3. QED
    BY <2>1, <2>2
<1>5. ASSUME NEW c \in 0 .. 15 PROVE \E i \in 1 .. 16 : (k * i + j) % 16 = c
  <2>1. CASE k = 1
    BY <2>1
  <2>2. CASE k = 3
    BY <2>2
  <2>3. CASE k = 5
    BY <2>3
  <2>4. CASE k = 7
    BY <2>4
  <2>5. QED
    BY <2>1, <2>2, <2>3, <2>4
<1>6. QED
  BY <1>1, <1>4, <1>5

LEMMA MinimizedAreMinimal == MinimizedMinimal
<1>1. Tables4.cells = 0 .. 15
  <2>1. 4 * 4 - 1 = 15
    OBVIOUS
  <2>2. QED
    BY <2>1 DEF Tables4, Tables
<1>2. ASSUME NEW order \in Orders4 PROVE Minimal(Tables4, Minimized(Tables4, Solution4, order))
  <2>1. /\ order \in Seq(Tables4.cells)
        /\ \A c \in Tables4.cells : \E i \in 1 .. Len(order) : order[i] = c
    BY <1>1, OrdersReach
  <2>2. QED
    BY <2>1, Shape4, Solution4Valid, MinimizedIsMinimal DEF Tables4
<1>3. QED
  BY <1>2 DEF MinimizedMinimal

(* Every puzzle that is ready is minimal and has one solution, in whatever *)
(* order its clues were removed, and on the 4 x 4 boards of the run        *)
(* minimize() leaves no clue to spare and no technique contradicts the     *)
(* solution: instances of MinimizedIsMinimal and TechniquesSound.          *)
THEOREM PuzzlesStaySound == Spec => []PuzzlesSound
<1>1. \A puzzle \in Puzzles : Minimal(BoardTables, puzzle.givens)
  BY PuzzleFacts
<1>2. PuzzlesSound
  BY <1>1, MinimizedAreMinimal, DeductionsAreSound DEF PuzzlesSound
<1>3. QED
  BY <1>2, PTL
================================================================================
