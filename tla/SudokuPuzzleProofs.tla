-------------------------- MODULE SudokuPuzzleProofs --------------------------
(***************************************************************************)
(* Proofs about how puzzles are made and rated, for boards of every size   *)
(* and shape: the search finds every solution, what is left of a solution  *)
(* is minimal, and no technique of the solver contradicts the solution.    *)
(***************************************************************************)
EXTENDS SudokuPuzzle, RecursionProofs, FiniteSetTheorems, SequenceTheorems, TLAPS
-------------------------------------------------------------------------------
(* Finite sets.                                                            *)

(* An injection into a finite set that is no larger reaches all of it.     *)
LEMMA ReachesAll ==
    ASSUME NEW S, NEW T, IsFiniteSet(S), IsFiniteSet(T), Cardinality(S) = Cardinality(T),
           NEW f \in [S -> T], \A a, b \in S : f[a] = f[b] => a = b
    PROVE  \A y \in T : \E x \in S : f[x] = y
<1>1. f \in Injection(S, T)
  BY DEF Injection, IsInjective
<1>2. f \in Surjection(S, T)
  BY <1>1, FS_Injection
<1>3. QED
  BY <1>2 DEF Surjection, Range

LEMMA Pair ==
    ASSUME NEW S, IsFiniteSet(S), Cardinality(S) = 2, NEW x \in S
    PROVE  \E y \in S : y # x /\ S = {x, y}
<1>1. IsFiniteSet(S \ {x}) /\ Cardinality(S \ {x}) = 1
  BY FS_RemoveElement
<1>2. PICK y : S \ {x} = {y}
  BY <1>1, FS_Singleton
<1>3. QED
  BY <1>2
-------------------------------------------------------------------------------
(* What make_tables() is for.                                              *)

\* The boxes of a board with this side: of any shape, and as many as one likes.
Shaped(side, boxes) ==
    /\ side \in Nat \ {0}
    /\ \A box \in boxes : box \subseteq 0 .. side * side - 1 /\ Cardinality(box) = side

Parted(cells, lines) ==
    /\ \A c \in cells : \E line \in lines : c \in line
    /\ \A a, b \in lines : a \cap b # {} => a = b
Fitting(t) ==
    /\ t.side \in Nat \ {0} /\ t.digits = 1 .. t.side
    /\ IsFiniteSet(t.cells) /\ IsFiniteSet(t.rows) /\ IsFiniteSet(t.columns)
    /\ t.units = t.rows \cup t.columns \cup t.boxes
    /\ \A unit \in t.units : unit \subseteq t.cells /\ IsFiniteSet(unit) /\ Cardinality(unit) = t.side
    /\ Parted(t.cells, t.rows) /\ Parted(t.cells, t.columns)
    /\ t.peers = [c \in t.cells |-> (UNION {unit \in t.units : c \in unit}) \ {c}]

(* Two numbers with a remainder are the same when they are of one cell.    *)
LEMMA Remainders ==
    ASSUME NEW side \in Nat \ {0}, NEW a \in Nat, NEW b \in Nat,
           NEW i \in 0 .. side - 1, NEW j \in 0 .. side - 1, a * side + i = b * side + j
    PROVE  a = b /\ i = j
<1>1. ASSUME NEW x \in Nat, NEW y \in Nat, x < y PROVE x * side + side <= y * side
  <2>1. PICK k \in Nat : y = x + 1 + k
    <3>1. y - x - 1 \in Nat /\ y = x + 1 + (y - x - 1)
      BY <1>1
    <3>2. QED
      BY <3>1
  <2>2. y * side = x * side + side + k * side
    BY <2>1
  <2>3. k * side \in Nat /\ x * side \in Nat
    OBVIOUS
  <2>4. QED
    BY <2>2, <2>3
<1>2. a * side \in Nat /\ b * side \in Nat
  OBVIOUS
<1>3. ~(a < b)
  <2>1. SUFFICES ASSUME a < b PROVE FALSE
    OBVIOUS
  <2>2. a * side + side <= b * side
    BY <1>1, <2>1
  <2>3. QED
    BY <1>2, <2>2
<1>4. ~(b < a)
  <2>1. SUFFICES ASSUME b < a PROVE FALSE
    OBVIOUS
  <2>2. b * side + side <= a * side
    BY <1>1, <2>1
  <2>3. QED
    BY <1>2, <2>2
<1>5. a = b
  BY <1>3, <1>4
<1>6. QED
  BY <1>2, <1>5

LEMMA RowAndColumn ==
    ASSUME NEW side \in Nat \ {0}, NEW c \in 0 .. side * side - 1
    PROVE  \E row, column \in 0 .. side - 1 : c = row * side + column
<1> DEFINE T == {row \in Nat : c < (row + 1) * side}
<1>1. c \in Nat /\ side * side \in Nat /\ c < side * side
  OBVIOUS
<1>2. side - 1 \in T
  <2>1. (side - 1 + 1) * side = side * side
    OBVIOUS
  <2>2. QED
    BY <1>1, <2>1
<1>3. T \subseteq Nat
  OBVIOUS
<1> HIDE DEF T
<1>4. PICK row \in T : \A k \in T : row <= k
  BY <1>2, <1>3, Least
<1>5. row \in Nat /\ row <= side - 1
  BY <1>2, <1>3, <1>4
<1>6. row * side \in Nat /\ c < row * side + side
  <2>1. c < (row + 1) * side
    BY <1>4 DEF T
  <2>2. (row + 1) * side = row * side + side
    BY <1>5
  <2>3. QED
    BY <1>5, <2>1, <2>2
<1>7. row * side <= c
  <2>1. CASE row = 0
    BY <1>1, <2>1
  <2>2. CASE row # 0
    <3>1. row - 1 \in Nat /\ row - 1 \notin T
      BY <1>4, <1>5, <2>2
    <3>2. ~(c < (row - 1 + 1) * side)
      BY <3>1 DEF T
    <3>3. (row - 1 + 1) * side = row * side
      BY <1>5
    <3>4. QED
      BY <1>1, <1>6, <3>2, <3>3
  <2>3. QED
    BY <2>1, <2>2
<1>8. row \in 0 .. side - 1 /\ c - row * side \in 0 .. side - 1 /\ c = row * side + (c - row * side)
  BY <1>1, <1>5, <1>6, <1>7
<1>9. QED
  BY <1>8

LEMMA LineSizes ==
    ASSUME NEW side \in Nat \ {0}, NEW line,
           NEW f \in [0 .. side - 1 -> line], \A c \in line : \E i \in 0 .. side - 1 : f[i] = c,
           \A i, j \in 0 .. side - 1 : f[i] = f[j] => i = j
    PROVE  IsFiniteSet(line) /\ Cardinality(line) = side
<1> DEFINE S == 0 .. side - 1
<1>1. IsFiniteSet(S) /\ Cardinality(S) = side
  BY FS_Interval
<1> HIDE DEF S
<1>2. f \in Surjection(S, line) /\ f \in Injection(S, line)
  BY DEF Surjection, Injection, Range, IsInjective, S
<1>3. f \in Bijection(S, line)
  BY <1>2 DEF Bijection
<1>4. ExistsBijection(S, line)
  BY <1>3 DEF ExistsBijection
<1>5. QED
  BY <1>1, <1>4, FS_Bijection

Line(side, row) == {row * side + i : i \in 0 .. side - 1}
Pile(side, column) == {i * side + column : i \in 0 .. side - 1}

LEMMA CellOf ==
    ASSUME NEW side \in Nat \ {0}, NEW row \in 0 .. side - 1, NEW column \in 0 .. side - 1
    PROVE  row * side + column \in 0 .. side * side - 1
<1>1. row * side \in Nat /\ side * side \in Nat
  OBVIOUS
<1>2. (side - 1 - row) * side \in Nat
  <2>1. side - 1 - row \in Nat
    OBVIOUS
  <2>2. QED
    BY <2>1
<1>3. (side - 1 - row) * side = side * side - side - row * side
  OBVIOUS
<1>4. QED
  BY <1>1, <1>2, <1>3

LEMMA LinesFit ==
    ASSUME NEW side \in Nat \ {0}
    PROVE  /\ \A row \in 0 .. side - 1 :
                 /\ Line(side, row) \subseteq 0 .. side * side - 1
                 /\ IsFiniteSet(Line(side, row)) /\ Cardinality(Line(side, row)) = side
           /\ \A column \in 0 .. side - 1 :
                 /\ Pile(side, column) \subseteq 0 .. side * side - 1
                 /\ IsFiniteSet(Pile(side, column)) /\ Cardinality(Pile(side, column)) = side
<1>1. ASSUME NEW row \in 0 .. side - 1
      PROVE  /\ Line(side, row) \subseteq 0 .. side * side - 1
             /\ IsFiniteSet(Line(side, row)) /\ Cardinality(Line(side, row)) = side
  <2> DEFINE f == [i \in 0 .. side - 1 |-> row * side + i]
  <2>1. f \in [0 .. side - 1 -> Line(side, row)]
    BY DEF Line
  <2>2. \A c \in Line(side, row) : \E i \in 0 .. side - 1 : f[i] = c
    BY DEF Line
  <2>3. row \in Nat
    OBVIOUS
  <2>4. \A i, j \in 0 .. side - 1 : f[i] = f[j] => i = j
    BY <2>3, Remainders
  <2> HIDE DEF f
  <2>5. IsFiniteSet(Line(side, row)) /\ Cardinality(Line(side, row)) = side
    BY <2>1, <2>2, <2>4, LineSizes
  <2>6. QED
    BY <2>5, CellOf DEF Line
<1>2. ASSUME NEW column \in 0 .. side - 1
      PROVE  /\ Pile(side, column) \subseteq 0 .. side * side - 1
             /\ IsFiniteSet(Pile(side, column)) /\ Cardinality(Pile(side, column)) = side
  <2> DEFINE f == [i \in 0 .. side - 1 |-> i * side + column]
  <2>1. f \in [0 .. side - 1 -> Pile(side, column)]
    BY DEF Pile
  <2>2. \A c \in Pile(side, column) : \E i \in 0 .. side - 1 : f[i] = c
    BY DEF Pile
  <2>3. \A i \in 0 .. side - 1 : i \in Nat
    OBVIOUS
  <2>4. \A i, j \in 0 .. side - 1 : f[i] = f[j] => i = j
    BY <2>3, Remainders
  <2> HIDE DEF f
  <2>5. IsFiniteSet(Pile(side, column)) /\ Cardinality(Pile(side, column)) = side
    BY <2>1, <2>2, <2>4, LineSizes
  <2>6. QED
    BY <2>5, CellOf DEF Pile
<1>3. QED
  BY <1>1, <1>2

LEMMA LinesFinite ==
    ASSUME NEW side \in Nat \ {0}
    PROVE  /\ IsFiniteSet({Line(side, row) : row \in 0 .. side - 1})
           /\ IsFiniteSet({Pile(side, column) : column \in 0 .. side - 1})
<1> DEFINE S == 0 .. side - 1
           rows == {Line(side, row) : row \in S}
           columns == {Pile(side, column) : column \in S}
           f == [row \in S |-> Line(side, row)]
           g == [column \in S |-> Pile(side, column)]
<1>1. IsFiniteSet(S)
  BY FS_Interval
<1>2. f \in Surjection(S, rows) /\ g \in Surjection(S, columns)
  BY DEF Surjection, Range
<1> HIDE DEF S, f, g, rows, columns
<1>3. IsFiniteSet(rows) /\ IsFiniteSet(columns)
  BY <1>1, <1>2, FS_Surjection
<1>4. QED
  BY <1>3 DEF rows, columns, S

LEMMA LinesPart ==
    ASSUME NEW side \in Nat \ {0}
    PROVE  /\ Parted(0 .. side * side - 1, {Line(side, row) : row \in 0 .. side - 1})
           /\ Parted(0 .. side * side - 1, {Pile(side, column) : column \in 0 .. side - 1})
<1>1. \A i \in 0 .. side - 1 : i \in Nat
  OBVIOUS
<1>2. ASSUME NEW c \in 0 .. side * side - 1
      PROVE  /\ \E row \in 0 .. side - 1 : c \in Line(side, row)
             /\ \E column \in 0 .. side - 1 : c \in Pile(side, column)
  <2>1. PICK row \in 0 .. side - 1, column \in 0 .. side - 1 : c = row * side + column
    BY RowAndColumn
  <2>2. c \in Line(side, row) /\ c \in Pile(side, column)
    BY <2>1 DEF Line, Pile
  <2>3. QED
    BY <2>2
<1>3. ASSUME NEW row \in 0 .. side - 1, NEW other \in 0 .. side - 1,
             NEW c, c \in Line(side, row), c \in Line(side, other)
      PROVE  row = other
  <2>1. PICK i \in 0 .. side - 1, j \in 0 .. side - 1 : c = row * side + i /\ c = other * side + j
    BY <1>3 DEF Line
  <2>2. QED
    BY <1>1, <2>1, Remainders
<1>4. ASSUME NEW column \in 0 .. side - 1, NEW other \in 0 .. side - 1,
             NEW c, c \in Pile(side, column), c \in Pile(side, other)
      PROVE  column = other
  <2>1. PICK i \in 0 .. side - 1, j \in 0 .. side - 1 : c = i * side + column /\ c = j * side + other
    BY <1>4 DEF Pile
  <2>2. QED
    BY <1>1, <2>1, Remainders
<1> DEFINE rows == {Line(side, row) : row \in 0 .. side - 1}
           columns == {Pile(side, column) : column \in 0 .. side - 1}
<1>5. Parted(0 .. side * side - 1, rows)
  <2>1. \A c \in 0 .. side * side - 1 : \E line \in rows : c \in line
    BY <1>2
  <2>2. \A a, b \in rows : a \cap b # {} => a = b
    BY <1>3
  <2>3. QED
    BY <2>1, <2>2 DEF Parted
<1>6. Parted(0 .. side * side - 1, columns)
  <2>1. \A c \in 0 .. side * side - 1 : \E line \in columns : c \in line
    BY <1>2
  <2>2. \A a, b \in columns : a \cap b # {} => a = b
    BY <1>4
  <2>3. QED
    BY <2>1, <2>2 DEF Parted
<1>7. QED
  BY <1>5, <1>6

(* Every table that make_tables() makes is fit for what follows.           *)
LEMMA TablesFit ==
    ASSUME NEW side, NEW boxes, Shaped(side, boxes)
    PROVE  /\ Fitting(Tables(side, boxes))
           /\ Tables(side, boxes).cells = 0 .. side * side - 1
           /\ Tables(side, boxes).digits = 1 .. side
<1> DEFINE t == Tables(side, boxes)
<1>1. side \in Nat \ {0} /\ side * side \in Nat
  BY DEF Shaped
<1>2. /\ t.side = side /\ t.cells = 0 .. side * side - 1 /\ t.digits = 1 .. side
      /\ t.rows = {Line(side, row) : row \in 0 .. side - 1}
      /\ t.columns = {Pile(side, column) : column \in 0 .. side - 1}
      /\ t.boxes = boxes /\ t.units = t.rows \cup t.columns \cup t.boxes
      /\ t.peers = [c \in t.cells |-> (UNION {unit \in t.units : c \in unit}) \ {c}]
  BY DEF Tables, Line, Pile
<1> HIDE DEF t
<1>3. IsFiniteSet(t.cells)
  <2>1. 0 \in Int /\ side * side - 1 \in Int
    BY <1>1
  <2>2. IsFiniteSet(0 .. side * side - 1)
    BY <2>1, FS_Interval
  <2>3. QED
    BY <1>2, <2>2
<1>4. Parted(t.cells, t.rows) /\ Parted(t.cells, t.columns)
  BY <1>1, <1>2, LinesPart
<1>5. ASSUME NEW unit \in t.units
      PROVE  unit \subseteq t.cells /\ IsFiniteSet(unit) /\ Cardinality(unit) = t.side
  <2>1. CASE unit \in boxes
    <3>1. unit \in SUBSET t.cells /\ Cardinality(unit) = t.side
      BY <1>2, <2>1 DEF Shaped
    <3>2. QED
      BY <1>3, <3>1, FS_Subset
  <2>2. CASE unit \in t.rows \cup t.columns
    <3>1. \/ \E row \in 0 .. side - 1 : unit = Line(side, row)
          \/ \E column \in 0 .. side - 1 : unit = Pile(side, column)
      BY <1>2, <2>2
    <3>2. QED
      BY <1>1, <1>2, <3>1, LinesFit
  <2>3. QED
    BY <1>2, <2>1, <2>2
<1>6. IsFiniteSet(t.rows) /\ IsFiniteSet(t.columns)
  BY <1>1, <1>2, LinesFinite
<1>7. QED
  BY <1>1, <1>2, <1>3, <1>4, <1>5, <1>6 DEF Fitting, t
-------------------------------------------------------------------------------
(* Positions of the solver that agree with the solution.                   *)

\* The ways to fill a board.
Valid(t) == {f \in [t.cells -> t.digits] : \A c \in t.cells : \A p \in t.peers[c] : f[c] # f[p]}

Positions(t) == [values : [t.cells -> 0 .. t.side], reference : Valid(t), consistent : {TRUE},
                 candidates : [t.cells -> SUBSET t.digits]]

\* A cell without a value has the solution's as a candidate; one with a value
\* has the solution's, no candidate, and takes its value from its peers'.
Agrees(t, s) ==
    /\ s \in Positions(t)
    /\ \A c \in t.cells :
         IF s.values[c] = 0 THEN s.reference[c] \in s.candidates[c]
         ELSE /\ s.values[c] = s.reference[c] /\ s.candidates[c] = {}
              /\ \A p \in t.peers[c] : s.values[c] \notin s.candidates[p]

\* Marks that the solution does without.
Spared(t, s) == {mark \in t.cells \X t.digits : s.reference[mark[1]] # mark[2]}

LEMMA PeerFacts ==
    ASSUME NEW t, Fitting(t), NEW a \in t.cells
    PROVE  /\ t.peers[a] \subseteq t.cells
           /\ \A b \in t.cells : b \in t.peers[a] <=> a # b /\ \E unit \in t.units : {a, b} \subseteq unit
           /\ \A b \in t.peers[a] : a \in t.peers[b]
<1>1. t.peers[a] = (UNION {unit \in t.units : a \in unit}) \ {a}
  BY DEF Fitting
<1>2. t.peers[a] \subseteq t.cells
  BY <1>1 DEF Fitting
<1>3. \A b \in t.cells : t.peers[b] = (UNION {unit \in t.units : b \in unit}) \ {b}
  BY DEF Fitting
<1>4. QED
  BY <1>1, <1>2, <1>3

LEMMA Distinct ==
    ASSUME NEW t, Fitting(t), NEW f \in Valid(t), NEW unit \in t.units,
           NEW a \in unit, NEW b \in unit, f[a] = f[b]
    PROVE  a = b
<1>1. a \in t.cells /\ b \in t.cells
  BY DEF Fitting
<1>2. b \in t.peers[a] => f[a] # f[b]
  BY <1>1 DEF Valid
<1>3. QED
  BY <1>1, <1>2, PeerFacts

(* A unit has as many cells as there are digits: it has each of them.      *)
LEMMA EachDigit ==
    ASSUME NEW t, Fitting(t), NEW f \in Valid(t), NEW unit \in t.units, NEW digit \in t.digits
    PROVE  \E c \in unit : f[c] = digit
<1> DEFINE g == [c \in unit |-> f[c]]
<1>1. unit \subseteq t.cells /\ IsFiniteSet(unit) /\ Cardinality(unit) = t.side
  BY DEF Fitting
<1>2. t.side \in Nat /\ t.digits = 1 .. t.side
  BY DEF Fitting
<1>3. IsFiniteSet(t.digits) /\ Cardinality(t.digits) = t.side
  BY <1>2, FS_Interval
<1>4. g \in [unit -> t.digits] /\ \A a, b \in unit : g[a] = g[b] => a = b
  BY <1>1, Distinct DEF Valid
<1> HIDE DEF g
<1>5. \A y \in t.digits : \E c \in unit : g[c] = y
  BY <1>1, <1>3, <1>4, ReachesAll
<1>6. QED
  BY <1>5 DEF g

LEMMA AgreesFacts ==
    ASSUME NEW t, NEW s, Agrees(t, s)
    PROVE  /\ s.reference \in Valid(t) /\ s.consistent = TRUE
           /\ s.reference \in [t.cells -> t.digits] /\ s.candidates \in [t.cells -> SUBSET t.digits]
           /\ s.values \in [t.cells -> 0 .. t.side]
           /\ \A c \in t.cells : \A p \in t.peers[c] : s.reference[c] # s.reference[p]
  BY DEF Agrees, Positions, Valid

(* A cell that has candidates has the solution's digit among them.         *)
LEMMA OpenCells ==
    ASSUME NEW t, NEW s, Agrees(t, s), NEW c \in t.cells, s.candidates[c] # {}
    PROVE  s.reference[c] \in s.candidates[c] /\ s.values[c] = 0
  BY DEF Agrees

(* Where a digit has places left in a unit, its true place is one.         *)
LEMMA TruePlace ==
    ASSUME NEW t, Fitting(t), NEW s, Agrees(t, s), NEW unit \in t.units, NEW c \in unit,
           Where(s, unit, s.reference[c]) # {}
    PROVE  c \in Where(s, unit, s.reference[c])
<1>1. c \in t.cells /\ unit \subseteq t.cells
  BY DEF Fitting
<1>2. CASE s.values[c] = 0
  BY <1>1, <1>2 DEF Agrees, Where
<1>3. CASE s.values[c] # 0
  <2>1. /\ s.values[c] = s.reference[c] /\ s.candidates[c] = {}
        /\ \A p \in t.peers[c] : s.reference[c] \notin s.candidates[p]
    BY <1>1, <1>3 DEF Agrees
  <2>2. \A p \in unit : p = c \/ p \in t.peers[c]
    BY <1>1, PeerFacts
  <2>3. QED
    BY <2>1, <2>2 DEF Where
<1>4. QED
  BY <1>2, <1>3

(* So it has one, and the unit's other cells do without the digit.         *)
LEMMA PlaceOf ==
    ASSUME NEW t, Fitting(t), NEW s, Agrees(t, s), NEW unit \in t.units, NEW digit \in t.digits,
           Where(s, unit, digit) # {}
    PROVE  \E c \in Where(s, unit, digit) :
             /\ c \in unit /\ c \in t.cells /\ s.reference[c] = digit
             /\ \A p \in unit : s.reference[p] = digit => p = c
<1> DEFINE f == s.reference
<1>0. f \in Valid(t)
  BY AgreesFacts
<1>1. PICK c \in unit : f[c] = digit
  <2> HIDE DEF f
  <2>1. QED
    BY <1>0, EachDigit
<1>2. c \in Where(s, unit, digit)
  BY <1>1, TruePlace
<1>3. c \in t.cells
  BY DEF Fitting
<1>4. \A p \in unit : f[p] = f[c] => p = c
  <2> HIDE DEF f
  <2>1. QED
    BY <1>0, Distinct
<1>5. QED
  BY <1>1, <1>2, <1>3, <1>4

LEMMA EliminateAgrees ==
    ASSUME NEW t, Fitting(t), NEW s, Agrees(t, s), NEW marks \in SUBSET Spared(t, s)
    PROVE  Agrees(t, Eliminate(s, marks))
<1> DEFINE rest == [c \in DOMAIN s.candidates |-> {digit \in s.candidates[c] : <<c, digit>> \notin marks}]
           fine == s.consistent /\ \A mark \in marks : s.reference[mark[1]] # mark[2]
           next == Eliminate(s, marks)
<1>0. /\ s.candidates \in [t.cells -> SUBSET t.digits] /\ s.consistent = TRUE
  BY AgreesFacts
<1>1. next = [s EXCEPT !.candidates = rest, !.consistent = fine]
  BY DEF Eliminate
<1>2. fine = TRUE
  BY <1>0 DEF Spared
<1>3. rest \in [t.cells -> SUBSET t.digits]
  BY <1>0
<1>4. \A c \in t.cells : rest[c] = {digit \in s.candidates[c] : <<c, digit>> \notin marks}
  BY <1>0
<1> HIDE DEF rest, fine, next
<1>5. next \in Positions(t) /\ next.values = s.values /\ next.reference = s.reference
      /\ next.candidates = rest
  BY <1>1, <1>2, <1>3 DEF Agrees, Positions
<1>6. \A c \in t.cells : <<c, s.reference[c]>> \notin marks
  BY DEF Spared
<1>7. ASSUME NEW c \in t.cells
      PROVE  IF next.values[c] = 0 THEN next.reference[c] \in next.candidates[c]
             ELSE /\ next.values[c] = next.reference[c] /\ next.candidates[c] = {}
                  /\ \A p \in t.peers[c] : next.values[c] \notin next.candidates[p]
  <2>1. CASE s.values[c] = 0
    BY <1>4, <1>5, <1>6, <2>1 DEF Agrees
  <2>2. CASE s.values[c] # 0
    <3>1. /\ s.values[c] = s.reference[c] /\ s.candidates[c] = {}
          /\ \A p \in t.peers[c] : s.values[c] \notin s.candidates[p]
      BY <2>2 DEF Agrees
    <3>2. \A p \in t.peers[c] : p \in t.cells
      BY PeerFacts
    <3>3. QED
      BY <1>4, <1>5, <2>2, <3>1, <3>2
  <2>3. QED
    BY <1>5, <2>1, <2>2
<1>8. QED
  BY <1>5, <1>7 DEF Agrees, next

LEMMA PlaceAgrees ==
    ASSUME NEW t, Fitting(t), NEW s, Agrees(t, s), NEW cell \in t.cells
    PROVE  Agrees(t, Place(t, s, cell, s.reference[cell]))
<1> DEFINE digit == s.reference[cell]
           rest == [c \in t.cells |-> IF c = cell THEN {}
                                      ELSE IF c \in t.peers[cell] THEN s.candidates[c] \ {digit}
                                      ELSE s.candidates[c]]
           values == [s.values EXCEPT ![cell] = digit]
           fine == s.consistent /\ s.reference[cell] = digit
           next == Place(t, s, cell, digit)
<1>0. /\ s \in Positions(t) /\ s.reference \in [t.cells -> t.digits] /\ s.consistent = TRUE
      /\ s.values \in [t.cells -> 0 .. t.side] /\ s.candidates \in [t.cells -> SUBSET t.digits]
  BY AgreesFacts DEF Agrees
<1>1. next = [s EXCEPT !.values = values, !.candidates = rest, !.consistent = fine]
  BY <1>0 DEF Place, Positions
<1>2. fine = TRUE
  BY <1>0
<1>21. digit \in t.digits /\ t.side \in Nat /\ t.digits = 1 .. t.side
  BY <1>0 DEF Fitting
<1>22. digit \in 0 .. t.side /\ digit # 0
  BY <1>21
<1>3. rest \in [t.cells -> SUBSET t.digits] /\ values \in [t.cells -> 0 .. t.side] /\ digit # 0
  BY <1>0, <1>22
<1>4. \A c \in t.cells : /\ values[c] = IF c = cell THEN digit ELSE s.values[c]
                         /\ rest[c] = IF c = cell THEN {}
                                      ELSE IF c \in t.peers[cell] THEN s.candidates[c] \ {digit}
                                      ELSE s.candidates[c]
  BY <1>0
<1> HIDE DEF rest, fine, next, values
<1>5. next \in Positions(t) /\ next.values = values /\ next.reference = s.reference
      /\ next.candidates = rest
  BY <1>1, <1>2, <1>3 DEF Agrees, Positions
<1>6. ASSUME NEW c \in t.cells
      PROVE  IF next.values[c] = 0 THEN next.reference[c] \in next.candidates[c]
             ELSE /\ next.values[c] = next.reference[c] /\ next.candidates[c] = {}
                  /\ \A p \in t.peers[c] : next.values[c] \notin next.candidates[p]
  <2>1. CASE c = cell
    <3>1. \A p \in t.peers[cell] : p \in t.cells /\ p # cell
      BY PeerFacts
    <3>2. QED
      BY <1>3, <1>4, <1>5, <2>1, <3>1
  <2>2. CASE c # cell /\ s.values[c] = 0
    <3>1. c \in t.peers[cell] => s.reference[c] # digit
      BY <2>2, AgreesFacts, ZenonT(20)
    <3>2. s.reference[c] \in s.candidates[c]
      BY <2>2 DEF Agrees
    <3>3. QED
      BY <1>4, <1>5, <2>2, <3>1, <3>2
  <2>3. CASE c # cell /\ s.values[c] # 0
    <3>1. /\ s.values[c] = s.reference[c] /\ s.candidates[c] = {}
          /\ \A p \in t.peers[c] : s.values[c] \notin s.candidates[p]
      BY <2>3 DEF Agrees
    <3>2. \A p \in t.peers[c] : p \in t.cells
      BY PeerFacts
    <3>3. QED
      BY <1>4, <1>5, <2>3, <3>1, <3>2
  <2>4. QED
    BY <2>1, <2>2, <2>3
<1>7. QED
  BY <1>5, <1>6 DEF Agrees, next
-------------------------------------------------------------------------------
(* What each technique eliminates, the solution does without.              *)

LEMMA MarksSpared ==
    ASSUME NEW t, NEW s, Agrees(t, s), NEW cells \in SUBSET t.cells, NEW digits \in SUBSET t.digits,
           \A c \in cells : s.reference[c] \notin digits
    PROVE  Marks(s, cells, digits) \in SUBSET Spared(t, s)
  BY DEF Marks, Spared

LEMMA DigitSets ==
    ASSUME NEW t, Fitting(t)
    PROVE  /\ IsFiniteSet(t.digits)
           /\ \A digits \in SUBSET t.digits : IsFiniteSet(digits)
           /\ \A unit \in t.units : unit \subseteq t.cells /\ IsFiniteSet(unit)
           /\ \A cells \in SUBSET t.cells : IsFiniteSet(cells)
<1>1. IsFiniteSet(t.cells) /\ t.side \in Nat /\ t.digits = 1 .. t.side
      /\ \A unit \in t.units : unit \subseteq t.cells /\ IsFiniteSet(unit)
  BY DEF Fitting
<1>2. IsFiniteSet(t.digits)
  BY <1>1, FS_Interval
<1>3. QED
  BY <1>1, <1>2, FS_Subset

LEMMA LockedSpared ==
    ASSUME NEW t, Fitting(t), NEW s, Agrees(t, s), NEW marks \in LockedCandidates(t, s)
    PROVE  marks \in SUBSET Spared(t, s)
<1>1. t.units = t.rows \cup t.columns \cup t.boxes
  BY DEF Fitting
<1>2. PICK a \in t.units, b \in t.units, digit \in t.digits :
         /\ Where(s, a, digit) # {} /\ Where(s, a, digit) \subseteq b
         /\ marks = Marks(s, b \ a, {digit})
  BY <1>1 DEF LockedCandidates
<1>3. PICK c \in Where(s, a, digit) : c \in a /\ s.reference[c] = digit
  BY <1>2, PlaceOf
<1> DEFINE f == s.reference
<1>4. f \in Valid(t) /\ c \in b /\ f[c] = digit
  BY <1>2, <1>3, AgreesFacts
<1>5. \A p \in b \ a : f[p] # digit
  <2> HIDE DEF f
  <2>1. \A p \in b : f[p] = f[c] => p = c
    BY <1>4, Distinct
  <2>2. QED
    BY <1>3, <1>4, <2>1
<1>6. b \ a \in SUBSET t.cells /\ {digit} \in SUBSET t.digits
  BY DigitSets
<1>7. QED
  BY <1>2, <1>5, <1>6, MarksSpared

LEMMA NakedSpared ==
    ASSUME NEW t, Fitting(t), NEW s, Agrees(t, s), NEW marks \in NakedSubsets(t, s)
    PROVE  marks \in SUBSET Spared(t, s)
<1>0. PICK unit \in t.units : \E cells \in SUBSET unit :
         /\ \A c \in cells : s.candidates[c] # {}
         /\ Cardinality(UNION {s.candidates[c] : c \in cells}) = Cardinality(cells)
         /\ marks = Marks(s, unit \ cells, UNION {s.candidates[c] : c \in cells})
  BY DEF NakedSubsets, Sizes2To4
<1>1. PICK cells \in SUBSET unit :
         /\ \A c \in cells : s.candidates[c] # {}
         /\ Cardinality(UNION {s.candidates[c] : c \in cells}) = Cardinality(cells)
         /\ marks = Marks(s, unit \ cells, UNION {s.candidates[c] : c \in cells})
  BY <1>0
<1> DEFINE digits == UNION {s.candidates[c] : c \in cells}
           f == s.reference
           g == [c \in cells |-> f[c]]
<1>2. /\ f \in Valid(t) /\ s.candidates \in [t.cells -> SUBSET t.digits]
      /\ unit \subseteq t.cells /\ cells \in SUBSET t.cells /\ IsFiniteSet(cells)
  BY AgreesFacts, DigitSets
<1>3. digits \in SUBSET t.digits /\ IsFiniteSet(digits)
  <2>1. digits \in SUBSET t.digits
    BY <1>2
  <2> HIDE DEF digits
  <2>2. QED
    BY <2>1, DigitSets
<1>4. \A c \in cells : f[c] \in digits
  <2>1. \A c \in cells : f[c] \in s.candidates[c]
    BY <1>1, <1>2, OpenCells
  <2>2. QED
    BY <2>1
<1>5. Cardinality(cells) = Cardinality(digits)
  BY <1>1
<1> HIDE DEF digits, f
<1>6. g \in [cells -> digits] /\ \A a, b \in cells : g[a] = g[b] => a = b
  BY <1>2, <1>4, Distinct
<1>7. \A digit \in digits : \E c \in cells : g[c] = digit
  <2> HIDE DEF g
  <2>1. QED
    BY <1>2, <1>3, <1>5, <1>6, ReachesAll
<1>8. \A p \in unit \ cells : f[p] \notin digits
  BY <1>2, <1>7, Distinct
<1>9. unit \ cells \in SUBSET t.cells
  BY <1>2
<1>10. QED
  BY <1>1, <1>3, <1>8, <1>9, MarksSpared DEF digits, f

LEMMA HiddenSpared ==
    ASSUME NEW t, Fitting(t), NEW s, Agrees(t, s), NEW marks \in HiddenSubsets(t, s)
    PROVE  marks \in SUBSET Spared(t, s)
<1>1. PICK unit \in t.units, digits \in SUBSET t.digits :
         /\ \A d \in digits : Where(s, unit, d) # {}
         /\ Cardinality(UNION {Where(s, unit, d) : d \in digits}) = Cardinality(digits)
         /\ marks = Marks(s, UNION {Where(s, unit, d) : d \in digits}, t.digits \ digits)
  BY DEF HiddenSubsets, Sizes2To4
<1> DEFINE cells == UNION {Where(s, unit, d) : d \in digits}
           f == s.reference
           g == [d \in digits |-> CHOOSE c \in cells : f[c] = d]
<1>2. unit \in SUBSET t.cells /\ IsFiniteSet(digits)
  BY DigitSets
<1>3. cells \in SUBSET t.cells /\ IsFiniteSet(cells)
  <2>1. cells \in SUBSET t.cells
    BY <1>2 DEF Where
  <2> HIDE DEF cells
  <2>2. QED
    BY <2>1, DigitSets
<1>4. \A d \in digits : \E c \in cells : f[c] = d
  BY <1>1, PlaceOf
<1>5. Cardinality(digits) = Cardinality(cells)
  BY <1>1
<1> HIDE DEF cells, f
<1>6. g \in [digits -> cells] /\ \A d \in digits : f[g[d]] = d
  BY <1>4
<1>7. \A c \in cells : \E d \in digits : g[d] = c
  <2> HIDE DEF g
  <2>1. \A a, b \in digits : g[a] = g[b] => a = b
    BY <1>6
  <2>2. QED
    BY <1>2, <1>3, <1>5, <1>6, <2>1, ReachesAll
<1>8. \A c \in cells : f[c] \notin t.digits \ digits
  BY <1>6, <1>7
<1>9. t.digits \ digits \in SUBSET t.digits
  OBVIOUS
<1>10. QED
  BY <1>1, <1>3, <1>8, <1>9, MarksSpared DEF cells, f

(* The digit's places in some lines are in as many lines that cross them:  *)
(* each of those has the digit in one of the first.                        *)
LEMMA FishInSpared ==
    ASSUME NEW t, Fitting(t), NEW s, Agrees(t, s), NEW digit \in t.digits, NEW lines, NEW crossing,
           lines \cup crossing \subseteq t.units, Parted(t.cells, lines), Parted(t.cells, crossing),
           IsFiniteSet(lines), IsFiniteSet(crossing),
           NEW marks \in FishIn(s, lines, crossing, digit)
    PROVE  marks \in SUBSET Spared(t, s)
<1> DEFINE Cover(some) == {line \in crossing : \E l \in some : Where(s, l \cap line, digit) # {}}
<1>1. PICK some \in SUBSET lines :
         /\ \A line \in some : Where(s, line, digit) # {}
         /\ Cardinality(Cover(some)) = Cardinality(some)
         /\ marks = Marks(s, (UNION Cover(some)) \ (UNION some), {digit})
  BY DEF FishIn, Sizes2To4
<1> DEFINE cover == Cover(some)
           f == s.reference
           True(l, line) == \E c \in l : c \in line /\ f[c] = digit
           g == [l \in some |-> CHOOSE line \in cover : True(l, line)]
<1>2. cover \in SUBSET crossing /\ IsFiniteSet(some) /\ IsFiniteSet(cover)
  <2>1. cover \in SUBSET crossing
    OBVIOUS
  <2> HIDE DEF cover
  <2>2. QED
    BY <2>1, FS_Subset
<1>3. f \in Valid(t) /\ \A unit \in t.units : unit \subseteq t.cells
  BY AgreesFacts, DigitSets
<1>4. \A l \in some : \E line \in cover : True(l, line)
  <2> TAKE l \in some
  <2>1. l \in t.units
    OBVIOUS
  <2>2. PICK c \in Where(s, l, digit) : c \in l /\ c \in t.cells /\ s.reference[c] = digit
    BY <1>1, <2>1, PlaceOf
  <2>3. PICK line \in crossing : c \in line
    BY <2>2 DEF Parted
  <2>4. c \in Where(s, l \cap line, digit)
    BY <2>2, <2>3 DEF Where
  <2>5. line \in cover
    BY <2>3, <2>4
  <2>6. QED
    BY <2>2, <2>3, <2>5
<1>5. Cardinality(some) = Cardinality(cover)
  BY <1>1
<1>6. marks = Marks(s, (UNION cover) \ (UNION some), {digit})
  BY <1>1
<1>60. \A line \in crossing : \A a, b \in line : f[a] = f[b] => a = b
  <2> HIDE DEF f
  <2>1. QED
    BY <1>3, Distinct
<1> HIDE DEF cover, f
<1>7. g \in [some -> cover] /\ \A l \in some : True(l, g[l])
  <2> HIDE DEF True
  <2>1. QED
    BY <1>4
<1> HIDE DEF g
<1>8. \A l, m \in some : g[l] = g[m] => l = m
  <2> TAKE l \in some, m \in some
  <2> SUFFICES ASSUME g[l] = g[m] PROVE l = m
    OBVIOUS
  <2>1. PICK a \in l : a \in g[l] /\ f[a] = digit
    BY <1>7
  <2>2. PICK b \in m : b \in g[l] /\ f[b] = digit
    BY <1>7
  <2>3. g[l] \in crossing
    BY <1>2, <1>7
  <2>4. a = b
    BY <1>60, <2>1, <2>2, <2>3
  <2>5. QED
    BY <2>1, <2>2, <2>4 DEF Parted
<1>9. \A line \in cover : \E l \in some : g[l] = line
  BY <1>2, <1>5, <1>7, <1>8, ReachesAll
<1>10. ASSUME NEW c \in (UNION cover) \ (UNION some) PROVE f[c] \notin {digit}
  <2>1. PICK line \in cover : c \in line
    OBVIOUS
  <2>2. PICK l \in some : g[l] = line
    BY <1>9
  <2>3. PICK a \in l : a \in line /\ f[a] = digit
    BY <1>7, <2>2
  <2>4. line \in crossing /\ a # c
    BY <1>2, <2>3
  <2>5. QED
    BY <1>60, <2>1, <2>3, <2>4
<1>11. (UNION cover) \ (UNION some) \in SUBSET t.cells /\ {digit} \in SUBSET t.digits
  BY <1>2, <1>3
<1>12. QED
  BY <1>6, <1>10, <1>11, MarksSpared DEF f

LEMMA FishSpared ==
    ASSUME NEW t, Fitting(t), NEW s, Agrees(t, s), NEW marks \in Fish(t, s)
    PROVE  marks \in SUBSET Spared(t, s)
<1>1. /\ t.rows \cup t.columns \subseteq t.units /\ t.columns \cup t.rows \subseteq t.units
      /\ Parted(t.cells, t.rows) /\ Parted(t.cells, t.columns)
      /\ IsFiniteSet(t.rows) /\ IsFiniteSet(t.columns)
  BY DEF Fitting
<1>2. PICK digit \in t.digits : \/ marks \in FishIn(s, t.rows, t.columns, digit)
                                \/ marks \in FishIn(s, t.columns, t.rows, digit)
  BY DEF Fish
<1>3. QED
  BY <1>1, <1>2, FishInSpared

\* A cell, and two of its peers with two candidates each.
Winged(t, s, pivot, x, size) ==
    /\ x[1] \in t.cells /\ x[2] \in t.cells
    /\ x[1] \in t.peers[pivot] /\ x[2] \in t.peers[pivot]
    /\ \A c \in {pivot, x[1], x[2]} :
          /\ s.candidates[c] \in SUBSET t.digits /\ IsFiniteSet(s.candidates[c])
          /\ s.reference[c] \in s.candidates[c]
          /\ \A p \in t.peers[c] : s.reference[p] # s.reference[c]
    /\ Cardinality(s.candidates[pivot]) = size
    /\ Cardinality(s.candidates[x[1]]) = 2 /\ Cardinality(s.candidates[x[2]]) = 2

LEMMA PairFacts ==
    ASSUME NEW t, Fitting(t), NEW s, Agrees(t, s), NEW pivot \in t.cells, NEW size \in {2, 3},
           NEW x \in Pairs(t, s, pivot, size)
    PROVE  Winged(t, s, pivot, x, size)
<1>1. /\ x[1] \in t.peers[pivot] /\ x[2] \in t.peers[pivot]
      /\ Cardinality(s.candidates[pivot]) = size
      /\ Cardinality(s.candidates[x[1]]) = 2 /\ Cardinality(s.candidates[x[2]]) = 2
  BY DEF Pairs
<1>2. x[1] \in t.cells /\ x[2] \in t.cells
  BY <1>1, PeerFacts
<1>3. \A c \in t.cells : s.candidates[c] \in SUBSET t.digits
  <2>1. s.candidates \in [t.cells -> SUBSET t.digits]
    BY AgreesFacts
  <2>2. QED
    BY <2>1
<1>4. \A c \in t.cells : IsFiniteSet(s.candidates[c])
  BY <1>3, DigitSets
<1>5. \A c \in {pivot, x[1], x[2]} : c \in t.cells /\ s.candidates[c] # {}
  BY <1>1, <1>2, FS_EmptySet
<1>6. \A c \in t.cells : \A p \in t.peers[c] : s.reference[p] # s.reference[c]
  BY AgreesFacts
<1>7. \A c \in {pivot, x[1], x[2]} : s.reference[c] \in s.candidates[c]
  BY <1>5, OpenCells
<1>8. QED
  BY <1>1, <1>2, <1>3, <1>4, <1>5, <1>6, <1>7 DEF Winged

LEMMA XyWingSpared ==
    ASSUME NEW t, Fitting(t), NEW s, Agrees(t, s), NEW marks \in XyWing(t, s)
    PROVE  marks \in SUBSET Spared(t, s)
<1>0. PICK pivot \in t.cells : \E x \in Pairs(t, s, pivot, 2) :
         /\ Cardinality(s.candidates[x[1]] \cap s.candidates[pivot]) = 1
         /\ s.candidates[x[2]] = (s.candidates[pivot] \ s.candidates[x[1]])
                                 \cup (s.candidates[x[1]] \ s.candidates[pivot])
         /\ marks = Marks(s, t.peers[x[1]] \cap t.peers[x[2]],
                          s.candidates[x[1]] \ s.candidates[pivot])
  BY DEF XyWing
<1>1. PICK x \in Pairs(t, s, pivot, 2) :
         /\ Cardinality(s.candidates[x[1]] \cap s.candidates[pivot]) = 1
         /\ s.candidates[x[2]] = (s.candidates[pivot] \ s.candidates[x[1]])
                                 \cup (s.candidates[x[1]] \ s.candidates[pivot])
         /\ marks = Marks(s, t.peers[x[1]] \cap t.peers[x[2]],
                          s.candidates[x[1]] \ s.candidates[pivot])
  BY <1>0
<1> DEFINE pair == s.candidates[pivot]
           first == s.candidates[x[1]]
           second == s.candidates[x[2]]
           f == s.reference
<1>2. /\ x[1] \in t.cells /\ x[2] \in t.cells /\ x[1] \in t.peers[pivot] /\ x[2] \in t.peers[pivot]
      /\ f[pivot] \in pair /\ f[x[1]] \in first /\ f[x[2]] \in second
      /\ Cardinality(pair) = 2 /\ Cardinality(first) = 2
      /\ IsFiniteSet(pair) /\ IsFiniteSet(first) /\ first \in SUBSET t.digits
      /\ \A c \in {pivot, x[1], x[2]} : \A p \in t.peers[c] : f[p] # f[c]
  <2>1. Winged(t, s, pivot, x, 2)
    BY PairFacts
  <2>2. QED
    BY <2>1 DEF Winged
<1>3. IsFiniteSet(first \cap pair) /\ Cardinality(first \cap pair) = 1
      /\ second = (pair \ first) \cup (first \ pair)
  BY <1>1, <1>2, FS_Intersection
<1>4. marks = Marks(s, t.peers[x[1]] \cap t.peers[x[2]], first \ pair)
  BY <1>1
<1> HIDE DEF pair, first, second, f
<1>5. PICK a : first \cap pair = {a}
  BY <1>3, FS_Singleton
<1>6. PICK b \in pair : b # a /\ pair = {a, b}
  BY <1>2, <1>5, Pair
<1>7. PICK z \in first : z # a /\ first = {a, z}
  BY <1>2, <1>5, Pair
<1>8. first \ pair = {z} /\ pair \ first = {b} /\ second = {b, z}
  BY <1>3, <1>5, <1>6, <1>7
<1>9. ASSUME NEW c \in t.peers[x[1]] \cap t.peers[x[2]] PROVE f[c] \notin first \ pair
  <2>1. SUFFICES ASSUME f[c] = z PROVE FALSE
    BY <1>8
  <2>2. f[x[1]] = a /\ f[x[2]] = b
    BY <1>2, <1>7, <1>8, <2>1
  <2>3. f[pivot] # a /\ f[pivot] # b
    BY <1>2, <2>2
  <2>4. QED
    BY <1>2, <1>6, <2>3
<1>10. t.peers[x[1]] \cap t.peers[x[2]] \in SUBSET t.cells /\ first \ pair \in SUBSET t.digits
  BY <1>2, PeerFacts
<1>11. QED
  BY <1>4, <1>9, <1>10, MarksSpared DEF f

LEMMA XyzWingSpared ==
    ASSUME NEW t, Fitting(t), NEW s, Agrees(t, s), NEW marks \in XyzWing(t, s)
    PROVE  marks \in SUBSET Spared(t, s)
<1>0. PICK pivot \in t.cells : \E x \in Pairs(t, s, pivot, 3) :
         /\ s.candidates[x[1]] \cup s.candidates[x[2]] = s.candidates[pivot]
         /\ marks = Marks(s, t.peers[pivot] \cap t.peers[x[1]] \cap t.peers[x[2]],
                          s.candidates[x[1]] \cap s.candidates[x[2]])
  BY DEF XyzWing
<1>1. PICK x \in Pairs(t, s, pivot, 3) :
         /\ s.candidates[x[1]] \cup s.candidates[x[2]] = s.candidates[pivot]
         /\ marks = Marks(s, t.peers[pivot] \cap t.peers[x[1]] \cap t.peers[x[2]],
                          s.candidates[x[1]] \cap s.candidates[x[2]])
  BY <1>0
<1> DEFINE first == s.candidates[x[1]]
           second == s.candidates[x[2]]
           f == s.reference
<1>2. /\ x[1] \in t.cells /\ x[2] \in t.cells /\ x[1] \in t.peers[pivot] /\ x[2] \in t.peers[pivot]
      /\ f[pivot] \in s.candidates[pivot] /\ f[x[1]] \in first /\ f[x[2]] \in second
      /\ Cardinality(first) = 2 /\ Cardinality(second) = 2
      /\ IsFiniteSet(first) /\ IsFiniteSet(second) /\ first \in SUBSET t.digits
      /\ \A c \in {pivot, x[1], x[2]} : \A p \in t.peers[c] : f[p] # f[c]
  <2>1. Winged(t, s, pivot, x, 3)
    BY PairFacts
  <2>2. QED
    BY <2>1 DEF Winged
<1>3. s.candidates[pivot] = first \cup second
      /\ marks = Marks(s, t.peers[pivot] \cap t.peers[x[1]] \cap t.peers[x[2]], first \cap second)
  BY <1>1
<1> HIDE DEF first, second, f
<1>4. ASSUME NEW c \in t.peers[pivot] \cap t.peers[x[1]] \cap t.peers[x[2]]
      PROVE  f[c] \notin first \cap second
  <2>1. SUFFICES ASSUME f[c] \in first, f[c] \in second PROVE FALSE
    OBVIOUS
  <2>2. PICK a \in first : a # f[c] /\ first = {f[c], a}
    BY <1>2, <2>1, Pair
  <2>3. PICK b \in second : b # f[c] /\ second = {f[c], b}
    BY <1>2, <2>1, Pair
  <2>4. f[x[1]] = a /\ f[x[2]] = b
    BY <1>2, <2>2, <2>3
  <2>5. f[pivot] \notin {a, b, f[c]}
    BY <1>2, <2>4
  <2>6. QED
    BY <1>2, <1>3, <2>2, <2>3, <2>5
<1>5. /\ t.peers[pivot] \cap t.peers[x[1]] \cap t.peers[x[2]] \in SUBSET t.cells
      /\ first \cap second \in SUBSET t.digits
  BY <1>2, PeerFacts
<1>6. QED
  BY <1>3, <1>4, <1>5, MarksSpared DEF f
-------------------------------------------------------------------------------
(* Chains: what follows from a false start.                                *)

Right(t, s, mark) == s.reference[mark[1]] = mark[2]
AllMarks(t, s) == Marks(s, t.cells, t.digits)
Spread(t, s, near) ==
    [off |-> near.off \cup UNION {Weak(t, s, mark) : mark \in near.on},
     on |-> near.on \cup UNION {Strong(t, s, mark) : mark \in near.off}]
Follows(t, s, start, near) ==
    /\ near \in [off : SUBSET AllMarks(t, s), on : SUBSET AllMarks(t, s)]
    /\ ~Right(t, s, start) => /\ \A mark \in near.off : ~Right(t, s, mark)
                              /\ \A mark \in near.on : Right(t, s, mark)

LEMMA MarkFacts ==
    ASSUME NEW t, NEW s, NEW mark \in AllMarks(t, s)
    PROVE  /\ mark = <<mark[1], mark[2]>> /\ mark[1] \in t.cells /\ mark[2] \in t.digits
           /\ mark[2] \in s.candidates[mark[1]]
  BY DEF AllMarks, Marks

LEMMA IsMark ==
    ASSUME NEW t, NEW s, Agrees(t, s), NEW c \in t.cells, NEW digit \in s.candidates[c]
    PROVE  <<c, digit>> \in AllMarks(t, s)
<1>1. s.candidates \in [t.cells -> SUBSET t.digits]
  BY AgreesFacts
<1>2. digit \in t.digits
  BY <1>1
<1>3. QED
  BY <1>2 DEF AllMarks, Marks

LEMMA StrongRight ==
    ASSUME NEW t, Fitting(t), NEW s, Agrees(t, s), NEW mark \in AllMarks(t, s)
    PROVE  /\ Strong(t, s, mark) \subseteq AllMarks(t, s)
           /\ ~Right(t, s, mark) => \A m \in Strong(t, s, mark) : Right(t, s, m)
<1> DEFINE c == mark[1]
           digit == mark[2]
<1>1. c \in t.cells /\ digit \in t.digits /\ digit \in s.candidates[c]
  BY MarkFacts
<1>2. s.candidates \in [t.cells -> SUBSET t.digits] /\ s.candidates[c] \in SUBSET t.digits
  <2>1. s.candidates \in [t.cells -> SUBSET t.digits]
    BY AgreesFacts
  <2> HIDE DEF c
  <2>2. QED
    BY <1>1, <2>1
<1> SUFFICES ASSUME NEW m \in Strong(t, s, mark)
             PROVE  m \in AllMarks(t, s) /\ (~Right(t, s, mark) => Right(t, s, m))
  OBVIOUS
<1>3. \/ /\ Cardinality(s.candidates[c]) = 2 /\ m \in {c} \X (s.candidates[c] \ {digit})
      \/ \E unit \in t.units : /\ c \in unit /\ Cardinality(Where(s, unit, digit)) = 2
                               /\ m \in (Where(s, unit, digit) \ {c}) \X {digit}
  BY DEF Strong
<1> HIDE DEF c, digit
<1>4. Right(t, s, mark) <=> s.reference[c] = digit
  BY DEF Right, c, digit
<1>5. CASE Cardinality(s.candidates[c]) = 2 /\ m \in {c} \X (s.candidates[c] \ {digit})
  <2>1. m = <<c, m[2]>> /\ m[2] \in s.candidates[c] /\ m[2] # digit /\ m[1] = c
    BY <1>5
  <2>2. IsFiniteSet(s.candidates[c])
    BY <1>2, DigitSets
  <2>3. PICK y \in s.candidates[c] : y # digit /\ s.candidates[c] = {digit, y}
    BY <1>1, <1>5, <2>2, Pair
  <2>4. s.reference[c] \in s.candidates[c]
    BY <1>1, OpenCells
  <2>5. m \in AllMarks(t, s)
    BY <1>1, <2>1, IsMark
  <2>6. QED
    BY <1>4, <2>1, <2>3, <2>4, <2>5 DEF Right
<1>6. ASSUME NEW unit \in t.units, c \in unit, Cardinality(Where(s, unit, digit)) = 2,
             m \in (Where(s, unit, digit) \ {c}) \X {digit}
      PROVE  m \in AllMarks(t, s) /\ (~Right(t, s, mark) => Right(t, s, m))
  <2>1. m = <<m[1], digit>> /\ m[1] \in Where(s, unit, digit) /\ m[1] # c /\ m[2] = digit
    BY <1>6
  <2>2. IsFiniteSet(Where(s, unit, digit)) /\ unit \subseteq t.cells
    <3>1. IsFiniteSet(unit) /\ unit \subseteq t.cells
      BY DigitSets
    <3>2. Where(s, unit, digit) \in SUBSET unit
      BY DEF Where
    <3>3. QED
      BY <3>1, <3>2, FS_Subset
  <2>3. c \in Where(s, unit, digit) /\ m[1] \in t.cells /\ digit \in s.candidates[m[1]]
    BY <1>1, <1>6, <2>1, <2>2 DEF Where
  <2>4. PICK y \in Where(s, unit, digit) : y # c /\ Where(s, unit, digit) = {c, y}
    BY <1>6, <2>2, <2>3, Pair
  <2>5. PICK p \in Where(s, unit, digit) : s.reference[p] = digit
    BY <1>1, <2>3, PlaceOf
  <2>6. m \in AllMarks(t, s)
    BY <2>1, <2>3, IsMark
  <2>7. QED
    BY <1>4, <2>1, <2>4, <2>5, <2>6 DEF Right
<1>7. QED
  BY <1>3, <1>5, <1>6

LEMMA WeakRight ==
    ASSUME NEW t, Fitting(t), NEW s, Agrees(t, s), NEW mark \in AllMarks(t, s)
    PROVE  /\ Weak(t, s, mark) \subseteq AllMarks(t, s)
           /\ Right(t, s, mark) => \A m \in Weak(t, s, mark) : ~Right(t, s, m)
<1> DEFINE c == mark[1]
           digit == mark[2]
<1>1. c \in t.cells /\ digit \in t.digits
  BY MarkFacts
<1>2. t.peers[c] \subseteq t.cells /\ \A p \in t.peers[c] : s.reference[c] # s.reference[p]
  <2>1. \A a \in t.cells : \A p \in t.peers[a] : s.reference[a] # s.reference[p]
    BY AgreesFacts
  <2> HIDE DEF c
  <2>2. QED
    BY <1>1, <2>1, PeerFacts
<1> SUFFICES ASSUME NEW m \in Weak(t, s, mark)
             PROVE  m \in AllMarks(t, s) /\ (Right(t, s, mark) => ~Right(t, s, m))
  OBVIOUS
<1>3. m \in Marks(s, t.peers[c], {digit}) \cup Marks(s, {c}, t.digits \ {digit})
  BY DEF Weak
<1>4. Right(t, s, mark) <=> s.reference[c] = digit
  BY DEF Right
<1> HIDE DEF c, digit
<1>5. CASE m \in Marks(s, t.peers[c], {digit})
  <2>1. m = <<m[1], digit>> /\ m[1] \in t.peers[c] /\ m[2] = digit /\ digit \in s.candidates[m[1]]
    BY <1>5 DEF Marks
  <2>2. QED
    BY <1>2, <1>4, <2>1, IsMark DEF Right
<1>6. CASE m \in Marks(s, {c}, t.digits \ {digit})
  <2>1. m = <<c, m[2]>> /\ m[1] = c /\ m[2] # digit /\ m[2] \in s.candidates[c]
    BY <1>6 DEF Marks
  <2>2. QED
    BY <1>1, <1>4, <2>1, IsMark DEF Right
<1>7. QED
  BY <1>3, <1>5, <1>6

LEMMA SpreadFollows ==
    ASSUME NEW t, Fitting(t), NEW s, Agrees(t, s), NEW start, NEW near, Follows(t, s, start, near)
    PROVE  Follows(t, s, start, Spread(t, s, near))
<1>1. near.off \subseteq AllMarks(t, s) /\ near.on \subseteq AllMarks(t, s)
  BY DEF Follows
<1> DEFINE off == near.off \cup UNION {Weak(t, s, mark) : mark \in near.on}
           on == near.on \cup UNION {Strong(t, s, mark) : mark \in near.off}
<1>2. off \subseteq AllMarks(t, s) /\ on \subseteq AllMarks(t, s)
  BY <1>1, WeakRight, StrongRight
<1>3. ASSUME ~Right(t, s, start)
      PROVE  /\ \A mark \in off : ~Right(t, s, mark)
             /\ \A mark \in on : Right(t, s, mark)
  <2>1. /\ \A mark \in near.off : ~Right(t, s, mark)
        /\ \A mark \in near.on : Right(t, s, mark)
    BY <1>3 DEF Follows
  <2>2. \A mark \in near.on : \A m \in Weak(t, s, mark) : ~Right(t, s, m)
    BY <1>1, <2>1, WeakRight
  <2>3. \A mark \in near.off : \A m \in Strong(t, s, mark) : Right(t, s, m)
    BY <1>1, <2>1, StrongRight
  <2>4. QED
    BY <2>1, <2>2, <2>3
<1>4. Spread(t, s, near) = [off |-> off, on |-> on]
  BY DEF Spread
<1> HIDE DEF off, on
<1>5. QED
  BY <1>2, <1>3, <1>4 DEF Follows

LEMMA ForcedFollows ==
    ASSUME NEW t, Fitting(t), NEW s, Agrees(t, s), NEW start \in AllMarks(t, s)
    PROVE  Follows(t, s, start, Forced(t, s, start))
<1> DEFINE n == MaximumChainLinks
           S == {near \in [off : SUBSET AllMarks(t, s), on : SUBSET AllMarks(t, s)] :
                    Follows(t, s, start, near)}
           first == [off |-> {start}, on |-> {}]
           step == [i \in 1 .. n |-> [near \in S |-> Spread(t, s, near)]]
           within == CHOOSE within : within = [links \in 0 .. n |->
                        IF links = 0 THEN first ELSE Spread(t, s, within[links - 1])]
<1>1. n \in Nat
  BY DEF MaximumChainLinks
<1>2. first \in S
  BY DEF Follows
<1>3. \A near \in S : Spread(t, s, near) \in S
  <2> TAKE near \in S
  <2>1. Follows(t, s, start, Spread(t, s, near))
    BY SpreadFollows
  <2>2. QED
    BY <2>1 DEF Follows
<1> HIDE DEF n, S, first
<1>4. step \in [1 .. n -> [S -> S]]
  BY <1>3
<1>5. PICK f \in [0 .. n -> S] : Steps(f, n, first, step)
  <2> HIDE DEF step
  <2>1. QED
    BY <1>1, <1>2, <1>4, StepsExist
<1>6. \A i \in 1 .. n : f[i] = Spread(t, s, f[i - 1])
  <2> TAKE i \in 1 .. n
  <2>1. i - 1 \in 0 .. n
    BY <1>1
  <2>2. f[i - 1] \in S
    BY <1>5, <2>1
  <2>3. f[i] = step[i][f[i - 1]]
    <3> HIDE DEF step
    <3>1. QED
      BY <1>5 DEF Steps
  <2>4. QED
    BY <2>2, <2>3
<1> HIDE DEF step
<1>7. f = [links \in 0 .. n |-> IF links = 0 THEN first ELSE Spread(t, s, f[links - 1])]
  BY <1>1, <1>5, <1>6 DEF Steps
<1>8. within = [links \in 0 .. n |-> IF links = 0 THEN first ELSE Spread(t, s, within[links - 1])]
  BY <1>7
<1>9. Forced(t, s, start) = within[n]
  BY DEF Forced, Spread, n, first
<1> HIDE DEF within
<1> DEFINE T == {k \in 0 .. n : within[k] \notin S}
<1>10. T = {}
  <2>1. SUFFICES ASSUME T # {} PROVE FALSE
    OBVIOUS
  <2>2. T \subseteq Nat
    BY DEF T
  <2> HIDE DEF T
  <2>3. PICK k \in T : \A j \in T : k <= j
    BY <2>1, <2>2, Least
  <2> USE DEF T
  <2>4. k # 0
    BY <1>2, <1>8
  <2>5. k - 1 \in 0 .. n /\ k - 1 \notin T /\ k \in 1 .. n
    BY <1>1, <2>3, <2>4
  <2>6. within[k - 1] \in S /\ within[k] = Spread(t, s, within[k - 1])
    BY <1>8, <2>5
  <2>7. QED
    BY <1>3, <2>5, <2>6
<1>11. QED
  BY <1>1, <1>9, <1>10 DEF S

LEMMA ChainAgrees ==
    ASSUME NEW t, Fitting(t), NEW s, Agrees(t, s), NEW start \in AllMarks(t, s)
    PROVE  Agrees(t, ChainFrom(t, s, start))
<1> DEFINE forced == Forced(t, s, start)
<1>1. Follows(t, s, start, forced)
  BY ForcedFollows
<1>2. start[1] \in t.cells
  BY MarkFacts
<1>3. ChainFrom(t, s, start) = IF start \in forced.on THEN Place(t, s, start[1], start[2])
                               ELSE Eliminate(s, forced.off \cap Weak(t, s, start))
  BY DEF ChainFrom
<1> HIDE DEF forced
<1>4. CASE start \in forced.on
  <2>1. Right(t, s, start)
    BY <1>1, <1>4 DEF Follows
  <2>2. start[2] = s.reference[start[1]]
    BY <2>1 DEF Right
  <2>3. QED
    BY <1>2, <1>3, <1>4, <2>2, PlaceAgrees
<1>5. CASE start \notin forced.on
  <2>1. \A mark \in forced.off \cap Weak(t, s, start) : ~Right(t, s, mark)
    BY <1>1, WeakRight DEF Follows
  <2>2. \A mark \in forced.off : mark \in t.cells \X t.digits
    BY <1>1 DEF Follows, AllMarks, Marks
  <2>3. forced.off \cap Weak(t, s, start) \in SUBSET Spared(t, s)
    BY <2>1, <2>2 DEF Spared, Right
  <2>4. QED
    BY <1>3, <1>5, <2>3, EliminateAgrees
<1>6. QED
  BY <1>4, <1>5
-------------------------------------------------------------------------------
(* All of them.                                                            *)

LEMMA SinglesAgree ==
    ASSUME NEW t, Fitting(t), NEW s, Agrees(t, s), NEW next \in NakedSingles(t, s) \cup HiddenSingles(t, s)
    PROVE  Agrees(t, next)
<1>1. CASE next \in NakedSingles(t, s)
  <2>1. PICK c \in t.cells : /\ Cardinality(s.candidates[c]) = 1
                             /\ next = Place(t, s, c, CHOOSE digit \in s.candidates[c] : TRUE)
    BY <1>1 DEF NakedSingles
  <2>2. IsFiniteSet(s.candidates[c])
    <3>1. s.candidates \in [t.cells -> SUBSET t.digits]
      BY AgreesFacts
    <3>2. s.candidates[c] \in SUBSET t.digits
      BY <3>1
    <3>3. QED
      BY <3>2, DigitSets
  <2>3. PICK d : s.candidates[c] = {d}
    BY <2>1, <2>2, FS_Singleton
  <2>4. s.reference[c] = d /\ (CHOOSE digit \in s.candidates[c] : TRUE) = d
    BY <2>3, OpenCells
  <2>5. QED
    BY <2>1, <2>4, PlaceAgrees
<1>2. CASE next \in HiddenSingles(t, s)
  <2>1. PICK mark \in t.cells \X t.digits, unit \in t.units :
           next = Place(t, s, mark[1], mark[2]) /\ Where(s, unit, mark[2]) = {mark[1]}
    BY <1>2 DEF HiddenSingles
  <2>2. mark[1] \in t.cells /\ mark[2] \in t.digits
    OBVIOUS
  <2>3. s.reference[mark[1]] = mark[2]
    BY <2>1, <2>2, PlaceOf
  <2>4. QED
    BY <2>1, <2>2, <2>3, PlaceAgrees
<1>3. QED
  BY <1>1, <1>2

(* Whatever position of a puzzle agrees with its solution, so does the one *)
(* after any deduction of any technique.                                   *)
LEMMA DeductionsAgree ==
    ASSUME NEW t, Fitting(t), NEW s, Agrees(t, s), NEW level \in 1 .. 5, NEW next \in Deductions(t, s, level)
    PROVE  Agrees(t, next)
<1>1. ASSUME NEW places, next \in {Eliminate(s, marks) : marks \in places \ {{}}},
             \A marks \in places : marks \in SUBSET Spared(t, s)
      PROVE  Agrees(t, next)
  BY <1>1, EliminateAgrees
<1>2. CASE level = 1
  <2>1. next \in NakedSingles(t, s) \cup HiddenSingles(t, s)
    BY <1>2 DEF Deductions
  <2>2. QED
    BY <2>1, SinglesAgree
<1>3. CASE level = 2
  <2>1. next \in {Eliminate(s, marks) : marks \in LockedCandidates(t, s) \ {{}}}
    BY <1>3 DEF Deductions
  <2>2. QED
    BY <1>1, <2>1, LockedSpared
<1>4. CASE level = 3
  <2> DEFINE places == NakedSubsets(t, s) \cup HiddenSubsets(t, s)
  <2>1. next \in {Eliminate(s, marks) : marks \in places \ {{}}}
    BY <1>4 DEF Deductions
  <2>2. \A marks \in places : marks \in SUBSET Spared(t, s)
    BY NakedSpared, HiddenSpared
  <2> HIDE DEF places
  <2>3. QED
    BY <1>1, <2>1, <2>2
<1>5. CASE level = 4
  <2> DEFINE places == Fish(t, s) \cup XyWing(t, s) \cup XyzWing(t, s)
  <2>1. next \in {Eliminate(s, marks) : marks \in places \ {{}}}
    BY <1>5 DEF Deductions
  <2>2. \A marks \in places : marks \in SUBSET Spared(t, s)
    BY FishSpared, XyWingSpared, XyzWingSpared
  <2> HIDE DEF places
  <2>3. QED
    BY <1>1, <2>1, <2>2
<1>6. CASE level = 5
  <2>1. next \in Chains(t, s)
    BY <1>6 DEF Deductions
  <2>2. PICK start \in AllMarks(t, s) : next = ChainFrom(t, s, start)
    BY <2>1 DEF Chains, AllMarks
  <2>3. QED
    BY <2>2, ChainAgrees
<1>7. QED
  BY <1>2, <1>3, <1>4, <1>5, <1>6

(* On a board of any size and shape, no deduction of any technique of the  *)
(* solver contradicts the solution, wherever the pencil marks allow it:    *)
(* what is placed is the solution's and what is removed is not (puzzle.cc, *)
(* next_deduction()).                                                      *)
THEOREM TechniquesSound ==
    ASSUME NEW side, NEW boxes, Shaped(side, boxes), NEW s, Agrees(Tables(side, boxes), s),
           NEW level \in 1 .. 5
    PROVE  /\ Sound(Tables(side, boxes), s, level)
           /\ \A next \in Deductions(Tables(side, boxes), s, level) : Agrees(Tables(side, boxes), next)
<1> DEFINE t == Tables(side, boxes)
<1>1. Fitting(t)
  BY TablesFit
<1> HIDE DEF t
<1>2. \A next \in Deductions(t, s, level) : Agrees(t, next)
  BY <1>1, DeductionsAgree DEF t
<1>3. \A next \in Deductions(t, s, level) : next.consistent
  BY <1>2, AgreesFacts
<1>4. QED
  BY <1>2, <1>3 DEF Sound, t

(* No deduction changes the solution that it is compared with.             *)
LEMMA ReferenceKept ==
    ASSUME NEW t, NEW s, Agrees(t, s), NEW level \in 1 .. 5, NEW next \in Deductions(t, s, level)
    PROVE  next.reference = s.reference
<1>1. s \in Positions(t)
  BY DEF Agrees
<1>2. \A marks : Eliminate(s, marks).reference = s.reference
  <2> TAKE marks
  <2> DEFINE rest == [c \in DOMAIN s.candidates |-> {digit \in s.candidates[c] : <<c, digit>> \notin marks}]
             fine == s.consistent /\ \A mark \in marks : s.reference[mark[1]] # mark[2]
  <2>1. Eliminate(s, marks) = [s EXCEPT !.candidates = rest, !.consistent = fine]
    BY DEF Eliminate
  <2> HIDE DEF rest, fine
  <2>2. QED
    BY <1>1, <2>1 DEF Positions
<1>3. \A cell, digit : Place(t, s, cell, digit).reference = s.reference
  <2> TAKE cell, digit
  <2> DEFINE values == [s.values EXCEPT ![cell] = digit]
             rest == [c \in t.cells |-> IF c = cell THEN {}
                                        ELSE IF c \in t.peers[cell] THEN s.candidates[c] \ {digit}
                                        ELSE s.candidates[c]]
             fine == s.consistent /\ s.reference[cell] = digit
  <2>1. Place(t, s, cell, digit) = [s EXCEPT !.values = values, !.candidates = rest, !.consistent = fine]
    BY <1>1 DEF Place, Positions
  <2> HIDE DEF values, rest, fine
  <2>2. QED
    BY <1>1, <2>1 DEF Positions
<1>4. \/ \E marks : next = Eliminate(s, marks)
      \/ \E cell, digit : next = Place(t, s, cell, digit)
  <2>1. CASE level = 1
    <3>1. next \in NakedSingles(t, s) \cup HiddenSingles(t, s)
      BY <2>1 DEF Deductions
    <3>2. QED
      BY <3>1 DEF NakedSingles, HiddenSingles
  <2>2. CASE level \in 2 .. 4
    <3>1. \E places : next \in {Eliminate(s, marks) : marks \in places \ {{}}}
      BY <2>2 DEF Deductions
    <3>2. QED
      BY <3>1
  <2>3. CASE level = 5
    <3>1. \E start : next = ChainFrom(t, s, start)
      BY <2>3 DEF Deductions, Chains
    <3>2. QED
      BY <3>1 DEF ChainFrom
  <2>4. QED
    BY <2>1, <2>2, <2>3
<1>5. QED
  BY <1>2, <1>3, <1>4
-------------------------------------------------------------------------------
(* A rating from its start.                                                *)

\* Clues of a solution.
Clues(t, givens, solution) ==
    /\ solution \in Valid(t) /\ givens \in [t.cells -> 0 .. t.side]
    /\ \A c \in t.cells : givens[c] \in {0, solution[c]}

(* The clues of a solution are no two of them in each other's way.         *)
LEMMA CluesLoad ==
    ASSUME NEW t, Fitting(t), NEW givens, NEW solution, Clues(t, givens, solution)
    PROVE  /\ Loads(t, givens)
           /\ \A c \in t.cells : givens[c] = 0 => solution[c] \in Fits(t, givens, c)
<1>1. /\ solution \in [t.cells -> t.digits] /\ givens \in [t.cells -> 0 .. t.side]
      /\ \A c \in t.cells : givens[c] = 0 \/ givens[c] = solution[c]
      /\ \A c \in t.cells : \A p \in t.peers[c] : solution[c] # solution[p]
  BY DEF Clues, Valid
<1>2. t.side \in Nat /\ t.digits = 1 .. t.side
  BY DEF Fitting
<1>3. ASSUME NEW c \in t.cells PROVE solution[c] \in Fits(t, givens, c)
  <2>1. solution[c] \in t.digits /\ solution[c] # 0
    BY <1>1, <1>2
  <2>2. \A p \in t.peers[c] : p \in t.cells
    BY PeerFacts
  <2>3. \A p \in t.peers[c] : givens[p] # solution[c]
    BY <1>1, <2>1, <2>2
  <2>4. QED
    BY <2>1, <2>3 DEF Fits
<1>4. QED
  BY <1>1, <1>3 DEF Loads

LEMMA CluedAgrees ==
    ASSUME NEW t, Fitting(t), NEW givens, NEW reference, Clues(t, givens, reference)
    PROVE  Agrees(t, Clued(t, givens, reference))
<1> DEFINE s == Clued(t, givens, reference)
           marks == [c \in t.cells |-> IF givens[c] = 0 THEN Fits(t, givens, c) ELSE {}]
           fine == \A c \in t.cells : givens[c] \in {0, reference[c]}
<1>1. s = [values |-> givens, reference |-> reference, consistent |-> fine, candidates |-> marks]
  BY DEF Clued
<1>2. fine = TRUE
  BY DEF Clues
<1>3. marks \in [t.cells -> SUBSET t.digits]
  BY DEF Fits
<1>4. /\ reference \in Valid(t) /\ givens \in [t.cells -> 0 .. t.side]
      /\ \A c \in t.cells : givens[c] = 0 \/ givens[c] = reference[c]
  BY DEF Clues
<1>5. \A c \in t.cells : marks[c] = IF givens[c] = 0 THEN Fits(t, givens, c) ELSE {}
  OBVIOUS
<1> HIDE DEF marks, fine, s
<1>6. s \in Positions(t) /\ s.values = givens /\ s.reference = reference /\ s.candidates = marks
  BY <1>1, <1>2, <1>3, <1>4 DEF Positions
<1>7. ASSUME NEW c \in t.cells
      PROVE  IF s.values[c] = 0 THEN s.reference[c] \in s.candidates[c]
             ELSE /\ s.values[c] = s.reference[c] /\ s.candidates[c] = {}
                  /\ \A p \in t.peers[c] : s.values[c] \notin s.candidates[p]
  <2>1. CASE givens[c] = 0
    BY <1>5, <1>6, <2>1, CluesLoad
  <2>2. CASE givens[c] # 0
    <3>1. \A p \in t.peers[c] : p \in t.cells /\ c \in t.peers[p]
      BY PeerFacts
    <3>2. \A p \in t.peers[c] : givens[c] \notin Fits(t, givens, p)
      BY <3>1 DEF Fits
    <3>3. \A p \in t.peers[c] : givens[c] \notin marks[p]
      BY <1>5, <3>1, <3>2
    <3>4. QED
      BY <1>4, <1>5, <1>6, <2>2, <3>3
  <2>3. QED
    BY <2>1, <2>2
<1>8. QED
  BY <1>6, <1>7 DEF Agrees, s

(* However many deductions rate() makes from the clues of a solution, of   *)
(* whatever techniques and whichever of those that are there, none         *)
(* contradicts the solution, and when every cell has a value it is the     *)
(* solution that was found (rate() and its `consistent').                  *)
THEOREM RatingSound ==
    ASSUME NEW side, NEW boxes, Shaped(side, boxes), NEW givens, NEW reference,
           Clues(Tables(side, boxes), givens, reference),
           NEW n \in Nat, NEW f, f[0] = Clued(Tables(side, boxes), givens, reference),
           \A i \in 1 .. n : \E level \in 1 .. 5 : f[i] \in Deductions(Tables(side, boxes), f[i - 1], level)
    PROVE  \A i \in 0 .. n :
             /\ f[i].consistent
             /\ f[i].reference = reference
             /\ (\A c \in Tables(side, boxes).cells : f[i].values[c] # 0) => f[i].values = reference
<1> DEFINE t == Tables(side, boxes)
           Good(s) == Agrees(t, s) /\ s.reference = reference
           T == {k \in 0 .. n : ~Good(f[k])}
<1>1. Fitting(t)
  BY TablesFit
<1>2. Good(f[0])
  <2>1. f[0].reference = reference
    BY DEF Clued
  <2> HIDE DEF t
  <2>2. QED
    BY <1>1, <2>1, CluedAgrees DEF t
<1>3. ASSUME NEW s, Good(s), NEW level \in 1 .. 5, NEW next \in Deductions(t, s, level)
      PROVE  Good(next)
  <2> HIDE DEF t
  <2>1. Agrees(t, next)
    BY <1>1, <1>3, DeductionsAgree
  <2>2. next.reference = s.reference
    BY <1>3, ReferenceKept
  <2>3. QED
    BY <1>3, <2>1, <2>2
<1>4. \A i \in 1 .. n : \E level \in 1 .. 5 : f[i] \in Deductions(t, f[i - 1], level)
  OBVIOUS
<1> HIDE DEF t, Good
<1>5. T = {}
  <2>1. SUFFICES ASSUME T # {} PROVE FALSE
    OBVIOUS
  <2>2. T \subseteq Nat
    BY DEF T
  <2> HIDE DEF T
  <2>3. PICK k \in T : \A j \in T : k <= j
    BY <2>1, <2>2, Least
  <2> USE DEF T
  <2>4. k # 0
    BY <1>2
  <2>5. k - 1 \in 0 .. n /\ k - 1 \notin T /\ k \in 1 .. n
    BY <2>3, <2>4
  <2>6. QED
    BY <1>3, <1>4, <2>5
<1>6. ASSUME NEW s, Good(s)
      PROVE  /\ s.consistent /\ s.reference = reference
             /\ (\A c \in t.cells : s.values[c] # 0) => s.values = reference
  <2>1. Agrees(t, s) /\ s.reference = reference
    BY <1>6 DEF Good
  <2>2. /\ s.consistent = TRUE /\ s.values \in [t.cells -> 0 .. t.side]
        /\ s.reference \in [t.cells -> t.digits]
    BY <2>1, AgreesFacts
  <2>3. \A c \in t.cells : s.values[c] # 0 => s.values[c] = s.reference[c]
    BY <2>1 DEF Agrees
  <2>4. QED
    BY <2>1, <2>2, <2>3
<1>7. QED
  BY <1>5, <1>6 DEF t
-------------------------------------------------------------------------------
(* The search finds every way to fill a grid.                              *)

Fillings(t) == [t.cells -> 0 .. t.side]
Filled(t, g) ==
    {f \in [t.cells -> t.digits] : \A c \in t.cells :
        IF g[c] = 0 THEN \A p \in t.peers[c] : f[c] # f[p] ELSE f[c] = g[c]}
Empty(t, g) == {c \in t.cells : g[c] = 0}
Best(t, g) == CHOOSE c \in Empty(t, g) : \A d \in Empty(t, g) :
                  Cardinality(Fits(t, g, c)) <= Cardinality(Fits(t, g, d))

LEMMA BestIsEmpty ==
    ASSUME NEW t, Fitting(t), NEW g \in Fillings(t), Empty(t, g) # {}
    PROVE  Best(t, g) \in Empty(t, g)
<1> DEFINE size == [c \in Empty(t, g) |-> Cardinality(Fits(t, g, c))]
           T == {size[c] : c \in Empty(t, g)}
<1>1. \A c \in Empty(t, g) : size[c] \in Nat
  <2> TAKE c \in Empty(t, g)
  <2>1. Fits(t, g, c) \in SUBSET t.digits
    BY DEF Fits
  <2>2. IsFiniteSet(Fits(t, g, c))
    BY <2>1, DigitSets
  <2>3. QED
    BY <2>2, FS_CardinalityType
<1>2. T \subseteq Nat /\ T # {}
  BY <1>1
<1>3. PICK x \in T : \A y \in T : x <= y
  <2> HIDE DEF T
  <2>1. QED
    BY <1>2, Least
<1>4. PICK c \in Empty(t, g) : x = size[c]
  BY <1>3
<1>5. \A d \in Empty(t, g) : size[c] <= size[d]
  BY <1>3, <1>4
<1>6. \A d \in Empty(t, g) : Cardinality(Fits(t, g, c)) <= Cardinality(Fits(t, g, d))
  BY <1>5
<1>7. QED
  BY <1>6 DEF Best

(* Filling one more cell with each digit that fits.                        *)
LEMMA FilledBranches ==
    ASSUME NEW t, Fitting(t), NEW g \in Fillings(t), NEW best \in Empty(t, g)
    PROVE  /\ \A digit \in Fits(t, g, best) : [g EXCEPT ![best] = digit] \in Fillings(t)
           /\ Filled(t, g) = UNION {Filled(t, [g EXCEPT ![best] = digit]) : digit \in Fits(t, g, best)}
<1>1. best \in t.cells /\ g[best] = 0
  BY DEF Empty
<1>2. t.side \in Nat /\ t.digits = 1 .. t.side
  BY DEF Fitting
<1>3. \A digit \in Fits(t, g, best) : digit \in t.digits /\ \A p \in t.peers[best] : digit # g[p]
  BY DEF Fits
<1>4. \A digit \in t.digits : digit \in 0 .. t.side /\ digit # 0
  BY <1>2
<1>5. ASSUME NEW digit \in Fits(t, g, best)
      PROVE  /\ [g EXCEPT ![best] = digit] \in Fillings(t)
             /\ \A c \in t.cells : [g EXCEPT ![best] = digit][c] = IF c = best THEN digit ELSE g[c]
  BY <1>1, <1>3, <1>4 DEF Fillings
<1>6. \A a \in t.cells : \A p \in t.peers[a] : p \in t.cells /\ p # a /\ a \in t.peers[p]
  BY PeerFacts
<1>7. ASSUME NEW f \in Filled(t, g)
      PROVE  \E digit \in Fits(t, g, best) : f \in Filled(t, [g EXCEPT ![best] = digit])
  <2>1. /\ f \in [t.cells -> t.digits]
        /\ \A c \in t.cells : IF g[c] = 0 THEN \A p \in t.peers[c] : f[c] # f[p] ELSE f[c] = g[c]
    BY DEF Filled
  <2> DEFINE digit == f[best]
  <2>2. digit \in t.digits /\ digit # 0
    BY <1>1, <1>4, <2>1
  <2>3. \A p \in t.peers[best] : digit # f[p] /\ p \in t.cells
    BY <1>1, <1>6, <2>1
  <2>4. \A p \in t.peers[best] : digit # g[p]
    BY <2>1, <2>2, <2>3
  <2>5. digit \in Fits(t, g, best)
    BY <2>2, <2>4 DEF Fits
  <2>6. \A c \in t.cells : [g EXCEPT ![best] = digit][c] = IF c = best THEN digit ELSE g[c]
    BY <1>5, <2>5
  <2>7. f \in Filled(t, [g EXCEPT ![best] = digit])
    <3> DEFINE h == [g EXCEPT ![best] = digit]
    <3>1. \A c \in t.cells : h[c] = IF c = best THEN digit ELSE g[c]
      BY <2>6
    <3> HIDE DEF h
    <3>2. \A c \in t.cells : IF h[c] = 0 THEN \A p \in t.peers[c] : f[c] # f[p] ELSE f[c] = h[c]
      BY <2>1, <2>2, <3>1
    <3>3. f \in Filled(t, h)
      BY <2>1, <3>2 DEF Filled
    <3>4. QED
      BY <3>3 DEF h
  <2>8. QED
    BY <2>5, <2>7
<1>8. ASSUME NEW digit \in Fits(t, g, best), NEW f \in Filled(t, [g EXCEPT ![best] = digit])
      PROVE  f \in Filled(t, g)
  <2> DEFINE h == [g EXCEPT ![best] = digit]
  <2>1. \A c \in t.cells : h[c] = IF c = best THEN digit ELSE g[c]
    BY <1>5
  <2> HIDE DEF h
  <2>2. /\ f \in [t.cells -> t.digits]
        /\ \A c \in t.cells : IF h[c] = 0 THEN \A p \in t.peers[c] : f[c] # f[p] ELSE f[c] = h[c]
    BY DEF Filled, h
  <2>3. digit \in t.digits /\ digit # 0 /\ \A p \in t.peers[best] : digit # g[p]
    BY <1>3, <1>4
  <2>4. f[best] = digit
    BY <1>1, <2>1, <2>2, <2>3
  <2>5. \A p \in t.peers[best] : f[best] # f[p]
    <3> TAKE p \in t.peers[best]
    <3>1. p \in t.cells /\ p # best /\ best \in t.peers[p]
      BY <1>1, <1>6
    <3>2. h[p] = g[p]
      BY <2>1, <3>1
    <3>3. CASE g[p] = 0
      BY <2>2, <3>1, <3>2, <3>3
    <3>4. CASE g[p] # 0
      BY <2>2, <2>3, <2>4, <3>1, <3>2, <3>4
    <3>5. QED
      BY <3>3, <3>4
  <2>6. \A c \in t.cells : IF g[c] = 0 THEN \A p \in t.peers[c] : f[c] # f[p] ELSE f[c] = g[c]
    BY <1>1, <2>1, <2>2, <2>5
  <2>7. QED
    BY <2>2, <2>6 DEF Filled
<1>9. QED
  BY <1>5, <1>7, <1>8

LEMMA FilledAlready ==
    ASSUME NEW t, Fitting(t), NEW g \in Fillings(t), Empty(t, g) = {}
    PROVE  Filled(t, g) = {g}
<1>1. \A c \in t.cells : g[c] \in 0 .. t.side /\ g[c] # 0
  BY DEF Empty, Fillings
<1>2. t.side \in Nat /\ t.digits = 1 .. t.side
  BY DEF Fitting
<1>3. g \in [t.cells -> t.digits]
  BY <1>1, <1>2 DEF Fillings
<1>4. \A f \in [t.cells -> t.digits] : (\A c \in t.cells : f[c] = g[c]) <=> f = g
  BY <1>3
<1>5. QED
  BY <1>1, <1>3, <1>4 DEF Filled

(* An empty cell less.                                                     *)
LEMMA FewerEmpty ==
    ASSUME NEW t, Fitting(t), NEW g \in Fillings(t), NEW best \in Empty(t, g), NEW digit \in Fits(t, g, best)
    PROVE  /\ IsFiniteSet(Empty(t, g)) /\ Cardinality(Empty(t, g)) \in Nat
           /\ Cardinality(Empty(t, [g EXCEPT ![best] = digit])) = Cardinality(Empty(t, g)) - 1
<1>1. Empty(t, g) \in SUBSET t.cells
  BY DEF Empty
<1>2. IsFiniteSet(Empty(t, g)) /\ Cardinality(Empty(t, g)) \in Nat
  BY <1>1, DigitSets, FS_CardinalityType
<1>3. digit \in t.digits /\ best \in t.cells
  BY DEF Fits, Empty
<1>4. digit # 0
  BY <1>3 DEF Fitting
<1>5. Empty(t, [g EXCEPT ![best] = digit]) = Empty(t, g) \ {best}
  BY <1>3, <1>4 DEF Empty, Fillings
<1>6. QED
  BY <1>2, <1>5, FS_RemoveElement

(* The search from a grid finds every way to fill it, and nothing else     *)
(* (search(), whichever of the most constrained cells it takes first).     *)
THEOREM SearchFindsAll ==
    ASSUME NEW t, Fitting(t), NEW grid \in Fillings(t)
    PROVE  Completions(t, grid) = Filled(t, grid)
<1> DEFINE Branches(search, g) ==
               IF Empty(t, g) = {} THEN {g}
               ELSE UNION {search[[g EXCEPT ![Best(t, g)] = digit]] : digit \in Fits(t, g, Best(t, g))}
           search == CHOOSE search : search = [g \in Fillings(t) |-> Branches(search, g)]
           all == [g \in Fillings(t) |-> Filled(t, g)]
<1>1. Completions(t, grid) = search[grid]
  BY DEF Completions, Empty, Best, Fillings
<1>2. \A g \in Fillings(t) : Branches(all, g) = all[g]
  <2> TAKE g \in Fillings(t)
  <2>1. CASE Empty(t, g) = {}
    BY <2>1, FilledAlready
  <2>2. CASE Empty(t, g) # {}
    <3> DEFINE best == Best(t, g)
    <3>1. best \in Empty(t, g)
      BY <2>2, BestIsEmpty
    <3> HIDE DEF best
    <3>2. /\ \A digit \in Fits(t, g, best) : [g EXCEPT ![best] = digit] \in Fillings(t)
          /\ Filled(t, g) = UNION {Filled(t, [g EXCEPT ![best] = digit]) : digit \in Fits(t, g, best)}
      BY <3>1, FilledBranches
    <3>3. \A digit \in Fits(t, g, best) :
             all[[g EXCEPT ![best] = digit]] = Filled(t, [g EXCEPT ![best] = digit])
      BY <3>2
    <3>4. UNION {all[[g EXCEPT ![best] = digit]] : digit \in Fits(t, g, best)} = Filled(t, g)
      BY <3>2, <3>3
    <3>5. Branches(all, g) = UNION {all[[g EXCEPT ![best] = digit]] : digit \in Fits(t, g, best)}
      BY <2>2 DEF best
    <3>6. QED
      BY <3>4, <3>5
  <2>3. QED
    BY <2>1, <2>2
<1>3. all = [g \in Fillings(t) |-> Branches(all, g)]
  <2> HIDE DEF Branches
  <2>1. QED
    BY <1>2
<1> HIDE DEF Branches, all
<1>4. search = [g \in Fillings(t) |-> Branches(search, g)]
  BY <1>3
<1> HIDE DEF search
<1> USE DEF Branches
<1> DEFINE T == {n \in Nat : \E g \in Fillings(t) :
                    Cardinality(Empty(t, g)) = n /\ search[g] # Filled(t, g)}
<1>5. T = {}
  <2>1. SUFFICES ASSUME T # {} PROVE FALSE
    OBVIOUS
  <2>2. T \subseteq Nat
    BY DEF T
  <2> HIDE DEF T
  <2>3. PICK n \in T : \A m \in T : n <= m
    BY <2>1, <2>2, Least
  <2> USE DEF T
  <2>4. PICK g \in Fillings(t) : Cardinality(Empty(t, g)) = n /\ search[g] # Filled(t, g)
    BY <2>3
  <2>5. search[g] = Branches(search, g)
    <3> HIDE DEF Branches
    <3>1. QED
      BY <1>4
  <2>6. Empty(t, g) # {}
    BY <2>4, <2>5, FilledAlready
  <2> DEFINE best == Best(t, g)
  <2>7. best \in Empty(t, g)
    BY <2>6, BestIsEmpty
  <2>8. search[g] = UNION {search[[g EXCEPT ![best] = digit]] : digit \in Fits(t, g, best)}
    BY <2>5, <2>6
  <2> HIDE DEF best
  <2>9. ASSUME NEW digit \in Fits(t, g, best)
        PROVE  search[[g EXCEPT ![best] = digit]] = Filled(t, [g EXCEPT ![best] = digit])
    <3> DEFINE h == [g EXCEPT ![best] = digit]
    <3>1. h \in Fillings(t)
      BY <2>7, FilledBranches
    <3>2. Cardinality(Empty(t, h)) = n - 1
      BY <2>4, <2>7, FewerEmpty
    <3>3. IsFiniteSet(Empty(t, h)) /\ Cardinality(Empty(t, h)) \in Nat
      <4> HIDE DEF h
      <4>1. Empty(t, h) \in SUBSET t.cells
        BY DEF Empty
      <4>2. QED
        BY <4>1, DigitSets, FS_CardinalityType
    <3> HIDE DEF h
    <3>4. n - 1 \notin T
      BY <2>3
    <3>5. search[h] = Filled(t, h)
      BY <3>1, <3>2, <3>3, <3>4
    <3>6. QED
      BY <3>5 DEF h
  <2>10. search[g] = Filled(t, g)
    BY <2>7, <2>8, <2>9, FilledBranches
  <2>11. QED
    BY <2>4, <2>10
<1>6. IsFiniteSet(Empty(t, grid)) /\ Cardinality(Empty(t, grid)) \in Nat
  <2>1. Empty(t, grid) \in SUBSET t.cells
    BY DEF Empty
  <2>2. QED
    BY <2>1, DigitSets, FS_CardinalityType
<1>7. QED
  BY <1>1, <1>5, <1>6

(* From a blank board the search finds the boards that obey the rules, all *)
(* of them and no others: no digit is twice in a unit, so every unit has   *)
(* every digit (random_solution(), valid_solution()).                      *)
THEOREM SolutionsAreValid ==
    ASSUME NEW side, NEW boxes, Shaped(side, boxes)
    PROVE  /\ Solutions(Tables(side, boxes)) = Valid(Tables(side, boxes))
           /\ \A f \in Valid(Tables(side, boxes)) : \A unit \in Tables(side, boxes).units :
                {f[c] : c \in unit} = 1 .. side
<1> DEFINE t == Tables(side, boxes)
           g == Blank(t)
<1>0. t.digits = 1 .. side
  BY DEF Tables
<1>1. Fitting(t)
  BY TablesFit
<1> HIDE DEF t
<1>2. t.side \in Nat
  BY <1>1 DEF Fitting
<1>3. g \in Fillings(t) /\ \A c \in t.cells : g[c] = 0
  BY <1>2 DEF Fillings, Blank
<1>4. Solutions(t) = Completions(t, g)
  BY DEF Solutions
<1> HIDE DEF g
<1>5. Filled(t, g) = Valid(t)
  BY <1>3 DEF Filled, Valid
<1>6. Solutions(t) = Valid(t)
  BY <1>1, <1>3, <1>4, <1>5, SearchFindsAll
<1>7. ASSUME NEW f \in Valid(t), NEW unit \in t.units PROVE {f[c] : c \in unit} = t.digits
  <2>1. \A digit \in t.digits : \E c \in unit : f[c] = digit
    BY <1>1, EachDigit
  <2>2. \A c \in unit : f[c] \in t.digits
    BY <1>1 DEF Valid, Fitting
  <2>3. QED
    BY <2>1, <2>2
<1>8. QED
  BY <1>0, <1>6, <1>7 DEF t
-------------------------------------------------------------------------------
(* There are finitely many ways to fill a board.                           *)

LEMMA PairsFinite ==
    ASSUME NEW A, NEW B, IsFiniteSet(A), IsFiniteSet(B)
    PROVE  IsFiniteSet(A \X B)
<1> DEFINE T == {n \in Nat : \E S \in SUBSET B : Cardinality(S) = n /\ ~IsFiniteSet(A \X S)}
<1>1. T = {}
  <2>1. SUFFICES ASSUME T # {} PROVE FALSE
    OBVIOUS
  <2>2. T \subseteq Nat
    BY DEF T
  <2> HIDE DEF T
  <2>3. PICK n \in T : \A m \in T : n <= m
    BY <2>1, <2>2, Least
  <2> USE DEF T
  <2>4. PICK S \in SUBSET B : Cardinality(S) = n /\ ~IsFiniteSet(A \X S)
    BY <2>3
  <2>5. S # {}
    <3>1. A \X {} = {}
      OBVIOUS
    <3>2. QED
      BY <2>4, <3>1, FS_EmptySet
  <2>6. PICK x \in S : TRUE
    BY <2>5
  <2>7. IsFiniteSet(S)
    BY FS_Subset
  <2>8. /\ IsFiniteSet(S \ {x}) /\ Cardinality(S \ {x}) = n - 1 /\ Cardinality(S \ {x}) \in Nat
    BY <2>4, <2>7, FS_RemoveElement, FS_CardinalityType
  <2>9. IsFiniteSet(A \X (S \ {x}))
    <3>1. n \in Nat /\ ~(n <= n - 1)
      BY <2>2
    <3>2. n - 1 \notin T
      BY <2>3, <3>1
    <3>3. QED
      BY <2>8, <3>2
  <2>10. IsFiniteSet(A \X {x})
    <3> DEFINE g == [a \in A |-> <<a, x>>]
    <3>1. g \in [A -> A \X {x}]
      OBVIOUS
    <3>2. \A y \in A \X {x} : \E a \in A : g[a] = y
      OBVIOUS
    <3> HIDE DEF g
    <3>3. g \in Surjection(A, A \X {x})
      BY <3>1, <3>2 DEF Surjection, Range
    <3>4. QED
      BY <3>3, FS_Surjection
  <2>11. A \X S = (A \X (S \ {x})) \cup (A \X {x})
    BY <2>6
  <2>12. IsFiniteSet((A \X (S \ {x})) \cup (A \X {x}))
    BY <2>9, <2>10, FS_Union
  <2>13. QED
    BY <2>4, <2>11, <2>12
<1>2. Cardinality(B) \in Nat
  BY FS_CardinalityType
<1>3. QED
  BY <1>1, <1>2

LEMMA FunctionsFinite ==
    ASSUME NEW A, NEW B, IsFiniteSet(A), IsFiniteSet(B)
    PROVE  IsFiniteSet([A -> B])
<1> DEFINE T == {n \in Nat : \E S \in SUBSET A : Cardinality(S) = n /\ ~IsFiniteSet([S -> B])}
<1>1. T = {}
  <2>1. SUFFICES ASSUME T # {} PROVE FALSE
    OBVIOUS
  <2>2. T \subseteq Nat
    BY DEF T
  <2> HIDE DEF T
  <2>3. PICK n \in T : \A m \in T : n <= m
    BY <2>1, <2>2, Least
  <2> USE DEF T
  <2>4. PICK S \in SUBSET A : Cardinality(S) = n /\ ~IsFiniteSet([S -> B])
    BY <2>3
  <2>5. S # {}
    <3> DEFINE none == [a \in {} |-> a]
    <3>1. \A f, h \in [{} -> B] : f = h
      OBVIOUS
    <3>2. none \in [{} -> B]
      OBVIOUS
    <3> HIDE DEF none
    <3>3. [{} -> B] = {none}
      BY <3>1, <3>2
    <3>4. IsFiniteSet({none})
      BY FS_Singleton
    <3>5. QED
      BY <2>4, <3>3, <3>4
  <2>6. PICK x \in S : TRUE
    BY <2>5
  <2>7. IsFiniteSet(S)
    BY FS_Subset
  <2> DEFINE Q == [S \ {x} -> B]
             P == Q \X B
             h == [q \in P |-> [a \in S |-> IF a = x THEN q[2] ELSE q[1][a]]]
  <2>8. /\ IsFiniteSet(S \ {x}) /\ Cardinality(S \ {x}) = n - 1 /\ Cardinality(S \ {x}) \in Nat
    BY <2>4, <2>7, FS_RemoveElement, FS_CardinalityType
  <2>9. IsFiniteSet(Q)
    <3>1. n \in Nat /\ ~(n <= n - 1)
      BY <2>2
    <3>2. n - 1 \notin T
      BY <2>3, <3>1
    <3>3. QED
      BY <2>8, <3>2
  <2>10. IsFiniteSet(P)
    BY <2>9, PairsFinite
  <2>11. h \in [P -> [S -> B]]
    <3>1. \A q \in P : q[1] \in Q /\ q[2] \in B
      OBVIOUS
    <3>2. ASSUME NEW q \in P
          PROVE  [a \in S |-> IF a = x THEN q[2] ELSE q[1][a]] \in [S -> B]
      BY <3>1
    <3> HIDE DEF P
    <3>3. QED
      BY <3>2
  <2>12. ASSUME NEW f \in [S -> B] PROVE \E q \in P : h[q] = f
    <3> DEFINE rest == [a \in S \ {x} |-> f[a]]
               q == <<rest, f[x]>>
    <3>1. rest \in Q /\ f[x] \in B
      BY <2>6
    <3>2. q \in P /\ q[1] = rest /\ q[2] = f[x]
      BY <3>1
    <3>3. \A a \in S : (IF a = x THEN q[2] ELSE q[1][a]) = f[a]
      <4> HIDE DEF q
      <4>1. QED
        BY <3>2
    <3> HIDE DEF q, P
    <3>4. h[q] = [a \in S |-> IF a = x THEN q[2] ELSE q[1][a]]
      BY <3>2
    <3> HIDE DEF h, rest
    <3>5. h[q] = f
      BY <3>3, <3>4
    <3>6. QED
      BY <3>2, <3>5
  <2> HIDE DEF h, P
  <2>13. h \in Surjection(P, [S -> B])
    BY <2>11, <2>12 DEF Surjection, Range
  <2>14. QED
    BY <2>4, <2>10, <2>13, FS_Surjection
<1>2. Cardinality(A) \in Nat
  BY FS_CardinalityType
<1>3. QED
  BY <1>1, <1>2
-------------------------------------------------------------------------------
(* What minimize() leaves.                                                 *)

\* The solutions with these clues.
Ways(t, g) == {f \in Valid(t) : \A c \in t.cells : g[c] # 0 => f[c] = g[c]}

LEMMA FilledIsWays ==
    ASSUME NEW t, Fitting(t), NEW g, NEW solution, Clues(t, g, solution)
    PROVE  Completions(t, g) = Ways(t, g) /\ IsFiniteSet(Ways(t, g)) /\ solution \in Ways(t, g)
<1>1. /\ solution \in Valid(t) /\ g \in Fillings(t)
      /\ \A c \in t.cells : g[c] = 0 \/ g[c] = solution[c]
  BY DEF Clues, Fillings
<1>2. \A c \in t.cells : \A p \in t.peers[c] : p \in t.cells /\ c \in t.peers[p] /\ solution[c] # solution[p]
  BY <1>1, PeerFacts DEF Valid
<1>3. ASSUME NEW f \in Filled(t, g) PROVE f \in Ways(t, g)
  <2>1. /\ f \in [t.cells -> t.digits]
        /\ \A c \in t.cells : IF g[c] = 0 THEN \A p \in t.peers[c] : f[c] # f[p] ELSE f[c] = g[c]
    BY DEF Filled
  <2>2. ASSUME NEW c \in t.cells, NEW p \in t.peers[c] PROVE f[c] # f[p]
    <3>1. p \in t.cells /\ c \in t.peers[p] /\ solution[c] # solution[p]
      BY <1>2
    <3>2. CASE g[c] = 0
      BY <2>1, <3>2
    <3>3. CASE g[p] = 0
      BY <2>1, <3>1, <3>3
    <3>4. CASE g[c] # 0 /\ g[p] # 0
      BY <1>1, <2>1, <3>1, <3>4
    <3>5. QED
      BY <3>2, <3>3, <3>4
  <2>3. QED
    BY <2>1, <2>2 DEF Ways, Valid
<1>4. ASSUME NEW f \in Ways(t, g) PROVE f \in Filled(t, g)
  BY DEF Ways, Valid, Filled
<1>5. Completions(t, g) = Ways(t, g)
  BY <1>1, <1>3, <1>4, SearchFindsAll
<1>6. IsFiniteSet(Ways(t, g))
  <2>1. IsFiniteSet(t.cells) /\ IsFiniteSet(t.digits)
    BY DigitSets
  <2>2. IsFiniteSet([t.cells -> t.digits])
    BY <2>1, FunctionsFinite
  <2>3. Ways(t, g) \in SUBSET [t.cells -> t.digits]
    BY DEF Ways, Valid
  <2>4. QED
    BY <2>2, <2>3, FS_Subset
<1>7. solution \in Ways(t, g)
  BY <1>1 DEF Ways
<1>8. QED
  BY <1>5, <1>6, <1>7

(* With clues of a solution, count_solutions() says whether it is the only *)
(* one.                                                                    *)
LEMMA CountsWays ==
    ASSUME NEW t, Fitting(t), NEW g, NEW solution, Clues(t, g, solution)
    PROVE  /\ CountSolutions(t, g, 2) = 1 <=> Ways(t, g) = {solution}
           /\ Ways(t, g) # {solution} => CountSolutions(t, g, 2) = 2
<1> DEFINE ways == Ways(t, g)
           count == Cardinality(ways)
<1>1. Loads(t, g) /\ Completions(t, g) = ways /\ IsFiniteSet(ways) /\ solution \in ways
  BY CluesLoad, FilledIsWays
<1>2. CountSolutions(t, g, 2) = IF count < 2 THEN count ELSE 2
  BY <1>1 DEF CountSolutions
<1> HIDE DEF ways
<1>3. count \in Nat /\ count # 0
  BY <1>1, FS_CardinalityType, FS_EmptySet
<1>4. count = 1 <=> ways = {solution}
  BY <1>1, FS_Singleton
<1> HIDE DEF count
<1>5. QED
  BY <1>2, <1>3, <1>4 DEF ways

(* Fewer clues have the solutions that more have.                          *)
LEMMA FewerClues ==
    ASSUME NEW t, Fitting(t), NEW g, NEW solution, Clues(t, g, solution), NEW h \in Fillings(t),
           \A c \in t.cells : h[c] \in {0, g[c]}
    PROVE  Clues(t, h, solution) /\ Ways(t, g) \subseteq Ways(t, h)
<1>1. \A c \in t.cells : h[c] = 0 \/ h[c] = g[c]
  OBVIOUS
<1>2. Clues(t, h, solution)
  BY <1>1 DEF Clues, Fillings
<1>3. Ways(t, g) \subseteq Ways(t, h)
  BY <1>1 DEF Ways
<1>4. QED
  BY <1>2, <1>3

Fewer(g, c) == [g EXCEPT ![c] = 0]
After(t, puzzle, c) == IF CountSolutions(t, Fewer(puzzle, c), 2) = 1 THEN Fewer(puzzle, c) ELSE puzzle
Needed(t, g, solution, c) == g[c] # 0 => Ways(t, Fewer(g, c)) # {solution}

\* What the first k cells of the order leave.
Cut(t, solution, order, k, g) ==
    /\ Clues(t, g, solution) /\ Ways(t, g) = {solution}
    /\ \A i \in 1 .. k : Needed(t, g, solution, order[i])

LEMMA WithoutFacts ==
    ASSUME NEW t, Fitting(t), NEW g \in Fillings(t), NEW c \in t.cells
    PROVE  /\ Fewer(g, c) \in Fillings(t)
           /\ \A d \in t.cells : Fewer(g, c)[d] = IF d = c THEN 0 ELSE g[d]
<1>1. 0 \in 0 .. t.side
  BY DEF Fitting
<1>2. QED
  BY <1>1 DEF Fewer, Fillings

LEMMA CutsMore ==
    ASSUME NEW t, Fitting(t), NEW solution, NEW order \in Seq(t.cells), NEW k \in 1 .. Len(order), NEW g,
           Cut(t, solution, order, k - 1, g)
    PROVE  Cut(t, solution, order, k, After(t, g, order[k]))
<1> DEFINE c == order[k]
           less == Fewer(g, c)
<1>1. /\ Clues(t, g, solution) /\ Ways(t, g) = {solution} /\ g \in Fillings(t) /\ c \in t.cells
      /\ \A i \in 1 .. k - 1 : Needed(t, g, solution, order[i])
  BY DEF Cut, Clues, Fillings
<1>2. \A i \in 1 .. k : i \in 1 .. k - 1 \/ order[i] = c
  OBVIOUS
<1>3. \A i \in 1 .. k : order[i] \in t.cells
  OBVIOUS
<1> HIDE DEF c
<1>4. less \in Fillings(t) /\ \A d \in t.cells : less[d] = IF d = c THEN 0 ELSE g[d]
  BY <1>1, WithoutFacts
<1>5. Clues(t, less, solution) /\ solution \in Ways(t, less)
  BY <1>1, <1>4, FewerClues, FilledIsWays
<1>6. CASE CountSolutions(t, less, 2) = 1
  <2>1. After(t, g, c) = less
    BY <1>6 DEF After
  <2>2. Ways(t, less) = {solution}
    BY <1>5, <1>6, CountsWays
  <2>3. ASSUME NEW d \in t.cells, Needed(t, g, solution, d) \/ d = c PROVE Needed(t, less, solution, d)
    <3>1. SUFFICES ASSUME less[d] # 0 PROVE Ways(t, Fewer(less, d)) # {solution}
      BY DEF Needed
    <3>2. d # c /\ g[d] # 0
      BY <1>4, <3>1
    <3>3. Ways(t, Fewer(g, d)) # {solution}
      BY <2>3, <3>2 DEF Needed
    <3>4. /\ Fewer(g, d) \in Fillings(t)
          /\ \A e \in t.cells : Fewer(g, d)[e] = IF e = d THEN 0 ELSE g[e]
      BY <1>1, WithoutFacts
    <3>5. /\ Fewer(less, d) \in Fillings(t)
          /\ \A e \in t.cells : Fewer(less, d)[e] = IF e = d THEN 0 ELSE less[e]
      BY <1>4, WithoutFacts
    <3> DEFINE x == Fewer(g, d)
               y == Fewer(less, d)
    <3> HIDE DEF x, y, less
    <3>6. Clues(t, x, solution)
      BY <1>1, <3>4, FewerClues DEF x
    <3>7. \A e \in t.cells : y[e] \in {0, x[e]}
      BY <1>4, <3>4, <3>5 DEF x, y
    <3>8. Ways(t, x) \subseteq Ways(t, y)
      BY <3>5, <3>6, <3>7, FewerClues DEF y
    <3>9. solution \in Ways(t, x)
      BY <3>6, FilledIsWays
    <3>10. QED
      BY <3>3, <3>8, <3>9 DEF x, y
  <2> HIDE DEF less
  <2>4. \A i \in 1 .. k : Needed(t, less, solution, order[i])
    BY <1>1, <1>2, <1>3, <2>3
  <2>5. QED
    BY <1>5, <2>1, <2>2, <2>4 DEF Cut, c
<1>7. CASE CountSolutions(t, less, 2) # 1
  <2>1. After(t, g, c) = g
    BY <1>7 DEF After
  <2>2. Needed(t, g, solution, c)
    BY <1>5, <1>7, CountsWays DEF Needed
  <2>3. \A i \in 1 .. k : Needed(t, g, solution, order[i])
    BY <1>1, <1>2, <2>2
  <2>4. QED
    BY <1>1, <2>1, <2>3 DEF Cut, c
<1>8. QED
  BY <1>6, <1>7

LEMMA MinimizedCuts ==
    ASSUME NEW t, Fitting(t), NEW solution \in Valid(t), NEW order \in Seq(t.cells)
    PROVE  Cut(t, solution, order, Len(order), Minimized(t, solution, order))
<1> DEFINE n == Len(order)
           step == [i \in 1 .. n |-> [puzzle \in Fillings(t) |-> After(t, puzzle, order[i])]]
           left == CHOOSE left : left = [i \in 0 .. n |->
                      IF i = 0 THEN solution ELSE After(t, left[i - 1], order[i])]
<1>1. n \in Nat /\ \A i \in 1 .. n : order[i] \in t.cells
  OBVIOUS
<1>2. solution \in Fillings(t)
  BY DEF Valid, Fillings, Fitting
<1> HIDE DEF n
<1>3. step \in [1 .. n -> [Fillings(t) -> Fillings(t)]]
  <2>1. \A i \in 1 .. n : \A puzzle \in Fillings(t) : After(t, puzzle, order[i]) \in Fillings(t)
    BY <1>1, WithoutFacts DEF After
  <2>2. QED
    BY <2>1
<1>4. PICK f \in [0 .. n -> Fillings(t)] : Steps(f, n, solution, step)
  <2> HIDE DEF step
  <2>1. QED
    BY <1>1, <1>2, <1>3, StepsExist
<1>5. \A i \in 1 .. n : f[i] = After(t, f[i - 1], order[i])
  <2> TAKE i \in 1 .. n
  <2>1. i - 1 \in 0 .. n
    BY <1>1
  <2>2. f[i - 1] \in Fillings(t)
    BY <1>4, <2>1
  <2>3. f[i] = step[i][f[i - 1]]
    <3> HIDE DEF step
    <3>1. QED
      BY <1>4 DEF Steps
  <2>4. QED
    BY <2>2, <2>3
<1> HIDE DEF step
<1>6. f = [i \in 0 .. n |-> IF i = 0 THEN solution ELSE After(t, f[i - 1], order[i])]
  BY <1>1, <1>4, <1>5 DEF Steps
<1>7. left = [i \in 0 .. n |-> IF i = 0 THEN solution ELSE After(t, left[i - 1], order[i])]
  BY <1>6
<1>8. Minimized(t, solution, order) = left[n]
  BY DEF Minimized, After, Fewer, n
<1> HIDE DEF left
<1> DEFINE T == {k \in 0 .. n : ~Cut(t, solution, order, k, left[k])}
<1>9. Cut(t, solution, order, 0, solution)
  <2>1. Clues(t, solution, solution)
    BY <1>2 DEF Clues, Fillings
  <2>2. \A c \in t.cells : solution[c] # 0
    BY DEF Valid, Fitting
  <2>3. Ways(t, solution) = {solution}
    BY <2>2 DEF Ways, Valid
  <2>4. QED
    BY <2>1, <2>3 DEF Cut
<1>10. T = {}
  <2>1. SUFFICES ASSUME T # {} PROVE FALSE
    OBVIOUS
  <2>2. T \subseteq Nat
    BY DEF T
  <2> HIDE DEF T
  <2>3. PICK k \in T : \A j \in T : k <= j
    BY <2>1, <2>2, Least
  <2>4. k \in 0 .. n /\ ~Cut(t, solution, order, k, left[k])
    BY DEF T
  <2>5. k # 0
    BY <1>7, <1>9, <2>4
  <2>6. k - 1 \in 0 .. n /\ k \in 1 .. n /\ ~(k <= k - 1)
    BY <1>1, <2>4, <2>5
  <2>7. Cut(t, solution, order, k - 1, left[k - 1])
    BY <2>3, <2>6 DEF T
  <2>8. left[k] = After(t, left[k - 1], order[k])
    BY <1>7, <2>6
  <2>9. QED
    BY <2>4, <2>6, <2>7, <2>8, CutsMore DEF n
<1>11. QED
  BY <1>1, <1>8, <1>10 DEF n

(* What minimize() leaves of a solution, in whatever order it goes through *)
(* all the cells, are clues of it that have no other solution and none of  *)
(* which can go ("a minimal, uniquely solvable" puzzle, puzzle.h).         *)
THEOREM MinimizedIsMinimal ==
    ASSUME NEW side, NEW boxes, Shaped(side, boxes), NEW solution \in Valid(Tables(side, boxes)),
           NEW order \in Seq(Tables(side, boxes).cells),
           \A c \in Tables(side, boxes).cells : \E i \in 1 .. Len(order) : order[i] = c
    PROVE  /\ Clues(Tables(side, boxes), Minimized(Tables(side, boxes), solution, order), solution)
           /\ Minimal(Tables(side, boxes), Minimized(Tables(side, boxes), solution, order))
<1> DEFINE t == Tables(side, boxes)
           g == Minimized(t, solution, order)
<1>1. Fitting(t)
  BY TablesFit
<1>2. \A c \in t.cells : \E i \in 1 .. Len(order) : order[i] = c
  OBVIOUS
<1>3. solution \in Valid(t) /\ order \in Seq(t.cells)
  OBVIOUS
<1> HIDE DEF t
<1>4. Cut(t, solution, order, Len(order), g)
  BY <1>1, <1>3, MinimizedCuts
<1> HIDE DEF g
<1>5. /\ Clues(t, g, solution) /\ Ways(t, g) = {solution} /\ g \in Fillings(t)
      /\ \A i \in 1 .. Len(order) : Needed(t, g, solution, order[i])
  BY <1>4 DEF Cut, Clues, Fillings
<1>6. CountSolutions(t, g, 2) = 1
  BY <1>1, <1>5, CountsWays
<1>7. ASSUME NEW c \in t.cells, g[c] # 0 PROVE CountSolutions(t, [g EXCEPT ![c] = 0], 2) = 2
  <2>1. Ways(t, Fewer(g, c)) # {solution}
    BY <1>2, <1>5, <1>7 DEF Needed
  <2>2. /\ Fewer(g, c) \in Fillings(t)
        /\ \A d \in t.cells : Fewer(g, c)[d] = IF d = c THEN 0 ELSE g[d]
    BY <1>1, <1>5, WithoutFacts
  <2> DEFINE h == Fewer(g, c)
  <2> HIDE DEF h
  <2>3. Clues(t, h, solution)
    BY <1>1, <1>5, <2>2, FewerClues DEF h
  <2>4. CountSolutions(t, h, 2) = 2
    BY <1>1, <2>1, <2>3, CountsWays DEF h
  <2>5. QED
    BY <2>4 DEF h, Fewer
<1>8. QED
  BY <1>5, <1>6, <1>7 DEF Minimal, t, g
===============================================================================
