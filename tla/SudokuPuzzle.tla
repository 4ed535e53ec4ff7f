---------------------------- MODULE SudokuPuzzle ----------------------------
(***************************************************************************)
(* How a puzzle is made and rated (sudoku/puzzle.cc), as operators on the  *)
(* tables `t' of a board of any size: the search for solutions, the        *)
(* removal of clues, and the solver that deduces as people do.  The seed   *)
(* is left open: a solution and an order of cells stand for it.  Where     *)
(* several deductions of one technique are there, any of them may be the   *)
(* first that the code finds.                                              *)
(***************************************************************************)
EXTENDS Integers, Sequences, FiniteSets

\* make_tables()
Tables(side, boxes) ==
    LET cells == 0 .. side * side - 1
        rows == {{row * side + i : i \in 0 .. side - 1} : row \in 0 .. side - 1}
        columns == {{i * side + column : i \in 0 .. side - 1} : column \in 0 .. side - 1}
        units == rows \cup columns \cup boxes
    IN [side |-> side, cells |-> cells, digits |-> 1 .. side,
        rows |-> rows, columns |-> columns, boxes |-> boxes, units |-> units,
        peers |-> [c \in cells |-> (UNION {unit \in units : c \in unit}) \ {c}]]
Blank(t) == [c \in t.cells |-> 0]
-------------------------------------------------------------------------------
(* The search, and puzzles with a single solution.                         *)

Fits(t, grid, c) == t.digits \ {grid[p] : p \in t.peers[c]}

\* load()
Loads(t, grid) == \A c \in t.cells : grid[c] # 0 => grid[c] \in Fits(t, grid, c)

\* search(): every way to fill the most constrained cell first.
Completions(t, grid) ==
    LET search[g \in [t.cells -> 0 .. t.side]] ==
            LET empty == {c \in t.cells : g[c] = 0}
                best == CHOOSE c \in empty : \A d \in empty :
                            Cardinality(Fits(t, g, c)) <= Cardinality(Fits(t, g, d))
            IN IF empty = {} THEN {g}
               ELSE UNION {search[[g EXCEPT ![best] = digit]] : digit \in Fits(t, g, best)}
    IN search[grid]

\* count_solutions()
CountSolutions(t, grid, limit) ==
    LET count == IF Loads(t, grid) THEN Cardinality(Completions(t, grid)) ELSE 0
    IN IF count < limit THEN count ELSE limit

\* minimize(): the clues that the solution stays unique without, in this order.
Minimized(t, solution, order) ==
    LET left[i \in 0 .. Len(order)] ==
            IF i = 0 THEN solution
            ELSE LET puzzle == left[i - 1]
                     less == [puzzle EXCEPT ![order[i]] = 0]
                 IN IF CountSolutions(t, less, 2) = 1 THEN less ELSE puzzle
    IN left[Len(order)]
-------------------------------------------------------------------------------
(* The solver's state, Logic: values, candidates, the known solution, and  *)
(* whether each deduction agreed with it.                                  *)

Where(s, cells, digit) == {c \in cells : digit \in s.candidates[c]}
Marks(s, cells, digits) == {mark \in cells \X digits : mark[2] \in s.candidates[mark[1]]}

\* place()
Place(t, s, cell, digit) ==
    [s EXCEPT !.values[cell] = digit,
              !.candidates = [c \in t.cells |-> IF c = cell THEN {}
                                                ELSE IF c \in t.peers[cell] THEN @[c] \ {digit} ELSE @[c]],
              !.consistent = @ /\ s.reference[cell] = digit]

\* eliminate(), of a set of marks.
Eliminate(s, marks) ==
    [s EXCEPT !.candidates = [c \in DOMAIN @ |-> {digit \in @[c] : <<c, digit>> \notin marks}],
              !.consistent = @ /\ \A mark \in marks : s.reference[mark[1]] # mark[2]]

NakedSingles(t, s) ==
    {Place(t, s, c, CHOOSE digit \in s.candidates[c] : TRUE) :
        c \in {c \in t.cells : Cardinality(s.candidates[c]) = 1}}
HiddenSingles(t, s) ==
    {Place(t, s, mark[1], mark[2]) : mark \in
        {mark \in t.cells \X t.digits :
            \E unit \in t.units : Where(s, unit, mark[2]) = {mark[1]}}}

\* "Pointing ... Claiming": what a technique eliminates, for each place it applies to.
LockedCandidates(t, s) ==
    LET lines == t.rows \cup t.columns
        locked == {x \in ((t.boxes \X lines) \cup (lines \X t.boxes)) \X t.digits :
                      LET at == Where(s, x[1][1], x[2]) IN at # {} /\ at \subseteq x[1][2]}
    IN {Marks(s, x[1][2] \ x[1][1], {x[2]}) : x \in locked}

Sizes2To4(set) == {part \in SUBSET set : Cardinality(part) \in 2 .. 4}

NakedSubsets(t, s) ==
    UNION {{Marks(s, unit \ cells, UNION {s.candidates[c] : c \in cells}) :
               cells \in {cells \in Sizes2To4(unit) :
                   /\ \A c \in cells : s.candidates[c] # {}
                   /\ Cardinality(UNION {s.candidates[c] : c \in cells}) = Cardinality(cells)}} :
           unit \in t.units}
HiddenSubsets(t, s) ==
    UNION {{Marks(s, UNION {Where(s, unit, d) : d \in digits}, t.digits \ digits) :
               digits \in {digits \in Sizes2To4(t.digits) :
                   /\ \A d \in digits : Where(s, unit, d) # {}
                   /\ Cardinality(UNION {Where(s, unit, d) : d \in digits}) = Cardinality(digits)}} :
           unit \in t.units}

\* "X-wing, swordfish, and jellyfish in rows and columns"
FishIn(s, lines, crossing, digit) ==
    LET Cover(some) == {line \in crossing : \E l \in some : Where(s, l \cap line, digit) # {}}
    IN {Marks(s, (UNION Cover(some)) \ (UNION some), {digit}) :
           some \in {some \in Sizes2To4(lines) :
               /\ \A line \in some : Where(s, line, digit) # {}
               /\ Cardinality(Cover(some)) = Cardinality(some)}}
Fish(t, s) == UNION {FishIn(s, t.rows, t.columns, digit) \cup FishIn(s, t.columns, t.rows, digit) :
                     digit \in t.digits}

Pairs(t, s, pivot, size) ==
    IF Cardinality(s.candidates[pivot]) # size THEN {}
    ELSE {x \in t.peers[pivot] \X t.peers[pivot] :
             x[1] # x[2] /\ \A i \in 1 .. 2 : Cardinality(s.candidates[x[i]]) = 2}

XyWing(t, s) ==
    UNION {{Marks(s, t.peers[x[1]] \cap t.peers[x[2]], s.candidates[x[1]] \ s.candidates[pivot]) :
               x \in {x \in Pairs(t, s, pivot, 2) :
                   LET pair == s.candidates[pivot]
                       first == s.candidates[x[1]]
                   IN /\ Cardinality(first \cap pair) = 1
                      /\ s.candidates[x[2]] = (pair \ first) \cup (first \ pair)}} :
           pivot \in t.cells}

\* Mutant of XyzWing: the pivot need not see what is eliminated.
XyzWingBlind(t, s) ==
    UNION {{Marks(s, t.peers[x[1]] \cap t.peers[x[2]], s.candidates[x[1]] \cap s.candidates[x[2]]) :
               x \in {x \in Pairs(t, s, pivot, 3) :
                   /\ s.candidates[x[1]] # s.candidates[x[2]]
                   /\ s.candidates[x[1]] \cup s.candidates[x[2]] = s.candidates[pivot]}} :
           pivot \in t.cells}

XyzWing(t, s) ==
    UNION {{Marks(s, t.peers[pivot] \cap t.peers[x[1]] \cap t.peers[x[2]],
                  s.candidates[x[1]] \cap s.candidates[x[2]]) :
               x \in {x \in Pairs(t, s, pivot, 3) :
                   /\ s.candidates[x[1]] # s.candidates[x[2]]
                   /\ s.candidates[x[1]] \cup s.candidates[x[2]] = s.candidates[pivot]}} :
           pivot \in t.cells}

\* kMaximumChainLinks
MaximumChainLinks == 12

\* What a candidate that is false forces true, and one that is true forces false.
Strong(t, s, mark) ==
    (IF Cardinality(s.candidates[mark[1]]) = 2
       THEN {mark[1]} \X (s.candidates[mark[1]] \ {mark[2]}) ELSE {})
    \cup UNION {(Where(s, unit, mark[2]) \ {mark[1]}) \X {mark[2]} :
                   unit \in {unit \in t.units :
                       mark[1] \in unit /\ Cardinality(Where(s, unit, mark[2])) = 2}}
Weak(t, s, mark) ==
    Marks(s, t.peers[mark[1]], {mark[2]}) \cup Marks(s, {mark[1]}, t.digits \ {mark[2]})

\* The search of chains() from one candidate that is assumed false.
Forced(t, s, start) ==
    LET within[links \in 0 .. MaximumChainLinks] ==
            IF links = 0 THEN [off |-> {start}, on |-> {}]
            ELSE LET near == within[links - 1]
                 IN [off |-> near.off \cup UNION {Weak(t, s, mark) : mark \in near.on},
                     on |-> near.on \cup UNION {Strong(t, s, mark) : mark \in near.off}]
    IN within[MaximumChainLinks]

\* A start that is forced true is placed, else what is false either way goes.
ChainFrom(t, s, start) ==
    LET forced == Forced(t, s, start)
    IN IF start \in forced.on THEN Place(t, s, start[1], start[2])
       ELSE Eliminate(s, forced.off \cap Weak(t, s, start))
Chains(t, s) ==
    {ChainFrom(t, s, start) : start \in Marks(s, t.cells, t.digits)} \ {s}

\* The techniques, from the easiest level to the hardest.
Deductions(t, s, level) ==
    LET Cleared(places) == {Eliminate(s, marks) : marks \in places \ {{}}}
    IN CASE level = 1 -> IF NakedSingles(t, s) # {} THEN NakedSingles(t, s) ELSE HiddenSingles(t, s)
         [] level = 2 -> Cleared(LockedCandidates(t, s))
         [] level = 3 -> Cleared(NakedSubsets(t, s) \cup HiddenSubsets(t, s))
         [] level = 4 -> Cleared(Fish(t, s) \cup XyWing(t, s) \cup XyzWing(t, s))
         [] level = 5 -> Chains(t, s)
-------------------------------------------------------------------------------
(* Rating and generating.                                                  *)

\* The state that rate() starts from, with every clue placed.
Clued(t, givens, reference) ==
    [values |-> givens, reference |-> reference, 
     consistent |-> \A c \in t.cells : givens[c] \in {0, reference[c]},
     candidates |-> [c \in t.cells |-> IF givens[c] = 0 THEN Fits(t, givens, c) ELSE {}]]

\* rate()'s loop; each deduction places a digit or removes a mark.
Unrated == [solved |-> FALSE, level |-> 0, chains |-> 0]
Rate(t, givens, reference) ==
    LET most == t.side * t.side * t.side
        after[n \in 0 .. most] ==
            IF n = 0 THEN [state |-> Clued(t, givens, reference), rating |-> Unrated]
            ELSE LET before == after[n - 1]
                     s == before.state
                     open == {c \in t.cells : s.values[c] = 0}
                     Progress(level) == Deductions(t, s, level) # {}
                     easiest == CHOOSE level \in 1 .. 5 :
                                    Progress(level) /\ \A easier \in 1 .. level - 1 : ~Progress(easier)
                 IN IF open = {} THEN [before EXCEPT !.rating.solved = TRUE]
                    ELSE IF \/ \E c \in open : s.candidates[c] = {}
                            \/ \A level \in 1 .. 5 : ~Progress(level) THEN before
                    ELSE [state |-> CHOOSE next \in Deductions(t, s, easiest) : TRUE,
                          rating |-> [before.rating EXCEPT
                              !.level = IF easiest > @ THEN easiest ELSE @,
                              !.chains = IF easiest = 5 THEN @ + 1 ELSE @]]
    IN IF Loads(t, givens) THEN after[most].rating ELSE Unrated

\* is_extreme(), where the code has 5 and 4.
Extreme(rating, level, chains) == rating.solved /\ rating.level = level /\ rating.chains >= chains

\* random_solution()
Solutions(t) == Completions(t, Blank(t))

\* generate_puzzle(), from these solutions and orders of cells.
Generated(t, solutions, orders, level, chains) ==
    {puzzle \in {[givens |-> Minimized(t, solution, order), solution |-> solution] :
                    solution \in solutions, order \in orders} :
        Extreme(Rate(t, puzzle.givens, puzzle.solution), level, chains)}
-------------------------------------------------------------------------------
(* What is checked of them on bounded inputs.                              *)

\* The marks include the known solution's, and no deduction disagrees with it.
Sound(t, s, level) == \A next \in Deductions(t, s, level) : next.consistent

\* "a minimal, uniquely solvable" puzzle.
Minimal(t, givens) ==
    /\ CountSolutions(t, givens, 2) = 1
    /\ \A c \in t.cells : givens[c] # 0 => CountSolutions(t, [givens EXCEPT ![c] = 0], 2) = 2
===============================================================================
