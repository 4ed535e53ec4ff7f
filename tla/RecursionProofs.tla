---------------------------- MODULE RecursionProofs ----------------------------
(***************************************************************************)
(* What the other proof modules need of recursion over the naturals, as a  *)
(* recursive function computes it step by step.                            *)
(***************************************************************************)
EXTENDS Integers, WellFoundedInduction, TLAPS

(* A set of naturals has a least one, which is what the proofs by          *)
(* induction below rest on.                                                *)
LEMMA Least ==
    ASSUME NEW T, T \subseteq Nat, T # {}
    PROVE  \E x \in T : \A y \in T : x <= y
<1> DEFINE R == OpToRel(<, Nat)
<1>1. \A x, y \in Nat : <<x, y>> \in R <=> x < y
  BY DEF OpToRel
<1>2. IsWellFoundedOn(R, Nat)
  BY NatLessThanWellFounded
<1> HIDE DEF R
<1>3. PICK x \in T : \A y \in T : ~(<<y, x>> \in R)
  BY <1>2, WFMin
<1>4. \A y \in T : x \in Nat /\ y \in Nat /\ ~(y < x)
  BY <1>1, <1>3
<1>5. \A y \in T : x <= y
  BY <1>4
<1>6. QED
  BY <1>5

(* A step that stays in S, taken n times from a member of S.               *)
Steps(f, n, first, step) ==
    /\ f[0] = first
    /\ \A i \in 1 .. n : f[i] = step[i][f[i - 1]]

LEMMA StepsExist ==
    ASSUME NEW n \in Nat, NEW S, NEW first \in S, NEW step \in [1 .. n -> [S -> S]]
    PROVE  \E f \in [0 .. n -> S] : Steps(f, n, first, step)
<1> DEFINE T == {k \in 0 .. n : ~ \E f \in [0 .. k -> S] : Steps(f, k, first, step)}
<1>1. SUFFICES ASSUME T # {} PROVE FALSE
  BY DEF T
<1>11. T \subseteq Nat
  BY DEF T
<1> HIDE DEF T
<1>2. PICK k \in T : \A j \in T : k <= j
  BY <1>1, <1>11, Least
<1> USE DEF T
<1>3. k \in 0 .. n /\ ~ \E f \in [0 .. k -> S] : Steps(f, k, first, step)
  OBVIOUS
<1>4. k # 0
  <2> DEFINE f == [i \in 0 .. 0 |-> first]
  <2>1. f \in [0 .. 0 -> S] /\ Steps(f, 0, first, step)
    BY DEF Steps
  <2>2. QED
    BY <1>3, <2>1
<1>5. k - 1 \in 0 .. n /\ k - 1 \notin T
  BY <1>2, <1>3, <1>4
<1>6. PICK g \in [0 .. k - 1 -> S] : Steps(g, k - 1, first, step)
  BY <1>5
<1> DEFINE f == [i \in 0 .. k |-> IF i = k THEN step[k][g[k - 1]] ELSE g[i]]
<1>7. k \in 1 .. n /\ g[k - 1] \in S /\ step[k][g[k - 1]] \in S
  BY <1>3, <1>4, <1>6
<1>8. f \in [0 .. k -> S]
  BY <1>6, <1>7
<1>9. Steps(f, k, first, step)
  <2>1. f[0] = first
    BY <1>6, <1>7 DEF Steps
  <2>2. ASSUME NEW i \in 1 .. k PROVE f[i] = step[i][f[i - 1]]
    <3>1. CASE i = k
      BY <1>7, <3>1
    <3>2. CASE i # k
      <4>1. i \in 1 .. k - 1 /\ i - 1 \in 0 .. k - 1 /\ i - 1 # k /\ i \in 0 .. k /\ i - 1 \in 0 .. k
        BY <1>7, <3>2
      <4>2. f[i] = g[i] /\ f[i - 1] = g[i - 1]
        BY <3>2, <4>1
      <4>3. QED
        BY <1>6, <4>1, <4>2 DEF Steps
    <3>3. QED
      BY <3>1, <3>2
  <2> HIDE DEF f
  <2>3. QED
    BY <2>1, <2>2 DEF Steps
<1>10. QED
  BY <1>3, <1>8, <1>9
================================================================================
