------------------------------- MODULE Loops -------------------------------
(***************************************************************************)
(* What the proofs need to know of loops.  The loops of the code are       *)
(* functions on 0..N that say where the loop is after n rounds:            *)
(*   f[n \in 0..N] == IF n = 0 THEN start ELSE Round(f[n - 1], n).         *)
(* The lemmas have sets where the library's have operators: an invariant   *)
(* of a loop is the set of the rounds after which it holds, and a round is *)
(* a function, so that the provers can instantiate them.                   *)
(***************************************************************************)
EXTENDS Integers, FiniteSets, FiniteSetTheorems, WellFoundedInduction, TLAPS

\* Every set of natural numbers that is not empty has a least element.
Below == {pair \in Nat \X Nat : pair[1] < pair[2]}

LEMMA LeastElement ==
  ASSUME NEW T \in SUBSET Nat, T # {}
  PROVE  \E x \in T : \A y \in T : x <= y
<1>1. IsWellFoundedOn(Below, Nat)
  BY NatLessThanWellFounded DEF OpToRel, Below
<1>2. PICK x \in T : \A y \in T : ~(<<y, x>> \in Below)
  BY <1>1, WFMin
<1>3. \A y \in T : x \in Nat /\ y \in Nat /\ ~(y < x)
  BY <1>2 DEF Below
<1> QED BY <1>3

\* Induction: what holds before the first round and is kept by every round
\* holds after each of them.
LEMMA RoundInduction ==
  ASSUME NEW N \in Nat, NEW S,
         0 \in S,
         \A n \in 1..N : n - 1 \in S => n \in S
  PROVE  \A n \in 0..N : n \in S
<1> SUFFICES ASSUME NEW m \in 0..N, m \notin S PROVE FALSE
  OBVIOUS
<1> DEFINE T == {n \in 0..N : n \notin S}
<1>1. T \in SUBSET Nat /\ T # {}
  OBVIOUS
<1>2. PICK x \in T : \A y \in T : x <= y
  <2> HIDE DEF T
  <2> QED BY <1>1, LeastElement
<1>3. x \in 1..N /\ x - 1 \in 0..N
  BY <1>2
<1>4. x - 1 \in S
  BY <1>2, <1>3
<1> QED BY <1>2, <1>3, <1>4

\* A loop whose rounds stay in X has a state in X after every round.
LEMMA LoopExists ==
  ASSUME NEW X, NEW start \in X, NEW N \in Nat, NEW round \in [1..N -> [X -> X]]
  PROVE  \E g \in [0..N -> X] :
           g[0] = start /\ \A n \in 1..N : g[n] = round[n][g[n - 1]]
<1> DEFINE Runs(k, g) == g[0] = start /\ \A n \in 1..k : g[n] = round[n][g[n - 1]]
           S == {k \in Nat : \E g \in [0..k -> X] : Runs(k, g)}
<1>1. 0 \in S
  <2>1. [n \in 0..0 |-> start] \in [0..0 -> X]
    OBVIOUS
  <2>2. Runs(0, [n \in 0..0 |-> start])
    OBVIOUS
  <2> QED BY <2>1, <2>2
<1>2. ASSUME NEW m \in 1..N, m - 1 \in S
      PROVE  m \in S
  <2>1. PICK g \in [0..(m - 1) -> X] : Runs(m - 1, g)
    BY <1>2
  <2> DEFINE h == [n \in 0..m |-> IF n = m THEN round[m][g[m - 1]] ELSE g[n]]
  <2>2. m - 1 \in 0..(m - 1) /\ m \in Nat /\ m # 0
    BY <1>2
  <2>3. round[m][g[m - 1]] \in X
    BY <2>1, <2>2
  <2>4. h \in [0..m -> X]
    BY <2>1, <2>3
  <2>5. ASSUME NEW n \in 1..m
        PROVE  h[n] = round[n][h[n - 1]]
    <3>1. h[n - 1] = g[n - 1]
      OBVIOUS
    <3>2. CASE n = m
      BY <3>1, <3>2
    <3>3. CASE n # m
      <4>1. n \in 1..(m - 1)
        BY <3>3
      <4>2. h[n] = g[n]
        BY <3>3
      <4> QED BY <4>1, <4>2, <3>1, <2>1
    <3> QED BY <3>2, <3>3
  <2>6. h[0] = start
    BY <2>1, <2>2
  <2>7. Runs(m, h)
    BY <2>5, <2>6
  <2> QED BY <2>2, <2>4, <2>7
<1> HIDE DEF S
<1>3. \A n \in 0..N : n \in S
  BY <1>1, <1>2, RoundInduction
<1>4. N \in S
  BY <1>3
<1> QED BY <1>4 DEF S
=============================================================================
