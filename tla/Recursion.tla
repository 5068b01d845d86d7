----------------------------- MODULE Recursion ------------------------------
(***************************************************************************)
(* Induction and recursion over the naturals, with sets and functions in   *)
(* the place of predicates and operators: what the proofs about the loops  *)
(* of the code rest on.                                                    *)
(***************************************************************************)
EXTENDS Naturals, TLAPS, WellFoundedInduction

(* Induction is done with a least counterexample. *)
LEMMA LeastNat ==
  ASSUME NEW T, T \subseteq Nat, T # {}
  PROVE  \E x \in T : \A y \in T : ~(y < x)
<1>1. IsWellFoundedOn(OpToRel(<, Nat), Nat)
  BY Zenon, NatLessThanWellFounded
<1>2. PICK x \in T : \A y \in T : ~(<<y, x>> \in OpToRel(<, Nat))
  BY Zenon, <1>1, WFMin
<1>3. \A y \in T : ~(y < x)
  BY Zenon, <1>2 DEF OpToRel
<1>4. QED
  BY <1>3

(* What holds before the first turn and is kept by every turn holds after the last. *)
LEMMA EveryTurn ==
  ASSUME NEW n \in Nat, NEW P, 0 \in P, \A k \in 1..n : k - 1 \in P => k \in P
  PROVE  \A k \in 0..n : k \in P
<1>. DEFINE T == {k \in 0..n : k \notin P}
<1>1. ASSUME T # {}
      PROVE  FALSE
  <2>1. T \subseteq Nat
    OBVIOUS
  <2>2. PICK k \in T : \A j \in T : ~(j < k)
    BY Zenon, <1>1, <2>1, LeastNat
  <2>3. k # 0 /\ k \in 1..n /\ k - 1 \in 0..n
    BY <2>2
  <2>4. k - 1 \notin T
    BY <2>2, <2>3
  <2>5. QED
    BY <2>2, <2>3, <2>4
<1>2. QED
  BY <1>1

(***************************************************************************)
(* A loop of n turns, over states in S: state f[k] is the one after turn k.*)
(***************************************************************************)
IsLoop(f, n, a, step) == f = [k \in 0..n |-> IF k = 0 THEN a ELSE step[<<k, f[k - 1]>>]]

(* There is such a sequence of states. *)
LEMMA LoopExists ==
  ASSUME NEW n \in Nat, NEW S, NEW a \in S, NEW step \in [(1..n) \X S -> S]
  PROVE  \E f \in [0..n -> S] : IsLoop(f, n, a, step)
<1>. DEFINE P == {m \in 0..n : \E f \in [0..m -> S] : IsLoop(f, m, a, step)}
<1>1. 0 \in P
  <2>. DEFINE f == [k \in 0..0 |-> a]
  <2>1. f \in [0..0 -> S]
    OBVIOUS
  <2>2. f = [k \in 0..0 |-> f[k]] /\ \A k \in 0..0 : k = 0 /\ f[k] = a
    OBVIOUS
  <2>. HIDE DEF f
  <2>3. f = [k \in 0..0 |-> IF k = 0 THEN a ELSE step[<<k, f[k - 1]>>]]
    BY <2>2
  <2>4. 0 \in 0..n
    OBVIOUS
  <2>5. QED
    BY Zenon, <2>1, <2>3, <2>4 DEF IsLoop
<1>2. ASSUME NEW m \in 1..n, m - 1 \in P
      PROVE  m \in P
  <2>1. PICK f \in [0..(m - 1) -> S] : IsLoop(f, m - 1, a, step)
    BY Zenon, <1>2
  <2>. DEFINE g == [k \in 0..m |-> IF k < m THEN f[k] ELSE step[<<m, f[m - 1]>>]]
  <2>2. \A k \in 0..(m - 1) : f[k] \in S
    OBVIOUS
  <2>3. m - 1 \in 0..(m - 1) /\ <<m, f[m - 1]>> \in (1..n) \X S
    BY <2>2
  <2>4. g \in [0..m -> S]
    BY <2>2, <2>3
  <2>5. /\ g = [k \in 0..m |-> g[k]]
        /\ \A k \in 0..(m - 1) : g[k] = f[k]
        /\ g[m] = step[<<m, f[m - 1]>>]
    OBVIOUS
  <2>6. \A j \in 0..(m - 1) : f[j] = IF j = 0 THEN a ELSE step[<<j, f[j - 1]>>]
    BY Zenon, <2>1 DEF IsLoop
  <2>. HIDE DEF g
  <2>7. ASSUME NEW k \in 0..m
        PROVE  g[k] = IF k = 0 THEN a ELSE step[<<k, g[k - 1]>>]
    <3>1. CASE k = m
      <4>1. m # 0 /\ m - 1 \in 0..(m - 1)
        OBVIOUS
      <4>2. g[m - 1] = f[m - 1]
        BY Zenon, <2>5, <4>1
      <4>3. QED
        BY Zenon, <2>5, <3>1, <4>1, <4>2
    <3>2. CASE k # m
      <4>1. k \in 0..(m - 1) /\ (k # 0 => k - 1 \in 0..(m - 1))
        BY <3>2
      <4>2. g[k] = f[k] /\ (k # 0 => g[k - 1] = f[k - 1])
        BY Zenon, <2>5, <4>1
      <4>3. QED
        BY Zenon, <2>6, <4>1, <4>2
    <3>3. QED
      BY Zenon, <3>1, <3>2
  <2>8. g = [k \in 0..m |-> IF k = 0 THEN a ELSE step[<<k, g[k - 1]>>]]
    BY Zenon, <2>5, <2>7
  <2>9. m \in 0..n
    OBVIOUS
  <2>10. QED
    BY Zenon, <2>4, <2>8, <2>9 DEF IsLoop
<1>3. n \in P
  <2>. HIDE DEF P
  <2>1. \A k \in 0..n : k \in P
    BY <1>1, <1>2, EveryTurn
  <2>2. QED
    BY <2>1
<1>4. QED
  BY Zenon, <1>3
=============================================================================
