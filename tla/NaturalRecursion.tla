--------------------------- MODULE NaturalRecursion ---------------------------
(***************************************************************************)
(* What the proofs about the components use of natural numbers.            *)
(***************************************************************************)
EXTENDS Integers, FiniteSets, FiniteSetTheorems, WellFoundedInduction, TLAPS

(* Natural numbers: a set of them has a least element, and what holds of a *)
(* first element and is handed on holds of all.                            *)

LEMMA Least ==
  ASSUME NEW T \in SUBSET Nat, T # {}
  PROVE  \E m \in T : \A n \in T : m <= n
<1> DEFINE F == {0 .. n : n \in T}
<1>1. \A n \in T : 0 .. n \in FiniteSubsetsOf(Nat)
  <2>1. \A n \in T : 0 .. n \in SUBSET Nat /\ IsFiniteSet(0 .. n)
        BY FS_Interval
  <2> QED BY <2>1 DEF FiniteSubsetsOf
<1>2. F \subseteq FiniteSubsetsOf(Nat) /\ F # {}
      BY <1>1
<1>3. IsWellFoundedOn(StrictSubsetOrdering(Nat), FiniteSubsetsOf(Nat))
      BY FS_StrictSubsetOrderingWellFounded
<1> HIDE DEF F
<1>4. \E x \in F : \A y \in F : ~(<<y, x>> \in StrictSubsetOrdering(Nat))
      BY <1>2, <1>3, WFMin
<1> USE DEF F
<1>5. PICK m \in T : \A y \in F : ~(<<y, 0 .. m>> \in StrictSubsetOrdering(Nat))
      BY <1>4
<1>6. ASSUME NEW n \in T, n < m PROVE FALSE
  <2>1. 0 .. n \in F /\ 0 .. n \subseteq 0 .. m /\ 0 .. n # 0 .. m
    <3>1. m \in 0 .. m /\ m \notin 0 .. n
          BY <1>6
    <3> QED BY <1>6, <3>1
  <2>2. 0 .. n \in SUBSET Nat /\ 0 .. m \in SUBSET Nat
        OBVIOUS
  <2> QED BY <1>5, <2>1, <2>2 DEF StrictSubsetOrdering
<1> QED BY <1>6

LEMMA Induction ==
  ASSUME NEW T, 0 \in T, \A n \in Nat : n \in T => n + 1 \in T
  PROVE  Nat \subseteq T
<1> SUFFICES ASSUME Nat \ T # {} PROVE FALSE
    OBVIOUS
<1>1. PICK m \in Nat \ T : \A n \in Nat \ T : m <= n
      BY Least
<1>2. m - 1 \in Nat /\ m - 1 \in T
      BY <1>1
<1> QED BY <1>2

\* A function is defined by its first value and each next one.
Iterates(f, V, first, N, step) ==
  f \in [0 .. N -> V] /\ f[0] = first /\ \A n \in 1 .. N : f[n] = step[<<n, f[n - 1]>>]

LEMMA Recursion ==
  ASSUME NEW V, NEW first \in V, NEW N \in Nat, NEW step \in [(1 .. N) \X V -> V]
  PROVE  \E f : Iterates(f, V, first, N, step)
<1> DEFINE Is(f, m) == f[0] = first /\ \A n \in 1 .. m : f[n] = step[<<n, f[n - 1]>>]
           T == {m \in Nat : m <= N => \E f \in [0 .. m -> V] : Is(f, m)}
<1>1. 0 \in T
  <2> DEFINE f == [n \in 0 .. 0 |-> first]
  <2>1. f \in [0 .. 0 -> V] /\ Is(f, 0)
        OBVIOUS
  <2> QED BY <2>1
<1>2. ASSUME NEW m \in Nat, m \in T PROVE m + 1 \in T
  <2> SUFFICES ASSUME m + 1 <= N PROVE \E f \in [0 .. m + 1 -> V] : Is(f, m + 1)
      OBVIOUS
  <2>1. PICK f \in [0 .. m -> V] : Is(f, m)
        BY <1>2
  <2> DEFINE last == step[<<m + 1, f[m]>>]
             g == [n \in 0 .. m + 1 |-> IF n <= m THEN f[n] ELSE last]
  <2>2. last \in V
    <3>1. <<m + 1, f[m]>> \in (1 .. N) \X V
          OBVIOUS
    <3> QED BY <3>1
  <2> HIDE DEF last
  <2>3. g \in [0 .. m + 1 -> V]
        BY <2>2
  <2>4. \A n \in 0 .. m : g[n] = f[n]
        OBVIOUS
  <2>5. g[m + 1] = last
        OBVIOUS
  <2> HIDE DEF g
  <2>6. ASSUME NEW n \in 1 .. m + 1 PROVE g[n] = step[<<n, g[n - 1]>>]
    <3>1. CASE n <= m
      <4>1. n \in 1 .. m /\ n \in 0 .. m /\ n - 1 \in 0 .. m
            BY <3>1
      <4> QED BY <2>1, <2>4, <4>1
    <3>2. CASE n = m + 1
          BY <2>4, <2>5, <3>2 DEF last
    <3> QED BY <3>1, <3>2
  <2>7. Is(g, m + 1)
        BY <2>1, <2>4, <2>6
  <2> QED BY <2>3, <2>7
<1> HIDE DEF T
<1>3. N \in T
      BY <1>1, <1>2, Induction
<1>4. \E f \in [0 .. N -> V] : Is(f, N)
      BY <1>3 DEF T
<1> QED BY <1>4 DEF Iterates
===============================================================================
