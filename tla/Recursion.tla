----------------------------- MODULE Recursion -----------------------------
(***************************************************************************)
(* Induction and recursion over the natural numbers, in a form that needs  *)
(* no operator as a parameter: over sets, and with functions as steps.     *)
(* A recursive function of a module, f[n \in 0 .. N] == ..., equals its    *)
(* defining expression because a function that does exists.                *)
(***************************************************************************)
EXTENDS Integers, WellFoundedInduction, TLAPS

(* A nonempty set of numbers up to a bound has a largest element.          *)
LEMMA Largest ==
  ASSUME NEW n \in Nat, NEW S \in SUBSET (0 .. n), S # {}
  PROVE  \E m \in S : \A s \in S : s <= m
<1> DEFINE T == {n - s : s \in S}
<1>1. T \subseteq Nat
  <2>1. ASSUME NEW s \in S PROVE n - s \in Nat
    <3>1. s \in 0 .. n
      OBVIOUS
    <3> QED
      BY ONLY n \in Nat, <3>1, SMT
  <2> QED
    BY <2>1
<1>2. T # {}
  OBVIOUS
<1>3. IsWellFoundedOn(OpToRel(<, Nat), Nat)
  BY NatLessThanWellFounded
<1> HIDE DEF T
<1>4. PICK t \in T : \A u \in T : ~(<<u, t>> \in OpToRel(<, Nat))
  BY <1>1, <1>2, <1>3, WFMin, Zenon
<1>5. \A u \in T : ~(u < t)
  BY <1>1, <1>4 DEF OpToRel
<1>6. PICK m \in S : t = n - m
  BY DEF T
<1>7. ASSUME NEW s \in S PROVE s <= m
  <2>1. n - s \in T
    BY DEF T
  <2>2. ~(n - s < n - m)
    BY <1>5, <1>6, <2>1
  <2>3. s \in Int /\ m \in Int
    OBVIOUS
  <2> QED
    BY ONLY n \in Nat, <2>2, <2>3, SMT
<1> QED
  BY <1>7

(* ... and a smallest one.                                                 *)
LEMMA Smallest ==
  ASSUME NEW S \in SUBSET Nat, S # {}
  PROVE  \E m \in S : \A s \in S : m <= s
<1>1. IsWellFoundedOn(OpToRel(<, Nat), Nat)
  BY NatLessThanWellFounded
<1>2. PICK m \in S : \A u \in S : ~(<<u, m>> \in OpToRel(<, Nat))
  BY <1>1, WFMin, Zenon
<1>3. \A u \in S : ~(u < m)
  BY <1>2 DEF OpToRel
<1> QED
  BY <1>3

(* A set with 0 and with every number's successor has all numbers.         *)
LEMMA SetInduction ==
  ASSUME NEW S, 0 \in S, \A n \in Nat : n \in S => n + 1 \in S
  PROVE  Nat \subseteq S
<1> DEFINE T == {n \in Nat : n \notin S}
<1> SUFFICES ASSUME T # {} PROVE FALSE
  OBVIOUS
<1>1. IsWellFoundedOn(OpToRel(<, Nat), Nat)
  BY NatLessThanWellFounded
<1>2. PICK m \in T : \A u \in T : ~(<<u, m>> \in OpToRel(<, Nat))
  <2> HIDE DEF T
  <2>1. T \subseteq Nat
    BY DEF T
  <2> QED
    BY <1>1, <2>1, WFMin, Zenon
<1>3. \A u \in T : ~(u < m)
  BY <1>2 DEF OpToRel
<1>4. m # 0
  OBVIOUS
<1>5. m - 1 \in Nat
  BY <1>4
<1>6. m - 1 \in S
  BY <1>3, <1>5
<1> QED
  BY <1>5, <1>6

(* The functions on 0 .. N that start with base and go on by step.         *)
Steps(N, V) == [1 .. N -> [V -> V]]
Runs(N, V, base, step) ==
  {f \in [0 .. N -> V] : f[0] = base /\ \A n \in 1 .. N : f[n] = step[n][f[n - 1]]}

(* A base and steps define a function.                                     *)
LEMMA ByRecursion ==
  ASSUME NEW N \in Nat, NEW V, NEW base \in V, NEW step \in Steps(N, V)
  PROVE  Runs(N, V, base, step) # {}
<1> DEFINE Upto(n, f) == f[0] = base /\ \A k \in 1 .. n : f[k] = step[k][f[k - 1]]
           S == {n \in Nat : n <= N => \E f \in [0 .. n -> V] : Upto(n, f)}
<1>1. 0 \in S
  <2>1. [k \in 0 .. 0 |-> base] \in [0 .. 0 -> V]
    OBVIOUS
  <2>2. Upto(0, [k \in 0 .. 0 |-> base])
    OBVIOUS
  <2> QED
    BY <2>1, <2>2
<1>2. ASSUME NEW n \in Nat, n \in S
      PROVE  n + 1 \in S
  <2> SUFFICES ASSUME n + 1 <= N
               PROVE  \E f \in [0 .. n + 1 -> V] : Upto(n + 1, f)
    OBVIOUS
  <2>1. PICK f \in [0 .. n -> V] : Upto(n, f)
    BY <1>2
  <2>2. f[n] \in V /\ n + 1 \in 1 .. N
    OBVIOUS
  <2> DEFINE last == step[n + 1][f[n]]
             g == [k \in 0 .. n + 1 |-> IF k = n + 1 THEN last ELSE f[k]]
  <2>3. last \in V
    BY <2>2 DEF Steps
  <2>4. g \in [0 .. n + 1 -> V]
    <3> HIDE DEF last
    <3>1. ASSUME NEW k \in 0 .. n + 1 PROVE (IF k = n + 1 THEN last ELSE f[k]) \in V
      BY <2>3
    <3> QED
      BY <3>1
  <2>5. g[0] = base
    BY <2>1
  <2>6. ASSUME NEW k \in 1 .. n + 1 PROVE g[k] = step[k][g[k - 1]]
    <3>1. CASE k = n + 1
      <4>1. g[k] = last
        BY <3>1
      <4>2. g[k - 1] = f[n]
        BY <3>1
      <4> QED
        BY <3>1, <4>1, <4>2
    <3>2. CASE k # n + 1
      <4>1. k \in 1 .. n /\ k - 1 \in 0 .. n
        BY <3>2
      <4>2. g[k] = f[k] /\ g[k - 1] = f[k - 1]
        BY <3>2, <4>1
      <4> QED
        BY <2>1, <4>1, <4>2
    <3> QED
      BY <3>1, <3>2
  <2>7. Upto(n + 1, g)
    <3> HIDE DEF g
    <3> QED
      BY <2>5, <2>6
  <2> QED
    BY <2>4, <2>7
<1>3. N \in S
  <2> HIDE DEF S
  <2> QED
    BY <1>1, <1>2, SetInduction
<1> QED
  BY <1>3 DEF Runs
============================================================================
