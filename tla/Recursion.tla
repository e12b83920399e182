----------------------------- MODULE Recursion -----------------------------
(***************************************************************************)
(* Induction over the natural numbers and functions defined by recursion   *)
(* on them, about sets: a claim is the set of the numbers it holds for,    *)
(* and a recursive definition is the function that makes its next value    *)
(* from the one before.                                                    *)
(***************************************************************************)
EXTENDS Integers, FiniteSetTheorems, WellFoundedInduction, TLAPS

(* A set of natural numbers has a least one: the intervals below its       *)
(* members are finite sets, and no chain of those goes down for ever.      *)
LEMMA Least ==
  ASSUME NEW T, T \subseteq Nat, T # {}
  PROVE  \E n \in T : \A m \in T : n <= m
<1> DEFINE U == {0..n : n \in T}
<1>1. IsWellFoundedOn(StrictSubsetOrdering(Nat), FiniteSubsetsOf(Nat))
  BY FS_StrictSubsetOrderingWellFounded
<1>2. U \subseteq FiniteSubsetsOf(Nat)
  <2>1. \A n \in Nat : IsFiniteSet(0..n)
    BY FS_Interval
  <2> QED BY <2>1 DEF FiniteSubsetsOf
<1>3. U # {}
  OBVIOUS
<1>4. PICK u \in U : \A y \in U : <<y, u>> \notin StrictSubsetOrdering(Nat)
  <2> HIDE DEF U
  <2> QED BY <1>1, <1>2, <1>3, WFMin
<1>5. PICK n \in T : u = 0..n
  OBVIOUS
<1>6. ASSUME NEW m \in T, ~(n <= m) PROVE FALSE
  <2>1. 0..m \in U
    OBVIOUS
  <2>2. 0..m \subseteq 0..n /\ n \in 0..n /\ n \notin 0..m /\ 0..n \subseteq Nat
    BY <1>6
  <2>3. <<0..m, u>> \in StrictSubsetOrdering(Nat)
    BY <1>5, <2>2 DEF StrictSubsetOrdering
  <2> QED BY <1>4, <2>1, <2>3
<1> QED BY <1>6

(* What holds of 0, and of n + 1 when of n, holds of every number.         *)
LEMMA Induct ==
  ASSUME NEW A, 0 \in A, \A n \in Nat : n \in A => n + 1 \in A
  PROVE  Nat \subseteq A
<1> DEFINE T == Nat \ A
<1>1. SUFFICES ASSUME T # {} PROVE FALSE
  OBVIOUS
<1>2. PICK n \in T : \A m \in T : n <= m
  <2>1. T \subseteq Nat
    OBVIOUS
  <2> HIDE DEF T
  <2> QED BY <1>1, <2>1, Least
<1>3. n # 0 /\ n - 1 \in Nat
  OBVIOUS
<1>4. n - 1 \notin T
  BY <1>2, <1>3
<1> QED BY <1>3, <1>4

-----------------------------------------------------------------------------
(* Functions by recursion.                                                 *)

\* g follows the recursion up to m.
Follows(g, m, base, step) ==
  g[0] = base /\ \A n \in Nat : n < m => g[n + 1] = step[<<n, g[n]>>]

LEMMA FollowsAlike ==
  ASSUME NEW base, NEW step, NEW m \in Nat, NEW g, NEW h,
         Follows(g, m, base, step), Follows(h, m, base, step)
  PROVE  \A n \in 0..m : g[n] = h[n]
<1> DEFINE A == {n \in Nat : n <= m => g[n] = h[n]}
<1>1. 0 \in A
  BY DEF Follows
<1>2. ASSUME NEW n \in Nat, n \in A PROVE n + 1 \in A
  <2>1. ASSUME n + 1 <= m PROVE g[n + 1] = h[n + 1]
    <3>1. n < m /\ g[n] = h[n]
      BY <1>2, <2>1
    <3> QED BY <3>1 DEF Follows
  <2> QED BY <2>1
<1>3. Nat \subseteq A
  <2> HIDE DEF A
  <2> QED BY <1>1, <1>2, Induct
<1> QED BY <1>3

(* The step stays in V.                                                    *)
StaysIn(V, step) == \A n \in Nat, v \in V : step[<<n, v>>] \in V

Recursive(f, V, base, step) ==
  f \in [Nat -> V] /\ f[0] = base /\ \A n \in Nat : f[n + 1] = step[<<n, f[n]>>]

(* A recursion defines a function.                                         *)
LEMMA RecursionDefines ==
  ASSUME NEW V, NEW base \in V, NEW step, StaysIn(V, step)
  PROVE  \E f : Recursive(f, V, base, step)
<1> DEFINE Part(m) == {g \in [0..m -> V] : Follows(g, m, base, step)}
           A == {m \in Nat : Part(m) # {}}
<1>1. 0 \in A
  <2> DEFINE g == [n \in 0..0 |-> base]
  <2>1. g \in [0..0 -> V] /\ g[0] = base
    OBVIOUS
  <2>2. Follows(g, 0, base, step)
    BY <2>1 DEF Follows
  <2> QED BY <2>1, <2>2
<1>2. ASSUME NEW m \in Nat, m \in A PROVE m + 1 \in A
  <2>1. PICK g \in [0..m -> V] : Follows(g, m, base, step)
    BY <1>2
  <2> DEFINE h == [n \in 0..(m + 1) |-> IF n <= m THEN g[n] ELSE step[<<m, g[m]>>]]
  <2>0. step[<<m, g[m]>>] \in V
    BY DEF StaysIn
  <2>2. h \in [0..(m + 1) -> V] /\ (\A n \in 0..m : h[n] = g[n]) /\ h[m + 1] = step[<<m, g[m]>>]
    BY <2>0
  <2> HIDE DEF h
  <2>3. Follows(h, m + 1, base, step)
    <3>1. h[0] = base
      BY <2>1, <2>2 DEF Follows
    <3>2. ASSUME NEW n \in Nat, n < m + 1 PROVE h[n + 1] = step[<<n, h[n]>>]
      <4>1. CASE n = m
        BY <2>2, <4>1
      <4>2. CASE n < m
        <5>1. n \in 0..m /\ n + 1 \in 0..m
          BY <4>2
        <5> QED BY <2>1, <2>2, <4>2, <5>1 DEF Follows
      <4> QED BY <3>2, <4>1, <4>2
    <3> QED BY <3>1, <3>2 DEF Follows
  <2> QED BY <2>2, <2>3
<1>3. Nat \subseteq A
  <2> HIDE DEF A
  <2> QED BY <1>1, <1>2, Induct
<1> DEFINE part == [m \in Nat |-> CHOOSE g \in [0..m -> V] : Follows(g, m, base, step)]
           f == [n \in Nat |-> part[n][n]]
<1>4. \A m \in Nat : part[m] \in [0..m -> V] /\ Follows(part[m], m, base, step)
  BY <1>3
<1> HIDE DEF part, A, Part
<1>5. f \in [Nat -> V]
  BY <1>4
<1>6. \A n \in Nat : f[n] = part[n][n]
  OBVIOUS
<1> HIDE DEF f
<1>7. f[0] = base
  BY <1>4, <1>6 DEF Follows
<1>8. ASSUME NEW n \in Nat PROVE f[n + 1] = step[<<n, f[n]>>]
  <2>1. Follows(part[n], n, base, step) /\ Follows(part[n + 1], n + 1, base, step)
    BY <1>4
  <2>2. Follows(part[n + 1], n, base, step)
    BY <2>1 DEF Follows
  <2>3. part[n][n] = part[n + 1][n]
    <3>1. \A i \in 0..n : part[n][i] = part[n + 1][i]
      BY <2>1, <2>2, FollowsAlike
    <3> QED BY <3>1
  <2>4. part[n + 1][n + 1] = step[<<n, part[n + 1][n]>>]
    BY <2>1 DEF Follows
  <2> QED BY <1>6, <2>3, <2>4
<1> QED BY <1>5, <1>7, <1>8 DEF Recursive
=============================================================================
