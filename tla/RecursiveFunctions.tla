------------------------- MODULE RecursiveFunctions -------------------------
(***************************************************************************)
(* What the proofs about the ledger and the jobs need of functions defined *)
(* by recursion over a list: that they exist, and that what every step     *)
(* keeps is kept to the end.  It rests on the order of the natural         *)
(* numbers being well-founded.                                             *)
(***************************************************************************)
EXTENDS Integers, TLAPS, WellFoundedInduction

\* Induction over the natural numbers, of a set of them.
LEMMA Inductive ==
    ASSUME NEW T, 0 \in T, \A n \in Nat : n \in T => n + 1 \in T
    PROVE  Nat \subseteq T
<1> DEFINE Missing == Nat \ T
           R == OpToRel(<, Nat)
<1> SUFFICES ASSUME Missing # {}
             PROVE  FALSE
  OBVIOUS
<1>1. IsWellFoundedOn(R, Nat)
  BY NatLessThanWellFounded
<1>2. Missing \in SUBSET Nat
  OBVIOUS
<1>3. PICK least \in Missing : \A n \in Missing : ~(<<n, least>> \in R)
  <2> HIDE DEF R, Missing
  <2> QED BY <1>1, <1>2, WFMin
<1>4. \A n \in Missing : ~(n < least)
  BY <1>3 DEF OpToRel
<1>5. least # 0 /\ least \in Nat
  OBVIOUS
<1>6. least - 1 \in Nat /\ least - 1 < least /\ least - 1 \notin Missing
  BY <1>4, <1>5
<1> QED BY <1>6

\* A value for each number up to n, each made from the one before.
StepsOn(S, n) == [1 .. n -> [S -> S]]
Made(g, S, first, n, step) ==
    /\ g \in [0 .. n -> S]
    /\ g[0] = first
    /\ \A m \in 1 .. n : g[m] = step[m][g[m - 1]]

LEMMA Recursion ==
    ASSUME NEW S, NEW first \in S, NEW n \in Nat, NEW step \in StepsOn(S, n)
    PROVE  \E g : Made(g, S, first, n, step)
<1> USE DEF StepsOn, Made
<1> DEFINE T == {k \in Nat : k <= n => \E g : Made(g, S, first, k, step)}
<1>1. 0 \in T
  <2> DEFINE g == [k \in 0 .. 0 |-> first]
  <2>1. Made(g, S, first, 0, step)
    OBVIOUS
  <2> QED BY <2>1
<1>2. ASSUME NEW k \in Nat, k \in T
      PROVE  k + 1 \in T
  <2> SUFFICES ASSUME k + 1 <= n
               PROVE  \E h : Made(h, S, first, k + 1, step)
    OBVIOUS
  <2>1. PICK g : Made(g, S, first, k, step)
    BY <1>2
  <2> DEFINE h == [m \in 0 .. k + 1 |-> IF m <= k THEN g[m] ELSE step[m][g[k]]]
  <2>2. h \in [0 .. k + 1 -> S]
    <3>1. step[k + 1][g[k]] \in S
      <4>1. step[k + 1] \in [S -> S] /\ g[k] \in S
        BY <2>1
      <4> QED BY <4>1
    <3> QED BY <2>1, <3>1
  <2>3. h[0] = first
    BY <2>1
  <2>4. \A m \in 1 .. k + 1 : h[m] = step[m][h[m - 1]]
    BY <2>1
  <2> HIDE DEF h
  <2> QED BY <2>2, <2>3, <2>4
<1>3. n \in T
  <2> HIDE DEF T
  <2> QED BY <1>1, <1>2, Inductive
<1> QED BY <1>3

\* What holds of the first value, and of each that comes after one it holds of,
\* holds of the last.
LEMMA KeptToTheEnd ==
    ASSUME NEW S, NEW n \in Nat, NEW f, f[0] \in S,
           \A m \in 1 .. n : f[m - 1] \in S => f[m] \in S
    PROVE  f[n] \in S
<1> DEFINE T == {k \in Nat : k <= n => f[k] \in S}
<1>1. 0 \in T
  OBVIOUS
<1>2. ASSUME NEW k \in Nat, k \in T
      PROVE  k + 1 \in T
  <2> SUFFICES ASSUME k + 1 <= n
               PROVE  f[k + 1] \in S
    OBVIOUS
  <2>1. k + 1 \in 1 .. n /\ (k + 1) - 1 = k /\ f[k] \in S
    BY <1>2
  <2> QED BY <2>1
<1>3. n \in T
  <2> HIDE DEF T
  <2> QED BY <1>1, <1>2, Inductive
<1> QED BY <1>3

\* A set of places in a list that has any has a last one.
LEMMA LastOfSome ==
    ASSUME NEW n \in Nat, NEW S \in SUBSET (1 .. n), S # {}
    PROVE  \E m \in S : \A k \in S : k <= m
<1> DEFINE HasALast(k) == \A P \in SUBSET (1 .. k) : P # {} => \E m \in P : \A l \in P : l <= m
           T == {k \in Nat : HasALast(k)}
<1>1. 0 \in T
  <2>1. \A P \in SUBSET (1 .. 0) : P = {}
    OBVIOUS
  <2> QED BY <2>1
<1>2. ASSUME NEW k \in Nat, k \in T
      PROVE  k + 1 \in T
  <2> SUFFICES ASSUME NEW P \in SUBSET (1 .. k + 1), P # {}
               PROVE  \E m \in P : \A l \in P : l <= m
    OBVIOUS
  <2>1. CASE k + 1 \in P
    BY <2>1
  <2>2. CASE k + 1 \notin P
    <3>1. P \in SUBSET (1 .. k)
      BY <2>2
    <3> QED BY <1>2, <3>1
  <2> QED BY <2>1, <2>2
<1>3. n \in T
  <2> HIDE DEF T
  <2> QED BY <1>1, <1>2, Inductive
<1> QED BY <1>3

\* A set of natural numbers that has any has a least one.
LEMMA LeastOfSome ==
    ASSUME NEW S \in SUBSET Nat, S # {}
    PROVE  \E m \in S : \A k \in S : m <= k
<1> DEFINE R == OpToRel(<, Nat)
<1>1. IsWellFoundedOn(R, Nat)
  BY NatLessThanWellFounded
<1>2. PICK least \in S : \A k \in S : ~(<<k, least>> \in R)
  <2> HIDE DEF R
  <2> QED BY <1>1, WFMin
<1>3. \A k \in S : ~(k < least)
  BY <1>2 DEF OpToRel
<1> QED BY <1>3

=============================================================================
