----------------------------- MODULE LoopProofs -----------------------------
(***************************************************************************)
(* Facts that the proofs about loops rest on: induction over the number of *)
(* passes, and that there is the function which gives the state of a loop  *)
(* after each number of passes.                                            *)
(***************************************************************************)
EXTENDS Integers, WellFoundedInduction, TLAPS

\* The order of the natural numbers, as a relation.
Below == {p \in Nat \X Nat : p[1] < p[2]}

\* A set of natural numbers that has a member has a least one.
LEMMA Least ==
    ASSUME NEW T \in SUBSET Nat, T # {}
    PROVE  \E x \in T : \A y \in T : x <= y
<1>1. IsWellFoundedOn(Below, Nat)
    BY NatLessThanWellFounded DEF OpToRel, Below
<1>2. PICK x \in T : \A y \in T : <<y, x>> \notin Below
    BY <1>1, WFMin
<1>3. ASSUME NEW y \in T
      PROVE  x <= y
    <2>1. y < x => <<y, x>> \in Below
        BY DEF Below
    <2> QED
        BY <1>2, <2>1
<1> QED
    BY <1>3

\* A set that holds 0 and the successor of each of its numbers holds them all: what is
\* so before a loop and after every pass is so after any number of passes.
LEMMA Induction ==
    ASSUME NEW S \in SUBSET Nat, 0 \in S, \A n \in S : n + 1 \in S
    PROVE  S = Nat
<1> SUFFICES ASSUME Nat \ S # {}
             PROVE  FALSE
    OBVIOUS
<1>1. PICK x \in Nat \ S : \A y \in Nat \ S : x <= y
    BY Least
<1>2. x # 0 /\ x - 1 \in Nat /\ x - 1 \in S
    BY <1>1
<1> QED
    BY <1>1, <1>2

\* f[k] is what k passes of a loop make of first, when g is its body.
Iterates(f, first, g) == f[0] = first /\ \A k \in Nat : f[k + 1] = g[f[k]]

\* There is such a function f.
LEMMA Iteration ==
    ASSUME NEW D, NEW first \in D, NEW g \in [D -> D]
    PROVE  \E f \in [Nat -> D] : Iterates(f, first, g)
<1> DEFINE Ok(n, h) == h[0] = first /\ \A i \in 0 .. n - 1 : h[i + 1] = g[h[i]]
           S == {n \in Nat : \E h \in [0 .. n -> D] : Ok(n, h)}
           H(n) == CHOOSE h \in [0 .. n -> D] : Ok(n, h)
<1>1. \A n \in Nat : H(n) \in [0 .. n -> D] /\ Ok(n, H(n))
    <2>1. 0 \in S
        <3>1. Ok(0, [i \in 0 .. 0 |-> first])
            OBVIOUS
        <3> QED
            BY <3>1
    <2>2. ASSUME NEW n \in S
          PROVE  n + 1 \in S
        <3>1. PICK h \in [0 .. n -> D] : Ok(n, h)
            OBVIOUS
        <3> DEFINE hh == [i \in 0 .. n + 1 |-> IF i = n + 1 THEN g[h[n]] ELSE h[i]]
        <3>2. hh \in [0 .. n + 1 -> D] /\ Ok(n + 1, hh)
            BY <3>1
        <3>3. n + 1 \in Nat
            OBVIOUS
        <3> HIDE DEF hh, Ok
        <3> QED
            BY <3>2, <3>3
    <2>3. S \in SUBSET Nat
        OBVIOUS
    <2> HIDE DEF S
    <2>4. S = Nat
        BY <2>1, <2>2, <2>3, Induction
    <2> QED
        BY <2>4 DEF S
<1> HIDE DEF H
<1>2. ASSUME NEW m \in Nat, NEW h, NEW n \in Nat, NEW hh, Ok(m, h), Ok(n, hh), m <= n
      PROVE  \A i \in 0 .. m : h[i] = hh[i]
    <2> DEFINE E == {i \in Nat : i <= m => h[i] = hh[i]}
    <2>1. 0 \in E
        BY <1>2
    <2>2. \A i \in E : i + 1 \in E
        BY <1>2
    <2>3. E = Nat
        <3>1. E \in SUBSET Nat
            OBVIOUS
        <3> HIDE DEF E
        <3> QED
            BY <2>1, <2>2, <3>1, Induction
    <2> QED
        BY <2>3
<1> DEFINE f == [k \in Nat |-> H(k)[k]]
<1>3. f \in [Nat -> D] /\ f[0] = first
    BY <1>1
<1>4. ASSUME NEW k \in Nat
      PROVE  f[k + 1] = g[f[k]]
    <2>1. Ok(k, H(k)) /\ Ok(k + 1, H(k + 1)) /\ k + 1 \in Nat /\ k <= k + 1 /\ k \in 0 .. k
        BY <1>1
    <2>2. H(k)[k] = H(k + 1)[k]
        <3> HIDE DEF Ok
        <3> QED
            BY <2>1, <1>2
    <2>3. H(k + 1)[k + 1] = g[H(k + 1)[k]]
        BY <2>1
    <2> QED
        BY <2>2, <2>3
<1> HIDE DEF f
<1> QED
    BY <1>3, <1>4 DEF Iterates

\* f[k] is what k passes of a loop leave, where g[k][d] is what pass k makes of d.
Follows(f, first, g) == f[0] = first /\ \A k \in Nat : f[k + 1] = g[k][f[k]]

\* There is a function that gives the state of a loop whose passes differ.
LEMMA Recursion ==
    ASSUME NEW D, NEW first \in D, NEW g \in [Nat -> [D -> D]]
    PROVE  \E f \in [Nat -> D] : Follows(f, first, g)
<1> DEFINE E == Nat \X D
           step == [p \in E |-> <<p[1] + 1, g[p[1]][p[2]]>>]
<1>1. <<0, first>> \in E /\ step \in [E -> E]
    OBVIOUS
<1>2. PICK F \in [Nat -> E] : Iterates(F, <<0, first>>, step)
    <2> HIDE DEF E, step
    <2> QED
        BY <1>1, Iteration
<1>3. F[0] = <<0, first>> /\ \A k \in Nat : F[k + 1] = <<F[k][1] + 1, g[F[k][1]][F[k][2]]>>
    BY <1>2 DEF Iterates
<1> DEFINE S == {k \in Nat : F[k][1] = k}
<1>4. S = Nat
    <2>1. 0 \in S
        BY <1>3
    <2>2. ASSUME NEW k \in S
          PROVE  k + 1 \in S
        BY <1>3
    <2>3. S \in SUBSET Nat
        OBVIOUS
    <2> HIDE DEF S
    <2> QED
        BY <2>1, <2>2, <2>3, Induction
<1> DEFINE f == [k \in Nat |-> F[k][2]]
<1>5. f \in [Nat -> D] /\ f[0] = first
    BY <1>2, <1>3
<1>6. ASSUME NEW k \in Nat
      PROVE  f[k + 1] = g[k][f[k]]
    <2>1. F[k] \in Nat \X D /\ F[k][1] = k
        BY <1>2, <1>4
    <2>2. F[k + 1][2] = g[F[k][1]][F[k][2]]
        BY <1>3
    <2>3. f[k + 1] = F[k + 1][2] /\ f[k] = F[k][2]
        OBVIOUS
    <2> QED
        BY <2>1, <2>2, <2>3, Zenon
<1> HIDE DEF f
<1> QED
    BY <1>5, <1>6, Zenon DEF Follows
=============================================================================
