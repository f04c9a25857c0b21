---------------------------- MODULE Subsequences ----------------------------
(***************************************************************************)
(* The part of a sequence that a filtering loop keeps.  Kept says what     *)
(* SelectSeq computes without its recursion, so that proofs can use it.    *)
(***************************************************************************)
EXTENDS Integers, Sequences, FiniteSets

Increasing(f) == \A i, j \in DOMAIN f : i < j => f[i] < f[j]

\* The elements of a finite set of numbers, the smallest first.
InOrder(S) == CHOOSE f \in [1..Cardinality(S) -> S] : Increasing(f)

\* The elements of q that are in P, in the order in which q has them.
Kept(q, P) ==
    LET at == InOrder({i \in 1..Len(q) : q[i] \in P})
    IN  [k \in DOMAIN at |-> q[at[k]]]
=============================================================================
