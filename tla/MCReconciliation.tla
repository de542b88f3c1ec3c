-------------------------- MODULE MCReconciliation --------------------------
(* Instances of Reconciliation for TLC.                                    *)
EXTENDS Reconciliation, TLC

CONSTANTS t1, t2, t3, t4

\* A deposit, a withdrawal of half of it, one of all of it, and a deposit that
\* overflows on top of the first.
MCAmount == [t \in Tx |-> IF t = t1 THEN 2 ELSE IF t = t2 THEN -1 ELSE IF t = t3 THEN -2 ELSE 3]

\* Two deposits and a withdrawal that the smaller one does not cover.
MCOverlapAmount == [t \in Tx |-> IF t = t1 THEN 2 ELSE IF t = t2 THEN 1 ELSE IF t = t3 THEN -2 ELSE 3]

MCSymmetry == Permutations(Actors)

\* Without the history variables base and acked: no guard reads them, and no
\* property of two overlapping actors says more of them than their types.
MCView == <<actorVars, storeVars, job>>
=============================================================================
