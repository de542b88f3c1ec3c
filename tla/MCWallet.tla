------------------------------ MODULE MCWallet ------------------------------
(* Instances of Wallet for TLC.                                            *)
EXTENDS Wallet

CONSTANTS t1, t2, t3, t4

\* A deposit, a withdrawal of half of it, one of all of it, and a deposit that
\* overflows on top of the first.
MCAmount == [t \in Tx |-> IF t = t1 THEN 2 ELSE IF t = t2 THEN -1 ELSE IF t = t3 THEN -2 ELSE 3]
=============================================================================
