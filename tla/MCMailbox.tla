------------------------------ MODULE MCMailbox ------------------------------
(* Instances of Mailbox for TLC.                                           *)
EXTENDS Mailbox

CONSTANTS n1, n2, n3, p1, p2

\* One producer sends twice, the other once.
TwoAndOne == [p \in Producers |-> IF p = p1 THEN 2 ELSE 1]

\* Envelopes are interchangeable: it is enough that n1 is New's dummy.
MCInit == head = n1 /\ Init

MCSpec == MCInit /\ [][Next]_vars /\ Fairness
=============================================================================
