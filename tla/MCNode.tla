------------------------------- MODULE MCNode -------------------------------
(* Instances of Node for TLC.                                              *)
EXTENDS Node

CONSTANTS s1, s2, r1, r2, r3, k1

OneKey == [r \in Requests |-> k1]
OneShard == [k \in Keys |-> 0]

\* One stream sends a batch of two requests, the other a single one and then a
\* batch that is too large.
TooLarge == [n \in 1 .. MaxEnvelopes + 1 |-> None]
Pair == [s \in Streams |-> IF s = s1 THEN <<<<r1, r2>>>> ELSE <<<<r3>>, TooLarge>>]

\* A single request per stream.
Single == [s \in Streams |-> IF s = s1 THEN <<<<r1>>>> ELSE <<<<r2>>>>]
=============================================================================
