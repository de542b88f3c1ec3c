----------------------------- MODULE MCGateway -----------------------------
(* Instances of Gateway for TLC.                                           *)
EXTENDS Gateway

CONSTANTS c1, c2

\* Every request has a shard of its own.
OwnShard == [c \in Calls |-> IF c = c1 THEN 0 ELSE Shards - 1]
=============================================================================
