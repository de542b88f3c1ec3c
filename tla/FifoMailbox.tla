----------------------------- MODULE FifoMailbox -----------------------------
(***************************************************************************)
(* What an actor's mailbox promises, without links, tokens or envelopes.   *)
(* A Send is let in while the mailbox is open and takes its place in the   *)
(* queue later, possibly after the actor has stopped or died.  A message   *)
(* is handled by the actor, or drained once the actor is dead.             *)
(***************************************************************************)
EXTENDS Sequences

CONSTANT Msg

VARIABLES
  phase,   \* open, stopping, dead
  inside,  \* messages of the Sends that were let in and are not queued yet
  queue,
  out,     \* messages handled
  drained  \* messages drained

vars == <<phase, inside, queue, out, drained>>

Init ==
  /\ phase = "open"
  /\ inside = {}
  /\ queue = <<>>
  /\ out = <<>>
  /\ drained = <<>>

LetIn(m) ==
  /\ phase = "open"
  /\ m \notin inside
  /\ inside' = inside \cup {m}
  /\ UNCHANGED <<phase, queue, out, drained>>

Enqueue(m) ==
  /\ m \in inside
  /\ inside' = inside \ {m}
  /\ queue' = Append(queue, m)
  /\ UNCHANGED <<phase, out, drained>>

Handle ==
  /\ phase # "dead"
  /\ queue # <<>>
  /\ out' = Append(out, Head(queue))
  /\ queue' = Tail(queue)
  /\ UNCHANGED <<phase, inside, drained>>

Drain ==
  /\ phase = "dead"
  /\ queue # <<>>
  /\ drained' = Append(drained, Head(queue))
  /\ queue' = Tail(queue)
  /\ UNCHANGED <<phase, inside, out>>

Stop ==
  /\ phase = "open"
  /\ phase' = "stopping"
  /\ UNCHANGED <<inside, queue, out, drained>>

Die ==
  /\ phase # "dead"
  /\ phase' = "dead"
  /\ UNCHANGED <<inside, queue, out, drained>>

Next == (\E m \in Msg : LetIn(m) \/ Enqueue(m)) \/ Handle \/ Drain \/ Stop \/ Die

Spec == Init /\ [][Next]_vars
=============================================================================
