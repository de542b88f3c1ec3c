------------------------------- MODULE Mailbox -------------------------------
(***************************************************************************)
(* pkg/actor: the intrusive multi-producer single-consumer queue of one    *)
(* Actor, its wake channel, its life cycle and the pooled envelopes.  One  *)
(* step is one atomic operation that another goroutine can observe.        *)
(***************************************************************************)
EXTENDS Integers, Sequences, FiniteSets

CONSTANTS
  Producers,  \* goroutines that call Send
  Nodes,      \* Envelope objects
  Nil,        \* the nil pointer, for envelopes and for Msg
  MayCancel,  \* can the context given to Start be cancelled?
  MaxSends    \* bound: calls of Send each producer makes

ASSUME NilAssumption == Nil \notin Nodes /\ Nodes # {}
ASSUME SendAssumption ==
  IsFiniteSet(Producers) /\ MayCancel \in BOOLEAN /\ MaxSends \in [Producers -> Nat]

VARIABLES
  status,   \* init, running, stopping, dead
  head, tail, next, msg,
  wake,     \* tokens in the wake channel, capacity 1
  pool,     \* envelopes nobody owns: pooled, or not allocated yet
  pending,  \* processMailboxPending
  ppc,      \* where a producer is in Send
  env,      \* its envelope
  prev,     \* what tail.Swap returned to it
  sends,    \* calls of Send it has made
  cpc,      \* where the actor's goroutine is
  ctxDone,  \* the context is cancelled
  stopWake, \* Stop has changed the status but not yet sent its token
  dpc,      \* where Drain is
  order,    \* history: messages in the order of their tail.Swap
  pos,      \* history: the place of an envelope's message in order
  out,      \* history: messages given to Handle
  drained,  \* history: messages returned by Drain
  returned, \* history: messages whose Send returned true before Stop
  linked,   \* history: places in order that the loop could reach at the Stop
  stopBusy  \* history: Stop did not meet the loop after an empty dequeue

queueVars == <<head, tail, next, msg, pool, pending>>
senderVars == <<ppc, env, prev, sends>>
loopVars == <<status, wake, cpc, ctxDone, stopWake, dpc>>
history == <<order, pos, out, drained, returned, linked, stopBusy>>
vars == <<queueVars, senderVars, loopVars, history>>

\* A message is known by its producer and the number of the call.
Msg == UNION {{p} \X (1 .. MaxSends[p]) : p \in Producers}

New ==
  \E dummy \in Nodes :
    /\ head = dummy
    /\ tail = dummy
    /\ pool = Nodes \ {dummy}

Init ==
  /\ New
  /\ next = [n \in Nodes |-> Nil]
  /\ msg = [n \in Nodes |-> Nil]
  /\ status = "init"
  /\ wake = 0
  /\ pending = 0
  /\ ppc = [p \in Producers |-> "idle"]
  /\ env = [p \in Producers |-> Nil]
  /\ prev = [p \in Producers |-> Nil]
  /\ sends = [p \in Producers |-> 0]
  /\ cpc = "none"
  /\ ctxDone = FALSE
  /\ stopWake = FALSE
  /\ dpc = "none"
  /\ order = <<>>
  /\ pos = [n \in Nodes |-> 0]
  /\ out = <<>>
  /\ drained = <<>>
  /\ returned = {}
  /\ linked = {}
  /\ stopBusy = FALSE
-----------------------------------------------------------------------------
(* Send and sendEnvelope.                                                  *)

Goto(p, l) == ppc' = [ppc EXCEPT ![p] = l]

Accepting == status \notin {"stopping", "dead"}

SendCheck(p) ==
  /\ ppc[p] = "idle"
  /\ sends[p] < MaxSends[p]
  /\ sends' = [sends EXCEPT ![p] = @ + 1]
  /\ Goto(p, IF Accepting THEN "get" ELSE "idle")
  /\ UNCHANGED <<queueVars, env, prev, loopVars, history>>

\* GetEnvelope, Msg, next.Store(nil) and the counter: up to here the envelope
\* is the producer's own.
SendGet(p) ==
  /\ ppc[p] = "get"
  /\ \E n \in pool :
       /\ pool' = pool \ {n}
       /\ msg' = [msg EXCEPT ![n] = <<p, sends[p]>>]
       /\ next' = [next EXCEPT ![n] = Nil]
       /\ env' = [env EXCEPT ![p] = n]
  /\ pending' = pending + 1
  /\ Goto(p, "swap")
  /\ UNCHANGED <<head, tail, prev, sends, loopVars, history>>

SendSwap(p) ==
  /\ ppc[p] = "swap"
  /\ prev' = [prev EXCEPT ![p] = tail]
  /\ tail' = env[p]
  /\ Goto(p, "link")
  /\ order' = Append(order, msg[env[p]])
  /\ pos' = [pos EXCEPT ![env[p]] = Len(order) + 1]
  /\ UNCHANGED <<head, next, msg, pool, pending, env, sends, loopVars, out,
                 drained, returned, linked, stopBusy>>

\* Mutant: only the sender of the first queued message sends the token.
SendLinkFirstWakes(p) ==
  /\ ppc[p] = "link"
  /\ next' = [next EXCEPT ![prev[p]] = env[p]]
  /\ Goto(p, IF pending = 1 THEN "wake" ELSE "idle")
  /\ UNCHANGED <<head, tail, msg, pool, pending, env, prev, sends, loopVars, history>>

SendLink(p) ==
  /\ ppc[p] = "link"
  /\ next' = [next EXCEPT ![prev[p]] = env[p]]
  /\ Goto(p, "wake")
  /\ UNCHANGED <<head, tail, msg, pool, pending, env, prev, sends, loopVars, history>>

\* Mutant: the channel takes any number of tokens.
SendWakeUnbounded(p) ==
  /\ ppc[p] = "wake"
  /\ wake' = wake + 1
  /\ Goto(p, "idle")
  /\ env' = [env EXCEPT ![p] = Nil]
  /\ prev' = [prev EXCEPT ![p] = Nil]
  /\ returned' = IF Accepting THEN returned \cup {<<p, sends[p]>>} ELSE returned
  /\ UNCHANGED <<queueVars, sends, status, cpc, ctxDone, stopWake, dpc, order, pos,
                 out, drained, linked, stopBusy>>

\* The non-blocking send of the token; Send returns true.
SendWake(p) ==
  /\ ppc[p] = "wake"
  /\ wake' = 1
  /\ Goto(p, "idle")
  /\ env' = [env EXCEPT ![p] = Nil]
  /\ prev' = [prev EXCEPT ![p] = Nil]
  /\ returned' = IF Accepting THEN returned \cup {<<p, sends[p]>>} ELSE returned
  /\ UNCHANGED <<queueVars, sends, status, cpc, ctxDone, stopWake, dpc, order, pos,
                 out, drained, linked, stopBusy>>
-----------------------------------------------------------------------------
(* Start, Stop and the context.                                            *)

Start ==
  /\ status = "init"
  /\ status' = "running"
  /\ cpc' = "dequeue"
  /\ UNCHANGED <<queueVars, senderVars, wake, ctxDone, stopWake, dpc, history>>

\* The loop can reach what is in front of the first missing link.
Reachable ==
  {n \in 1 .. Len(order) : \A p \in Producers : ppc[p] = "link" => n < pos[env[p]]}

\* The compare-and-swap of Stop; a second Stop returns at once.
Stop ==
  /\ Accepting
  /\ status' = "stopping"
  /\ stopWake' = TRUE
  /\ linked' = Reachable
  /\ stopBusy' = (cpc # "empty")
  /\ UNCHANGED <<queueVars, senderVars, wake, cpc, ctxDone, dpc, order, pos, out,
                 drained, returned>>

\* Mutant: Stop changes the status and sends no token.
StopWakeSilent ==
  /\ stopWake
  /\ stopWake' = FALSE
  /\ UNCHANGED <<queueVars, senderVars, status, wake, cpc, ctxDone, dpc, history>>

StopWake ==
  /\ stopWake
  /\ stopWake' = FALSE
  /\ wake' = 1
  /\ UNCHANGED <<queueVars, senderVars, status, cpc, ctxDone, dpc, history>>

Cancel ==
  /\ MayCancel
  /\ ~ctxDone
  /\ ctxDone' = TRUE
  /\ UNCHANGED <<queueVars, senderVars, status, wake, cpc, stopWake, dpc, history>>
-----------------------------------------------------------------------------
(* loop and dequeue.                                                       *)

PutEnvelope(n) ==
  /\ msg' = [msg EXCEPT ![n] = Nil]
  /\ next' = [next EXCEPT ![n] = Nil]
  /\ pool' = pool \cup {n}

\* Mutant: the new head, not the old one, goes back to the pool.
DequeueRecycleNew ==
  /\ cpc = "dequeue"
  /\ IF next[head] = Nil
     THEN cpc' = "empty" /\ UNCHANGED <<head, next, msg, pool, pending>>
     ELSE /\ cpc' = "handle"
          /\ head' = next[head]
          /\ pending' = pending - 1
          /\ PutEnvelope(next[head])
  /\ UNCHANGED <<tail, senderVars, status, wake, ctxDone, stopWake, dpc, history>>

\* Mutant: the loop looks at the status before it looks at the queue.
DequeueStopFirst ==
  /\ cpc = "dequeue"
  /\ IF next[head] = Nil \/ status = "stopping"
     THEN cpc' = "empty" /\ UNCHANGED <<head, next, msg, pool, pending>>
     ELSE /\ cpc' = "handle"
          /\ head' = next[head]
          /\ pending' = pending - 1
          /\ PutEnvelope(head)
  /\ UNCHANGED <<tail, senderVars, status, wake, ctxDone, stopWake, dpc, history>>

Dequeue ==
  /\ cpc = "dequeue"
  /\ IF next[head] = Nil
     THEN cpc' = "empty" /\ UNCHANGED <<head, next, msg, pool, pending>>
     ELSE /\ cpc' = "handle"
          /\ head' = next[head]
          /\ pending' = pending - 1
          /\ PutEnvelope(head)
  /\ UNCHANGED <<tail, senderVars, status, wake, ctxDone, stopWake, dpc, history>>

\* Handle, completeResult and Emit; then the envelope is the dummy.
Handle ==
  /\ cpc = "handle"
  /\ out' = Append(out, msg[head])
  /\ msg' = [msg EXCEPT ![head] = Nil]
  /\ cpc' = "dequeue"
  /\ UNCHANGED <<head, tail, next, pool, pending, senderVars, status, wake, ctxDone,
                 stopWake, dpc, order, pos, drained, returned, linked, stopBusy>>

LoopEmpty ==
  /\ cpc = "empty"
  /\ cpc' = IF status = "stopping" THEN "exit" ELSE "wait"
  /\ UNCHANGED <<queueVars, senderVars, status, wake, ctxDone, stopWake, dpc, history>>

LoopWake ==
  /\ cpc = "wait"
  /\ wake = 1
  /\ wake' = 0
  /\ cpc' = "dequeue"
  /\ UNCHANGED <<queueVars, senderVars, status, ctxDone, stopWake, dpc, history>>

\* Both ways out of the loop: after shutdownFn, or because of the context.
LoopExit ==
  /\ cpc = "exit" \/ (cpc = "wait" /\ ctxDone)
  /\ status' = "dead"
  /\ cpc' = "done"
  /\ UNCHANGED <<queueVars, senderVars, wake, ctxDone, stopWake, dpc, history>>
-----------------------------------------------------------------------------
(* Drain, called once by a goroutine that has seen IsDead.                 *)

IsDead == status = "dead"

DrainStart ==
  /\ IsDead
  /\ dpc = "none"
  /\ dpc' = "drain"
  /\ UNCHANGED <<queueVars, senderVars, status, wake, cpc, ctxDone, stopWake, history>>

\* Mutant: Drain does not count what it removes.
DrainUncounted ==
  /\ dpc = "drain"
  /\ IF next[head] = Nil
     THEN dpc' = "done" /\ UNCHANGED <<head, next, msg, pool, drained>>
     ELSE /\ drained' = Append(drained, msg[next[head]])
          /\ head' = next[head]
          /\ msg' = [msg EXCEPT ![head] = Nil, ![next[head]] = Nil]
          /\ next' = [next EXCEPT ![head] = Nil]
          /\ pool' = pool \cup {head}
          /\ UNCHANGED dpc
  /\ UNCHANGED <<tail, pending, senderVars, status, wake, cpc, ctxDone, stopWake, order,
                 pos, out, returned, linked, stopBusy>>

Drain ==
  /\ dpc = "drain"
  /\ IF next[head] = Nil
     THEN dpc' = "done" /\ UNCHANGED <<head, next, msg, pool, pending, drained>>
     ELSE /\ drained' = Append(drained, msg[next[head]])
          /\ head' = next[head]
          /\ pending' = pending - 1
          /\ msg' = [msg EXCEPT ![head] = Nil, ![next[head]] = Nil]
          /\ next' = [next EXCEPT ![head] = Nil]
          /\ pool' = pool \cup {head}
          /\ UNCHANGED dpc
  /\ UNCHANGED <<tail, senderVars, status, wake, cpc, ctxDone, stopWake, order, pos,
                 out, returned, linked, stopBusy>>
-----------------------------------------------------------------------------
SendNext(p) == SendCheck(p) \/ SendGet(p) \/ SendSwap(p) \/ SendLink(p) \/ SendWake(p)

Loop == Dequeue \/ Handle \/ LoopEmpty \/ LoopWake \/ LoopExit

Next ==
  \/ \E p \in Producers : SendNext(p)
  \/ Start \/ Stop \/ StopWake \/ Cancel
  \/ Loop
  \/ DrainStart \/ Drain

Spec == Init /\ [][Next]_vars

\* The Go scheduler runs every runnable goroutine: the actor's loop, a Send
\* or Stop that has begun.  Nobody is bound to call Send, Stop or Drain.
Fairness ==
  /\ WF_vars(Loop)
  /\ WF_vars(StopWake)
  /\ \A p \in Producers : WF_vars(SendGet(p) \/ SendSwap(p) \/ SendLink(p) \/ SendWake(p))

FairSpec == Spec /\ Fairness
-----------------------------------------------------------------------------
(* Properties.                                                             *)

\* Every variable keeps the type of the field or channel it models.
TypeOK ==
  /\ status \in {"init", "running", "stopping", "dead"}
  /\ head \in Nodes /\ tail \in Nodes
  /\ next \in [Nodes -> Nodes \cup {Nil}]
  /\ msg \in [Nodes -> Msg \cup {Nil}]
  /\ pool \subseteq Nodes
  /\ pending \in Int
  /\ wake \in 0 .. 1
  /\ ppc \in [Producers -> {"idle", "get", "swap", "link", "wake"}]
  /\ env \in [Producers -> Nodes \cup {Nil}]
  /\ prev \in [Producers -> Nodes \cup {Nil}]
  /\ sends \in [Producers -> Nat] /\ \A p \in Producers : sends[p] <= MaxSends[p]
  /\ cpc \in {"none", "dequeue", "handle", "empty", "wait", "exit", "done"}
  /\ ctxDone \in BOOLEAN /\ stopWake \in BOOLEAN
  /\ dpc \in {"none", "drain", "done"}
  /\ order \in Seq(Msg \cup {Nil})
  /\ out \in Seq(Msg \cup {Nil})
  /\ drained \in Seq(Msg \cup {Nil})
  /\ returned \subseteq Msg
  /\ pos \in [Nodes -> Nat]
  /\ linked \subseteq Nat /\ stopBusy \in BOOLEAN

\* Messages dequeue and Drain have taken out.
Taken == Len(out) + Len(drained) + (IF cpc = "handle" THEN 1 ELSE 0)

\* The loop never sleeps, without a token to come, on a queue it could take
\* from or on a Stop it has not seen: the non-blocking send on the channel of
\* capacity one loses no wakeup.
NoLostWakeup ==
  cpc = "wait" =>
    /\ next[head] # Nil => wake = 1 \/ \E p \in Producers : ppc[p] = "wake"
    /\ status = "stopping" => wake = 1 \/ stopWake

\* An envelope in the pool is not in the queue and no Send still holds it as
\* its own envelope or as the predecessor it is about to link.
RecycledUnused ==
  \A n \in pool :
    /\ n # head /\ n # tail
    /\ \A m \in Nodes \ pool : next[m] # n
    /\ \A p \in Producers : ppc[p] \in {"swap", "link"} => n # env[p]
    /\ \A p \in Producers : ppc[p] = "link" => n # prev[p]

\* processMailboxPending, the number HandleBatch compares with the mailbox
\* limit, counts the queued messages and those about to be swapped in.
PendingExact ==
  pending = Len(order) - Taken + Cardinality({p \in Producers : ppc[p] = "swap"})

\* Every message the loop could reach when Stop was called is handled before
\* the actor is dead, unless Stop came just after dequeue found nothing: the
\* loop then reads the status and does not look at the queue again.  In that
\* case too Drain returns what was linked before Stop.
StopHandlesBacklog ==
  /\ IsDead /\ ~ctxDone /\ stopBusy => \A n \in linked : n <= Len(out)
  /\ dpc = "done" => \A n \in linked : n <= Len(out) + Len(drained)

\* Every message whose Send had returned true when Stop was called is handled
\* before the actor is dead.
StopHandlesSent ==
  IsDead /\ ~ctxDone => \A m \in returned : \E i \in DOMAIN out : out[i] = m

\* An actor that is not stopped handles every message it has accepted.
AcceptedHandled ==
  \A p \in Producers : \A k \in 1 .. MaxSends[p] :
    (\E i \in DOMAIN order : order[i] = <<p, k>>) /\ cpc # "none"
      ~> (\E i \in DOMAIN out : out[i] = <<p, k>>) \/ status \in {"stopping", "dead"}

\* A started actor that is stopped dies: whoever polls IsDead gets on.
StopEnds == status = "stopping" /\ cpc # "none" ~> IsDead

\* What a mailbox promises (FifoMailbox), with the queue read off the order of
\* the swaps.
Abstract == INSTANCE FifoMailbox WITH
  phase <- IF Accepting THEN "open" ELSE IF IsDead THEN "dead" ELSE "stopping",
  inside <- {<<p, sends[p]>> : p \in {q \in Producers : ppc[q] \in {"get", "swap"}}},
  queue <- SubSeq(order, Len(out) + Len(drained) + 1, Len(order))

\* Send, the loop, Stop and Drain together behave like a FIFO mailbox.
ImplementsFifo == Abstract!Spec
=============================================================================
