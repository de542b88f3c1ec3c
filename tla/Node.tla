-------------------------------- MODULE Node --------------------------------
(***************************************************************************)
(* internal/node: one Node, with the streams of pkg/remote that feed it.   *)
(* StreamMessages calls HandleBatch, actors handle messages and Emit       *)
(* results, eviction and passivation stop actors, the aggregator returns   *)
(* results to the streams, and Stop shuts all down.                        *)
(*                                                                         *)
(* An actor's mailbox is taken at the level of FifoMailbox: Send checks    *)
(* the status and queues later, and a loop that has found the queue empty  *)
(* reads the status without looking again.  What Handle does to the wallet *)
(* is the module Wallet.                                                   *)
(***************************************************************************)
EXTENDS Integers, Sequences, FiniteSets

CONSTANTS
  Streams, Requests, Keys,
  KeyOf,        \* the ActorKey of a request
  ShardOf,      \* shardIndex of a key
  Bad,          \* requests that lack a mandatory field
  Batches,      \* the batches each stream receives, one after the other
  MaxEnvelopes, \* ServerConfig.MaxBatchSize
  MailboxLimit,
  ChanSize,     \* capacity of resultCh
  MaxBatchSize, \* of the aggregator
  MaxChanges,   \* bound: changes of the owner of a key and passivations
  MaxIdle,      \* bound: passivations alone
  MaxActors     \* bound: actors created

None == 0

\* An empty batch changes nothing and is left out, and what is in a batch that
\* is too large does not matter.
Batch ==
  {b \in Seq(Requests \cup {None}) :
     b # <<>> /\ (Len(b) <= MaxEnvelopes => b \in Seq(Requests))}

ASSUME NodeAssumption ==
  /\ Keys # {} /\ None \notin Requests /\ None \notin Streams
  /\ KeyOf \in [Requests -> Keys]
  /\ DOMAIN ShardOf = Keys
  /\ Bad \subseteq Requests
  /\ MaxEnvelopes \in Nat \ {0}
  /\ Batches \in [Streams -> Seq(Batch)]
  /\ MailboxLimit \in Nat \ {0} /\ ChanSize \in Nat \ {0} /\ MaxBatchSize \in Nat \ {0}
  /\ MaxChanges \in Nat /\ MaxIdle \in Nat /\ MaxActors \in Nat

\* A request is one envelope of one batch: nextRequestID gives no id twice.
ASSUME DistinctRequests ==
  /\ \A r \in Requests : \E s \in Streams : \E b \in DOMAIN Batches[s] :
       \E n \in DOMAIN Batches[s][b] : Batches[s][b][n] = r
  /\ \A s, t \in Streams : \A b \in DOMAIN Batches[s], c \in DOMAIN Batches[t] :
       \A m \in DOMAIN Batches[s][b], n \in DOMAIN Batches[t][c] :
         Batches[s][b][m] = Batches[t][c][n] /\ Batches[s][b][m] # None
           => s = t /\ b = c /\ m = n

Incs == 1 .. MaxActors

VARIABLES
  env,      \* owned: the keys this node owns; changes and passivations so far;
            \* held: the stream whose flow control holds the aggregator in Send
  actors,   \* the shard maps: key -> actor or None
  made,     \* actors created
  inc,      \* per actor: its key; phase: running, stopping, dead; queue: its
            \* mailbox; pc of its loop: loop, busy, emit, empty, wait, end;
            \* cur: what it handles or is about to Emit; and of the goroutine
            \* that drains it when evicted, drain: none, wait, reply, and the
            \* list of drained messages
  pending,  \* ProcessMailboxPending
  str,      \* per stream: pc of StreamMessages and HandleBatch; todo: the rest
            \* of its batch; act: its bActor; over: is the batch refused for
            \* overload; left: the batches it has still to receive
  routes,   \* replyRoutes: request -> stream
  resultCh,
  agg,      \* the aggregator: is it on, its batch, and as history per request
            \* the results given to SendBatchResponse, to None if the stream
            \* had ended
  stop,     \* Stop: pc run, stopping, waiting, stopped; done: is the channel
            \* closed; the actors awaited
  handled   \* history: requests that Handle has executed

vars == <<env, actors, made, inc, pending, str, routes, resultCh, agg, stop, handled>>

Result(r, s, c) == [req |-> r, to |-> s, code |-> c]

NoResult == Result(None, None, "none")

NewActor(k) ==
  [key |-> k, phase |-> "running", queue |-> <<>>, pc |-> "loop", cur |-> NoResult,
   drain |-> "none", list |-> <<>>]

Init ==
  /\ env = [owned |-> Keys, changes |-> 0, idles |-> 0, held |-> None]
  /\ actors = [k \in Keys |-> None]
  /\ made = 0
  /\ inc = [i \in Incs |-> [NewActor(CHOOSE k \in Keys : TRUE) EXCEPT
                              !.phase = "none", !.pc = "none"]]
  /\ pending = 0
  /\ str = [s \in Streams |-> [pc |-> "recv", todo |-> <<>>, act |-> None,
                               over |-> FALSE, left |-> Batches[s]]]
  /\ routes = [r \in {} |-> None]
  /\ resultCh = <<>>
  /\ agg = [on |-> TRUE, batch |-> <<>>, sent |-> [r \in Requests |-> <<>>]]
  /\ stop = [pc |-> "run", done |-> FALSE, awaited |-> {}]
  /\ handled = {}
-----------------------------------------------------------------------------
\* A send on the buffered channel resultCh; it blocks while the channel is full.
Push(q) == Len(resultCh) < ChanSize /\ resultCh' = Append(resultCh, q)

Goto(s, l) == str' = [str EXCEPT ![s].pc = l]

\* The loop over the batch goes on, or HandleBatch returns.
NextEnvelope(s) ==
  LET rest == Tail(str[s].todo)
  IN str' = [str EXCEPT
       ![s].todo = rest,
       ![s].act = None,
       ![s].over = @ /\ rest # <<>>,
       ![s].pc = IF rest = <<>> THEN "recv" ELSE IF str[s].over THEN "reply" ELSE "check"]

Req(s) == Head(str[s].todo)
Key(s) == KeyOf[Req(s)]
Act(s) == str[s].act

\* rehydrate runs with the shard locked; all other critical sections are short.
Locked(k) ==
  \E s \in Streams : str[s].pc = "rehydrate" /\ ShardOf[Key(s)] = ShardOf[k]

Without(f, r) == [x \in DOMAIN f \ {r} |-> f[x]]

Stopped(i) == [inc[i] EXCEPT !.phase = IF @ = "running" THEN "stopping" ELSE @]
-----------------------------------------------------------------------------
(* StreamMessages and HandleBatch.                                         *)

\* A batch of an admissible size arrives: the overload check.  An overloaded
\* batch is refused as a whole.
Receive(s) ==
  /\ str[s].pc = "recv"
  /\ str[s].left # <<>>
  /\ Len(Head(str[s].left)) <= MaxEnvelopes
  /\ LET over == pending >= MailboxLimit IN
       str' = [str EXCEPT ![s].left = Tail(@), ![s].todo = Head(str[s].left),
                          ![s].pc = IF over THEN "reply" ELSE "check",
                          ![s].over = over]
  /\ UNCHANGED <<env, actors, made, inc, pending, routes, resultCh, agg, stop, handled>>

\* StreamMessages returns: the peer has closed the stream, it has broken, or
\* the next batch is too large.  A Send on it returns an error.
StreamEnd(s) ==
  /\ str[s].pc = "recv"
  /\ Goto(s, "ended")
  /\ env' = [env EXCEPT !.held = IF @ = s THEN None ELSE @]
  /\ UNCHANGED <<actors, made, inc, pending, routes, resultCh, agg, stop, handled>>

\* The mandatory fields and the owner of the key.
Check(s) ==
  /\ str[s].pc = "check"
  /\ Goto(s, IF Req(s) \in Bad THEN "reply"
             ELSE IF Key(s) \notin env.owned THEN "kill" ELSE "lookup")
  /\ UNCHANGED <<env, actors, made, inc, pending, routes, resultCh, agg, stop, handled>>

\* enqueueResult, for every error HandleBatch answers itself: a bad request, a
\* wrong node, an overload or a failed rehydration.
Reply(s) ==
  /\ str[s].pc = "reply"
  /\ Push(Result(Req(s), s, "refused"))
  /\ NextEnvelope(s)
  /\ UNCHANGED <<env, actors, made, inc, pending, routes, agg, stop, handled>>

\* The shard map is read: l if it has no actor for the key, else m.
Find(s, l, m) ==
  LET i == actors[Key(s)] IN
    /\ ~Locked(Key(s))
    /\ str' = [str EXCEPT ![s].act = i, ![s].pc = IF i = None THEN l ELSE m]

\* forceKillLocalActor: the map entry goes first, under the lock, ...
Kill(s) ==
  /\ str[s].pc = "kill"
  /\ Find(s, "reply", "killStop")
  /\ actors' = [actors EXCEPT ![Key(s)] = None]
  /\ UNCHANGED <<env, made, inc, pending, routes, resultCh, agg, stop, handled>>

\* ... then Stop, and a goroutine that will drain the mailbox.
KillStop(s) ==
  /\ str[s].pc = "killStop"
  /\ inc' = [inc EXCEPT ![Act(s)] = [Stopped(Act(s)) EXCEPT !.drain = "wait"]]
  /\ Goto(s, "reply")
  /\ UNCHANGED <<env, actors, made, pending, routes, resultCh, agg, stop, handled>>

Lookup(s) ==
  /\ str[s].pc = "lookup"
  /\ Find(s, "create", "route")
  /\ UNCHANGED <<env, actors, made, inc, pending, routes, resultCh, agg, stop, handled>>

\* The write lock is taken and the map looked at again.
Create(s) ==
  /\ str[s].pc = "create"
  /\ Find(s, "rehydrate", "route")
  /\ UNCHANGED <<env, actors, made, inc, pending, routes, resultCh, agg, stop, handled>>

RehydrateFailed(s) ==
  /\ str[s].pc = "rehydrate"
  /\ Goto(s, "reply")
  /\ UNCHANGED <<env, actors, made, inc, pending, routes, resultCh, agg, stop, handled>>

\* The actor enters the map, is started, and the lock is released.
Rehydrated(s) ==
  /\ str[s].pc = "rehydrate"
  /\ made < MaxActors
  /\ made' = made + 1
  /\ inc' = [inc EXCEPT ![made'] = NewActor(Key(s))]
  /\ actors' = [actors EXCEPT ![Key(s)] = made']
  /\ str' = [str EXCEPT ![s].act = made', ![s].pc = "route"]
  /\ UNCHANGED <<env, pending, routes, resultCh, agg, stop, handled>>

\* replyRoutes.Store, then the status check of Send.
Route(s) ==
  /\ str[s].pc = "route"
  /\ routes' = [r \in DOMAIN routes \cup {Req(s)} |-> IF r = Req(s) THEN s ELSE routes[r]]
  /\ Goto(s, IF inc[Act(s)].phase = "running" THEN "put" ELSE "undo")
  /\ UNCHANGED <<env, actors, made, inc, pending, resultCh, agg, stop, handled>>

\* The rest of Send: it does not look at the status again.
Put(s) ==
  /\ str[s].pc = "put"
  /\ inc' = [inc EXCEPT ![Act(s)].queue = Append(@, Req(s))]
  /\ pending' = pending + 1
  /\ NextEnvelope(s)
  /\ UNCHANGED <<env, actors, made, routes, resultCh, agg, stop, handled>>

\* Mutant: the route of the failed Send stays.
RoutesKept(r) == routes

\* replyRoutes.Delete after the failed Send.
RoutesAfterUndo(r) == Without(routes, r)

\* Mutant: the map entry is deleted whichever actor it names.
EvictAny(k, i) == [actors EXCEPT ![k] = None]

\* The map entry is deleted if it still names the dead actor.
Evict(k, i) == [actors EXCEPT ![k] = IF @ = i THEN None ELSE @]

\* Send returned false: forget the route and the dead actor, and retry.
Undo(s) ==
  /\ str[s].pc = "undo"
  /\ ~Locked(Key(s))
  /\ routes' = RoutesAfterUndo(Req(s))
  /\ actors' = Evict(Key(s), Act(s))
  /\ Goto(s, "lookup")
  /\ UNCHANGED <<env, made, inc, pending, resultCh, agg, stop, handled>>
-----------------------------------------------------------------------------
(* An actor's loop.                                                        *)

At(i, l) == inc' = [inc EXCEPT ![i].pc = l]

Dequeue(i) ==
  /\ inc[i].pc = "loop"
  /\ LET q == inc[i].queue IN
       IF q = <<>> THEN At(i, "empty") /\ UNCHANGED pending
       ELSE /\ inc' = [inc EXCEPT ![i].pc = "busy", ![i].queue = Tail(q),
                                  ![i].cur = Result(Head(q), None, "none")]
            /\ pending' = pending - 1
  /\ UNCHANGED <<env, actors, made, str, routes, resultCh, agg, stop, handled>>

\* Handle returns; Emit takes the route away, or gives up if there is none.
Handle(i) ==
  /\ inc[i].pc = "busy"
  /\ LET r == inc[i].cur.req IN
       /\ handled' = handled \cup {r}
       /\ inc' = IF r \in DOMAIN routes
                 THEN [inc EXCEPT ![i].pc = "emit", ![i].cur = Result(r, routes[r], "handled")]
                 ELSE [inc EXCEPT ![i].pc = "loop", ![i].cur = NoResult]
       /\ routes' = Without(routes, r)
  /\ UNCHANGED <<env, actors, made, pending, str, resultCh, agg, stop>>

Emit(i) ==
  /\ inc[i].pc = "emit"
  /\ Push(inc[i].cur)
  /\ inc' = [inc EXCEPT ![i].pc = "loop", ![i].cur = NoResult]
  /\ UNCHANGED <<env, actors, made, pending, str, routes, agg, stop, handled>>

\* The status, read after an empty dequeue.
Empty(i) ==
  /\ inc[i].pc = "empty"
  /\ inc' = IF inc[i].phase = "stopping"
            THEN [inc EXCEPT ![i].pc = "end", ![i].phase = "dead"]
            ELSE [inc EXCEPT ![i].pc = "wait"]
  /\ UNCHANGED <<env, actors, made, pending, str, routes, resultCh, agg, stop, handled>>

\* The wake channel has a token if there is a message or a Stop (module
\* Mailbox, NoLostWakeup).
Wake(i) ==
  /\ inc[i].pc = "wait"
  /\ inc[i].queue # <<>> \/ inc[i].phase = "stopping"
  /\ At(i, "loop")
  /\ UNCHANGED <<env, actors, made, pending, str, routes, resultCh, agg, stop, handled>>
-----------------------------------------------------------------------------
(* The goroutine forceKillLocalActor starts.                               *)

\* Mutant: the mailbox is walked without waiting for IsDead.
DrainUnawaited(i) ==
  /\ inc[i].drain = "wait"
  /\ inc' = [inc EXCEPT ![i].list = inc[i].queue, ![i].drain = "reply"]
  /\ UNCHANGED <<env, actors, made, pending, str, routes, resultCh, agg, stop, handled>>

\* Mutant: nothing of the mailbox is answered.
DrainedNothing(i) == [inc[i] EXCEPT !.queue = <<>>, !.drain = "reply"]

Drained(i) == [inc[i] EXCEPT !.list = inc[i].queue, !.queue = <<>>, !.drain = "reply"]

Drain(i) ==
  /\ inc[i].drain = "wait"
  /\ inc[i].phase = "dead"
  /\ inc' = [inc EXCEPT ![i] = Drained(i)]
  /\ pending' = pending - Len(inc[i].queue)
  /\ UNCHANGED <<env, actors, made, str, routes, resultCh, agg, stop, handled>>

DrainReply(i) ==
  /\ inc[i].drain = "reply"
  /\ inc[i].list # <<>>
  /\ LET r == Head(inc[i].list) IN
       /\ IF r \in DOMAIN routes
          THEN Push(Result(r, routes[r], "refused"))
          ELSE UNCHANGED resultCh
       /\ routes' = Without(routes, r)
  /\ inc' = [inc EXCEPT ![i].list = Tail(@)]
  /\ UNCHANGED <<env, actors, made, pending, str, agg, stop, handled>>
-----------------------------------------------------------------------------
(* passivationLoop: an actor that has begun no Handle for a day, whatever  *)
(* it has in its mailbox or in hand.                                       *)

Passivate(i) ==
  /\ ~stop.done
  /\ env.changes < MaxChanges /\ env.idles < MaxIdle
  /\ i <= made /\ actors[inc[i].key] = i
  /\ ~Locked(inc[i].key)
  /\ env' = [env EXCEPT !.changes = @ + 1, !.idles = @ + 1]
  /\ inc' = [inc EXCEPT ![i] = Stopped(i)]
  /\ actors' = [actors EXCEPT ![inc[i].key] = None]
  /\ UNCHANGED <<made, pending, str, routes, resultCh, agg, stop, handled>>
-----------------------------------------------------------------------------
(* aggregatorLoop.                                                         *)

\* A response for a stream that has ended is an error, which flush ignores.
SendBatchResponse(q) == [q EXCEPT !.to = IF str[@].pc = "ended" THEN None ELSE @]

InResults(r, q) == {n \in DOMAIN q : q[n].req = r}

\* The places of r's results in b, in their order.
For(r, b) ==
  CHOOSE e \in [1 .. Cardinality(InResults(r, b)) -> InResults(r, b)] :
    \A m, n \in DOMAIN e : m < n => e[m] < e[n]

\* flush: every result goes to the stream it belongs to.
Flushed(b) ==
  [agg EXCEPT !.batch = <<>>,
              !.sent = [r \in Requests |->
                          @[r] \o [n \in DOMAIN For(r, b) |-> SendBatchResponse(b[For(r, b)[n]])]]]

\* Mutant: a full batch is not flushed.
OverFull(b) == Len(b) > MaxBatchSize

FullBatch(b) == Len(b) >= MaxBatchSize

HasFor(b, s) == \E n \in DOMAIN b : b[n].to = s

\* A flush, at a tick or when a result fills the batch, has come to a stream that
\* is not read, and stream.Send waits.  What it has sent to other streams before
\* is counted when it ends.
Hold(s) ==
  /\ agg.on /\ env.held = None
  /\ str[s].pc # "ended"
  /\ \/ HasFor(agg.batch, s)
     \/ /\ resultCh # <<>>
        /\ LET b == Append(agg.batch, Head(resultCh)) IN FullBatch(b) /\ HasFor(b, s)
  /\ env' = [env EXCEPT !.held = s]
  /\ UNCHANGED <<actors, made, inc, pending, str, routes, resultCh, agg, stop, handled>>

\* The peer reads on, or its connection breaks.
Release ==
  /\ env.held # None
  /\ env' = [env EXCEPT !.held = None]
  /\ UNCHANGED <<actors, made, inc, pending, str, routes, resultCh, agg, stop, handled>>

Collect ==
  /\ agg.on /\ env.held = None
  /\ resultCh # <<>>
  /\ resultCh' = Tail(resultCh)
  /\ LET b == Append(agg.batch, Head(resultCh)) IN
       agg' = IF FullBatch(b) THEN Flushed(b) ELSE [agg EXCEPT !.batch = b]
  /\ UNCHANGED <<env, actors, made, inc, pending, str, routes, stop, handled>>

Tick ==
  /\ agg.on /\ env.held = None
  /\ agg.batch # <<>>
  /\ agg' = Flushed(agg.batch)
  /\ UNCHANGED <<env, actors, made, inc, pending, str, routes, resultCh, stop, handled>>

\* The last flush; every stream has ended by then.
AggregatorExit ==
  /\ agg.on
  /\ stop.done
  /\ agg' = [Flushed(agg.batch) EXCEPT !.on = FALSE]
  /\ UNCHANGED <<env, actors, made, inc, pending, str, routes, resultCh, stop, handled>>
-----------------------------------------------------------------------------
(* Stop, which main calls when GracefulStop has ended every stream.        *)

StopBegin ==
  /\ stop.pc = "run"
  /\ \A s \in Streams : str[s].pc = "ended"
  /\ stop' = [stop EXCEPT !.pc = "stopping"]
  /\ UNCHANGED <<env, actors, made, inc, pending, str, routes, resultCh, agg, handled>>

StopActor(k) ==
  /\ stop.pc = "stopping"
  /\ actors[k] # None
  /\ inc' = [inc EXCEPT ![actors[k]] = Stopped(actors[k])]
  /\ stop' = [stop EXCEPT !.awaited = @ \cup {actors[k]}]
  /\ actors' = [actors EXCEPT ![k] = None]
  /\ UNCHANGED <<env, made, pending, str, routes, resultCh, agg, handled>>

AllDead == \A i \in stop.awaited : inc[i].phase = "dead"

\* Mutant: done is closed before the actors are waited for.
CloseFirst ==
  \/ ~stop.done /\ stop' = [stop EXCEPT !.done = TRUE]
  \/ stop.done /\ AllDead /\ stop' = [stop EXCEPT !.pc = "waiting"]

\* close(done) when all actors of the maps are dead.
CloseDone == AllDead /\ stop' = [stop EXCEPT !.done = TRUE, !.pc = "waiting"]

StopClose ==
  /\ stop.pc = "stopping"
  /\ \A k \in Keys : actors[k] = None
  /\ CloseDone
  /\ UNCHANGED <<env, actors, made, inc, pending, str, routes, resultCh, agg, handled>>

\* wg.Wait returns when the aggregator has; passivationLoop needs only done.
StopEnd ==
  /\ stop.pc = "waiting"
  /\ ~agg.on
  /\ stop' = [stop EXCEPT !.pc = "stopped"]
  /\ UNCHANGED <<env, actors, made, inc, pending, str, routes, resultCh, agg, handled>>
-----------------------------------------------------------------------------
(* The resolver's routing table changes (module Discovery).                *)
Move(k) ==
  /\ env.changes < MaxChanges
  /\ env' = [env EXCEPT !.changes = @ + 1,
                        !.owned = IF k \in @ THEN @ \ {k} ELSE @ \cup {k}]
  /\ UNCHANGED <<actors, made, inc, pending, str, routes, resultCh, agg, stop, handled>>

StreamNext(s) ==
  \/ Check(s) \/ Reply(s) \/ Kill(s) \/ KillStop(s) \/ Lookup(s) \/ Create(s)
  \/ RehydrateFailed(s) \/ Rehydrated(s) \/ Route(s) \/ Put(s) \/ Undo(s)

LoopNext(i) == Dequeue(i) \/ Handle(i) \/ Emit(i) \/ Empty(i) \/ Wake(i)

StopNext == (\E k \in Keys : StopActor(k)) \/ StopClose \/ StopEnd

Next ==
  \/ \E s \in Streams : Receive(s) \/ StreamEnd(s) \/ StreamNext(s)
  \/ \E i \in Incs : LoopNext(i) \/ Drain(i) \/ DrainReply(i) \/ Passivate(i)
  \/ Collect \/ Tick \/ AggregatorExit \/ (\E s \in Streams : Hold(s)) \/ Release
  \/ StopBegin \/ StopNext
  \/ \E k \in Keys : Move(k)

Spec == Init /\ [][Next]_vars

\* Every goroutine that can run eventually does; nobody is bound to send a
\* batch, to read or to close a stream, to move a key, to be idle for a day, or to
\* begin Stop.  A Send that flow control holds back cannot run.
Fairness ==
  /\ \A s \in Streams : WF_vars(StreamNext(s))
  /\ \A i \in Incs : WF_vars(LoopNext(i)) /\ WF_vars(Drain(i) \/ DrainReply(i))
  /\ WF_vars(Collect) /\ WF_vars(Tick) /\ WF_vars(AggregatorExit)
  /\ WF_vars(StopNext)

FairSpec == Spec /\ Fairness
-----------------------------------------------------------------------------
(* Properties.                                                             *)

Results ==
  [req: Requests \cup {None}, to: Streams \cup {None}, code: {"none", "handled", "refused"}]

IncType ==
  [key: Keys, phase: {"none", "running", "stopping", "dead"}, queue: Seq(Requests),
   pc: {"none", "loop", "busy", "emit", "empty", "wait", "end"}, cur: Results,
   drain: {"none", "wait", "reply"}, list: Seq(Requests)]

StrType ==
  [pc: {"recv", "ended", "check", "reply", "kill", "killStop", "lookup", "create",
        "rehydrate", "route", "put", "undo"},
   todo: Seq(Requests), act: Incs \cup {None}, over: BOOLEAN, left: Seq(Batch)]

RecordsOK ==
  /\ made \in 0 .. MaxActors
  /\ actors \in [Keys -> Incs \cup {None}]
  /\ inc \in [Incs -> IncType]
  /\ str \in [Streams -> StrType]
  /\ DOMAIN routes \subseteq Requests /\ \A r \in DOMAIN routes : routes[r] \in Streams

\* Every variable keeps the type of the Go value it models, the backlog counter
\* does not wrap below zero, and channel and batch stay within their sizes.
TypeOK ==
  /\ RecordsOK
  /\ env.owned \subseteq Keys /\ env.held \in Streams \cup {None}
  /\ pending \in Nat
  /\ Len(resultCh) <= ChanSize /\ Len(agg.batch) < MaxBatchSize
  /\ stop.awaited \subseteq Incs

In(r, q) == {n \in DOMAIN q : q[n] = r}

\* The stream that a request arrives on.
Home ==
  [r \in Requests |->
     CHOOSE s \in Streams : \E b \in DOMAIN Batches[s] : In(r, Batches[s][b]) # {}]

StreamOf(r) == Home[r]

Received(r) ==
  LET left == str[StreamOf(r)].left IN \A b \in DOMAIN left : In(r, left[b]) = {}

WithHandler(r) == Cardinality(In(r, str[StreamOf(r)].todo))
WithActors(r) ==
  Cardinality({i \in Incs : inc[i].pc \in {"busy", "emit"} /\ inc[i].cur.req = r})
    + Cardinality(UNION {{i} \X In(r, inc[i].queue) : i \in Incs})
WithDrainers(r) == Cardinality(UNION {{i} \X In(r, inc[i].list) : i \in Incs})
WithAggregator(r) ==
  Cardinality(InResults(r, resultCh)) + Cardinality(InResults(r, agg.batch))
    + Len(agg.sent[r])

\* A request is never lost and never answered twice: from its arrival on it is
\* in exactly one place, with HandleBatch, an actor, a draining goroutine or
\* the aggregator, whatever eviction, passivation and retries do.
OnePlace ==
  \A r \in Requests :
    WithHandler(r) + WithActors(r) + WithDrainers(r) + WithAggregator(r)
      = IF Received(r) THEN 1 ELSE 0

\* replyRoutes holds exactly the requests whose answer is still to be made by
\* an actor or a draining goroutine, each with its own stream: no entry leaks
\* and Emit always finds the one it looks for.
RoutesExact ==
  \A r \in Requests :
    /\ r \in DOMAIN routes <=>
         \/ str[StreamOf(r)].pc \in {"put", "undo"} /\ Req(StreamOf(r)) = r
         \/ \E i \in Incs :
              \/ In(r, inc[i].queue) # {}
              \/ inc[i].pc = "busy" /\ inc[i].cur.req = r
              \/ In(r, inc[i].list) # {}
    /\ r \in DOMAIN routes => routes[r] = StreamOf(r)

Elements(q) == {q[n] : n \in DOMAIN q}

Answers ==
  Elements(resultCh) \cup Elements(agg.batch)
    \cup UNION {Elements(agg.sent[r]) : r \in Requests}

\* An error the node itself answers means that no actor has executed the
\* request, so the caller may send it to another node.
RefusedNotHandled == \A q \in Answers : q.code # "handled" => q.req \notin handled

\* An actor that accepts messages is the one in the shard map, or the eviction
\* that took it out of the map is about to stop it.
NoOrphan ==
  \A i \in Incs : inc[i].phase = "running" =>
    \/ actors[inc[i].key] = i
    \/ \E s \in Streams : str[s].pc = "killStop" /\ Act(s) = i

\* The message came after the actor's last look at its queue and nobody will
\* drain it.
Stranded(r) ==
  \E i \in Incs : inc[i].phase = "dead" /\ In(r, inc[i].queue) # {} /\ inc[i].drain # "wait"

\* Every request that is not stranded is answered on the stream it came on, if
\* that stream stays open, even when other streams break, and provided that the
\* aggregator is not held for ever, or again and again, by a stream that is open
\* and not read: one such stream stops the answers of all.  The requests of an
\* instance are finitely many and stay received, so this implies, per request,
\* that Received leads to an answer.
Answered ==
  <>[](env.held = None) =>
  <>[](\A r \in Requests : Received(r) =>
         \/ \E n \in DOMAIN agg.sent[r] : agg.sent[r][n].to = StreamOf(r)
         \/ Stranded(r)
         \/ str[StreamOf(r)].pc = "ended")

\* Stop returns: no actor is stuck in Emit on a full resultCh.
StopEnds == stop.pc = "stopping" ~> stop.pc = "stopped"

\* The last results of the actors Stop waited for are sent to their streams.
StopFlushesResults == stop.pc = "stopped" => \A r \in handled : agg.sent[r] # <<>>

\* The node seen from its streams (NodeService).
Service == INSTANCE NodeService WITH
  open <- {r \in Requests : agg.sent[r] = <<>> /\ Received(r)},
  executed <- handled,
  ended <- {s \in Streams : str[s].pc = "ended"},
  answers <- agg.sent

\* A request is executed only while it is received and not answered, answered at
\* most once and on its own stream, and answered "refused" exactly when it was
\* not, and never will be, executed.
ImplementsService == Service!Spec

\* No actor handles a request that an actor of this node has handled before.
HandledOnce == [][\A i \in Incs : Handle(i) => inc[i].cur.req \notin handled]_vars
=============================================================================
