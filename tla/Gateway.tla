------------------------------ MODULE Gateway ------------------------------
(***************************************************************************)
(* cmd/client: the Router, its NodeStreamers for one target address, and   *)
(* the calls of ExecuteAndWait and EmulateGatewayFlow that share them.     *)
(*                                                                         *)
(* A call and its request have one name.  The node answers a request that  *)
(* reached it at any time or never, the stream can break at any time, and  *)
(* the node can stop reading it.  Calls are the calls that are followed;   *)
(* the others of the process show only where they fill envelopeCh.         *)
(* sync.Map operations are atomic, and so is what a shard's lock covers,   *)
(* except FailAll, which sends on channels with the lock held.             *)
(***************************************************************************)
EXTENDS Integers, Sequences, FiniteSets, Functions

CONSTANTS
  Calls,
  Fire,         \* those of EmulateGatewayFlow, which have no respCh
  Shards,       \* the number of shards of a callback map
  ShardOf,      \* the shard of a request
  BatchSize,    \* targetSize
  MaxStreamers, \* bound: streamers created
  MaxFaults     \* bound: streams that break or stall

None == 0

ASSUME GatewayAssumption ==
  /\ None \notin Calls /\ Fire \subseteq Calls
  /\ Shards \in Nat \ {0} /\ ShardOf \in [Calls -> 0 .. Shards - 1]
  /\ BatchSize \in Nat \ {0} /\ MaxStreamers \in Nat \ {0} /\ MaxFaults \in Nat

Streamers == 1 .. MaxStreamers

VARIABLES
  streamers, \* the entry of the address in Router.streamers, or None
  made,      \* streamers created
  mu,        \* is Router.mu held?
  call,      \* per call: where it is, its streamer, its attempts, respCh, result
  st,        \* per streamer: see NewStreamer
  faults,
  stop       \* StopAll: where it is and the streamer it waits for

router == <<streamers, made, mu>>
vars == <<router, call, st, faults, stop>>

NewCall ==
  [pc |-> "idle", ns |-> None, attempts |-> 0, respCh |-> "none", result |-> "none",
   late |-> FALSE] \* history: the callback was stored behind FailAll's back

NewStreamer ==
  [callbacks |-> {},     \* callbackMap
   envelopeCh |-> <<>>, batch |-> {},
   wire |-> {},          \* requests sent and not answered
   flusher |-> "run",    \* run, send, last, end
   receiver |-> "run",   \* run, deliver, end
   rcv |-> None,         \* the request whose result is delivered
   fail |-> "no",        \* failOnce: no, load, evict, lock, hold, close, done
   shard |-> 0,          \* the shard FailAll is at
   dead |-> FALSE, ctxDone |-> FALSE, stopCh |-> FALSE,
   halfClosed |-> FALSE, broken |-> FALSE, \* the stream
   stalled |-> FALSE]    \* its window is used up and the node does not read

Init ==
  /\ streamers = None /\ made = 0 /\ mu = FALSE
  /\ call = [c \in Calls |-> NewCall]
  /\ st = [s \in Streamers |-> NewStreamer]
  /\ faults = 0
  /\ stop = [pc |-> "run", s |-> None]
-----------------------------------------------------------------------------
(* The calls: dispatchEnvelope with getStreamer, and ExecuteAndWait.       *)

At(c, l) == call[c].pc = l

Goto(c, l) == call' = [call EXCEPT ![c].pc = l]

Use(c, s, l) == call' = [call EXCEPT ![c].ns = s, ![c].pc = l]

Return(c, r) == call' = [call EXCEPT ![c].pc = "done", ![c].result = r]

Live(s) == s # None /\ ~st[s].dead

\* May somebody else than FailAll use the shard of c in the map of s?
Unlocked(s, c) == ~(st[s].fail = "hold" /\ st[s].shard = ShardOf[c])

\* GetNodeIP has no address for the call.
NoNode(c) ==
  /\ At(c, "idle") /\ stop.pc # "stopped"
  /\ Return(c, "discovery")
  /\ UNCHANGED <<router, st, faults, stop>>

\* The first look of getStreamer at the map.
Load(c) ==
  /\ IF Live(streamers) THEN Use(c, streamers, "store")
     ELSE Goto(c, IF streamers = None THEN "lock" ELSE "delete")
  /\ UNCHANGED <<router, st, faults, stop>>

\* GetNodeIP gives the address, and the first attempt begins.
Begin(c) == At(c, "idle") /\ stop.pc # "stopped" /\ Load(c)

Again(c) == At(c, "again") /\ Load(c)

\* The entry is deleted, whichever streamer it names by now.
DeleteDead(c) ==
  /\ At(c, "delete")
  /\ streamers' = None
  /\ Goto(c, "lock")
  /\ UNCHANGED <<made, mu, st, faults, stop>>

\* The double check under mu; mu stays locked unless a live streamer is found.
Lock(c) ==
  /\ At(c, "lock")
  /\ ~mu
  /\ IF Live(streamers) THEN Use(c, streamers, "store") /\ UNCHANGED mu
     ELSE Goto(c, "create") /\ mu' = TRUE
  /\ UNCHANGED <<streamers, made, st, faults, stop>>

\* The dead entry goes, and NewNodeStreamer starts both goroutines.
Create(c) ==
  /\ At(c, "create")
  /\ made < MaxStreamers
  /\ made' = made + 1
  /\ streamers' = None
  /\ Use(c, made + 1, "publish")
  /\ UNCHANGED <<mu, st, faults, stop>>


\* The deferred Unlock, with the streamer created or None.
UnlockAfter(s) == mu' = FALSE

CreateFailed(c) ==
  /\ At(c, "create")
  /\ streamers' = None
  /\ UnlockAfter(None)
  /\ Return(c, "connection")
  /\ UNCHANGED <<made, st, faults, stop>>

Publish(c) ==
  /\ At(c, "publish")
  /\ streamers' = call[c].ns
  /\ UnlockAfter(call[c].ns)
  /\ Goto(c, "store")
  /\ UNCHANGED <<made, st, faults, stop>>

\* FailAll of s has dealt with the shard of c and does not come back.
Passed(s, c) ==
  st[s].fail \in {"close", "done"} \/ (st[s].fail = "hold" /\ st[s].shard > ShardOf[c])

\* Nobody asks whether the streamer has died.
StoreCallback(c) ==
  LET s == call[c].ns IN
  /\ At(c, "store")
  /\ Unlocked(s, c)
  /\ st' = [st EXCEPT ![s].callbacks = @ \cup {c}]
  /\ call' = [call EXCEPT ![c].pc = "offer", ![c].late = Passed(s, c)]
  /\ UNCHANGED <<router, faults, stop>>

\* select: the envelope is taken, even if the streamer has died, if envelopeCh
\* has room, which it has not behind a stalled Send, ...
Offer(c) ==
  LET s == call[c].ns IN
  /\ At(c, "offer")
  /\ Len(st[s].envelopeCh) < 2 * BatchSize /\ ~st[s].stalled
  /\ st' = [st EXCEPT ![s].envelopeCh = Append(@, c)]
  /\ IF c \in Fire THEN Return(c, "sent") ELSE Goto(c, "wait")
  /\ UNCHANGED <<router, faults, stop>>

NextAttempt(c) ==
  call' = [call EXCEPT ![c].attempts = @ + 1,
             ![c].pc = IF call[c].attempts = 1 THEN "done" ELSE "again",
             ![c].result = IF call[c].attempts = 1 THEN "closed" ELSE @]

\* Mutant: the callback stays with the closed streamer.
DeleteNothing(s, c) == st

DeleteCallback(s, c) == [st EXCEPT ![s].callbacks = @ \ {c}]

\* ... or the streamer's context has ended, and the next attempt begins.
\* FailAll is over by then, so the shard is free.
Retry(c) ==
  LET s == call[c].ns IN
  /\ At(c, "offer")
  /\ st[s].ctxDone
  /\ st' = DeleteCallback(s, c)
  /\ NextAttempt(c)
  /\ UNCHANGED <<router, faults, stop>>

Receive(c) ==
  /\ At(c, "wait")
  /\ call[c].respCh # "none"
  /\ call' = [call EXCEPT ![c].pc = "done", ![c].result = call[c].respCh,
                          ![c].respCh = "none"]
  /\ UNCHANGED <<router, st, faults, stop>>

\* The timer; select may prefer it to a result that is there too.
Timeout(c) ==
  /\ At(c, "wait")
  /\ Goto(c, "cleanup")
  /\ UNCHANGED <<router, st, faults, stop>>

\* callbackTimeout visits the streamers that are in the map.
Cleanup(c) ==
  /\ At(c, "cleanup")
  /\ IF streamers = None THEN UNCHANGED st
     ELSE /\ Unlocked(streamers, c)
          /\ st' = DeleteCallback(streamers, c)
  /\ Return(c, "timeout")
  /\ UNCHANGED <<router, faults, stop>>
-----------------------------------------------------------------------------
(* A streamer's two goroutines.                                            *)

\* A call of fail.  The first one marks the streamer dead and runs the steps of
\* failOnce below; a later one waits until they are done.
Failing(r) == IF r.fail = "no" THEN [r EXCEPT !.fail = "load", !.dead = TRUE] ELSE r

\* Mutant: the batch is sent one envelope too late.
FullLate(b) == Cardinality(b) > BatchSize

Full(b) == Cardinality(b) >= BatchSize

Take(s) ==
  /\ s <= made /\ st[s].flusher = "run"
  /\ st[s].envelopeCh # <<>>
  /\ LET b == st[s].batch \cup {Head(st[s].envelopeCh)} IN
       st' = [st EXCEPT ![s].envelopeCh = Tail(@), ![s].batch = b,
                        ![s].flusher = IF Full(b) THEN "send" ELSE "run"]
  /\ UNCHANGED <<router, call, faults, stop>>

Tick(s) ==
  /\ s <= made /\ st[s].flusher = "run"
  /\ st[s].batch # {}
  /\ st' = [st EXCEPT ![s].flusher = "send"]
  /\ UNCHANGED <<router, call, faults, stop>>

\* stopCh or the context, whatever envelopeCh still holds.
FlusherLeave(s) ==
  /\ s <= made /\ st[s].flusher = "run"
  /\ \/ st[s].stopCh /\ st' = [st EXCEPT ![s].flusher = "last"]
     \/ st[s].ctxDone /\ st' = [st EXCEPT ![s].flusher = "end"]
  /\ UNCHANGED <<router, call, faults, stop>>

\* Mutant: the batch is not emptied after the Send.
SentKept(r) ==
  [r EXCEPT !.wire = @ \cup r.batch, !.halfClosed = r.flusher = "last",
            !.flusher = IF @ = "last" THEN "end" ELSE "run"]


\* sendBatch has succeeded; the last one is followed by CloseSend.
Sent(r) ==
  [r EXCEPT !.wire = @ \cup r.batch, !.batch = {}, !.halfClosed = r.flusher = "last",
            !.flusher = IF @ = "last" THEN "end" ELSE "run"]

SendFails(s) == st[s].batch # {} /\ (st[s].broken \/ st[s].ctxDone)

\* stream.Send does not return: flow control holds it back.
SendWaits(s) == st[s].stalled /\ ~st[s].broken /\ ~st[s].ctxDone

\* sendBatch, which does nothing for an empty batch.
Send(s) ==
  /\ st[s].flusher \in {"send", "last"}
  /\ ~SendWaits(s)
  /\ st' = [st EXCEPT ![s] =
              IF SendFails(s) THEN [Failing(@) EXCEPT !.flusher = "end"] ELSE Sent(@)]
  /\ UNCHANGED <<router, call, faults, stop>>

\* A result arrives: LoadAndDelete.
Recv(s, c) ==
  /\ st[s].receiver = "run"
  /\ c \in st[s].wire /\ ~st[s].ctxDone
  /\ Unlocked(s, c)
  /\ LET waits == c \in st[s].callbacks \ Fire IN
       st' = [st EXCEPT ![s].wire = @ \ {c}, ![s].callbacks = @ \ {c},
                        ![s].rcv = IF waits THEN c ELSE None,
                        ![s].receiver = IF waits THEN "deliver" ELSE "run"]
  /\ UNCHANGED <<router, call, faults, stop>>

\* A send on respCh, which has room for one result.
Respond(c, r) == call[c].respCh = "none" /\ call' = [call EXCEPT ![c].respCh = r]

Deliver(s) ==
  /\ st[s].receiver = "deliver"
  /\ Respond(st[s].rcv, "answered")
  /\ st' = [st EXCEPT ![s].rcv = None, ![s].receiver = "run"]
  /\ UNCHANGED <<router, faults, stop>>

\* An error, or the end of the stream: the node returns when it sees CloseSend.
RecvError(s) ==
  /\ s <= made /\ st[s].receiver = "run"
  /\ st[s].broken \/ st[s].ctxDone \/ st[s].halfClosed
  /\ st' = [st EXCEPT ![s] = [Failing(@) EXCEPT !.receiver = "end"]]
  /\ UNCHANGED <<router, call, faults, stop>>

\* The done channel is closed: receiverLoop has left fail.
Done(s) == st[s].receiver = "end" /\ st[s].ctxDone
-----------------------------------------------------------------------------
(* The rest of fail.                                                       *)

\* evictStreamer compares, ...
EvictLoad(s) ==
  /\ st[s].fail = "load"
  /\ st' = [st EXCEPT ![s].fail = IF streamers = s THEN "evict" ELSE "lock"]
  /\ UNCHANGED <<router, call, faults, stop>>

\* ... and deletes the entry, whichever it is by now.
EvictDelete(s) ==
  /\ st[s].fail = "evict"
  /\ streamers' = None
  /\ st' = [st EXCEPT ![s].fail = "lock"]
  /\ UNCHANGED <<made, mu, call, faults, stop>>

FailLock(s) ==
  /\ st[s].fail = "lock"
  /\ st' = [st EXCEPT ![s].fail = "hold"]
  /\ UNCHANGED <<router, call, faults, stop>>

\* Mutant: the callback is dropped without a result.
FailSilently(c) == UNCHANGED call

\* The send blocks while respCh is full.
FailCallback(c) == IF c \in Fire THEN UNCHANGED call ELSE Respond(c, "failed")

\* One callback of the shard.
FailOne(s, c) ==
  /\ st[s].fail = "hold"
  /\ c \in st[s].callbacks /\ ShardOf[c] = st[s].shard
  /\ FailCallback(c)
  /\ st' = DeleteCallback(s, c)
  /\ UNCHANGED <<router, faults, stop>>

\* FailAll goes to the next shard; what happens to it between the two locks
\* might as well have happened before.
FailUnlock(s) ==
  /\ st[s].fail = "hold"
  /\ \A c \in st[s].callbacks : ShardOf[c] # st[s].shard
  /\ st' = IF st[s].shard = Shards - 1 THEN [st EXCEPT ![s].fail = "close"]
           ELSE [st EXCEPT ![s].shard = @ + 1]
  /\ UNCHANGED <<router, call, faults, stop>>

\* closeTransport.
FailClose(s) ==
  /\ st[s].fail = "close"
  /\ st' = [st EXCEPT ![s].fail = "done", ![s].ctxDone = TRUE]
  /\ UNCHANGED <<router, call, faults, stop>>
-----------------------------------------------------------------------------
(* StopAll.  ListenAndServe returns as soon as Shutdown begins, so there   *)
(* may be calls under way.                                                 *)

StopBegin ==
  /\ stop.pc = "run"
  /\ stop' = [pc |-> IF streamers = None THEN "stopped" ELSE "waiting", s |-> streamers]
  /\ st' = IF Live(streamers) THEN [st EXCEPT ![streamers].stopCh = TRUE] ELSE st
  /\ UNCHANGED <<router, call, faults>>

StopEnd ==
  /\ stop.pc = "waiting"
  /\ Done(stop.s)
  /\ stop' = [stop EXCEPT !.pc = "stopped"]
  /\ UNCHANGED <<router, call, st, faults>>

\* The stream fails in both directions.
Break(s) ==
  /\ s <= made /\ ~st[s].broken
  /\ IF st[s].stalled THEN UNCHANGED faults
     ELSE faults < MaxFaults /\ faults' = faults + 1
  /\ st' = [st EXCEPT ![s].broken = TRUE]
  /\ UNCHANGED <<router, call, stop>>

\* The node reads no more of the stream, for good: flow control holds back the
\* Send that the flusher is in, and other callers' envelopes fill envelopeCh.
Stall(s) ==
  /\ st[s].flusher \in {"send", "last"} /\ st[s].batch # {}
  /\ ~st[s].stalled /\ ~st[s].broken /\ ~st[s].ctxDone
  /\ faults < MaxFaults
  /\ faults' = faults + 1
  /\ st' = [st EXCEPT ![s].stalled = TRUE]
  /\ UNCHANGED <<router, call, stop>>

CallNext(c) ==
  \/ Again(c) \/ DeleteDead(c) \/ Lock(c) \/ Create(c) \/ CreateFailed(c) \/ Publish(c)
  \/ StoreCallback(c) \/ Offer(c) \/ Retry(c) \/ Receive(c) \/ Timeout(c) \/ Cleanup(c)

FlusherNext(s) == Take(s) \/ Tick(s) \/ FlusherLeave(s) \/ Send(s)

ReceiverNext(s) == Deliver(s) \/ RecvError(s)

FailNext(s) ==
  \/ EvictLoad(s) \/ EvictDelete(s) \/ FailLock(s)
  \/ (\E c \in Calls : FailOne(s, c)) \/ FailUnlock(s) \/ FailClose(s)

Next ==
  \/ \E c \in Calls : NoNode(c) \/ Begin(c) \/ CallNext(c)
  \/ \E s \in Streamers :
       \/ FlusherNext(s) \/ ReceiverNext(s) \/ FailNext(s) \/ Break(s) \/ Stall(s)
       \/ \E c \in Calls : Recv(s, c)
  \/ StopBegin \/ StopEnd

Spec == Init /\ [][Next]_vars

\* Every goroutine that can run eventually does, and timers run out.  Nobody is
\* bound to call, to stop, to break a stream or to stop reading one, and the node
\* need not answer; it ends a stream that the client has closed.  A Send that
\* flow control holds back cannot run, and nothing makes it return.
Fairness ==
  /\ \A c \in Calls : WF_vars(CallNext(c))
  /\ \A s \in Streamers :
       WF_vars(FlusherNext(s)) /\ WF_vars(ReceiverNext(s)) /\ WF_vars(FailNext(s))
  /\ WF_vars(StopEnd)

FairSpec == Spec /\ Fairness
-----------------------------------------------------------------------------
(* Properties.                                                             *)

CallType ==
  [pc: {"idle", "again", "delete", "lock", "create", "publish", "store", "offer", "wait",
        "cleanup", "done"},
   ns: Streamers \cup {None}, attempts: 0 .. 2, respCh: {"none", "answered", "failed"},
   result: {"none", "discovery", "connection", "closed", "sent", "answered", "failed",
            "timeout"},
   late: BOOLEAN]

StreamerType ==
  [callbacks: SUBSET Calls, envelopeCh: Seq(Calls), batch: SUBSET Calls, wire: SUBSET Calls,
   flusher: {"run", "send", "last", "end"}, receiver: {"run", "deliver", "end"},
   rcv: Calls \cup {None},
   fail: {"no", "load", "evict", "lock", "hold", "close", "done"}, shard: 0 .. Shards - 1,
   dead: BOOLEAN, ctxDone: BOOLEAN, stopCh: BOOLEAN, halfClosed: BOOLEAN, broken: BOOLEAN,
   stalled: BOOLEAN]

\* Every variable keeps the type of the Go value it models, no channel holds
\* more than its capacity, and the flusher never goes on with a full batch.
TypeOK ==
  /\ streamers \in 0 .. made /\ made \in 0 .. MaxStreamers /\ mu \in BOOLEAN
  /\ call \in [Calls -> CallType]
  /\ st \in [Streamers -> StreamerType]
  /\ \A c \in Calls : call[c].ns <= made
  /\ \A s \in Streamers :
       /\ Len(st[s].envelopeCh) <= 2 * BatchSize
       /\ st[s].flusher = "run" => Cardinality(st[s].batch) < BatchSize

\* The streamer has the request: queued, in the batch, or sent and unanswered.
Has(s, c) == c \in Range(st[s].envelopeCh) \cup st[s].batch \cup st[s].wire

\* ... or delivers its result.
Carries(s, c) == Has(s, c) \/ st[s].rcv = c

\* A call that waits with nothing in respCh can still be resolved by the
\* streamer that took its envelope: its result is about to be delivered, or its
\* callback is registered there and, if the streamer is failing, FailAll has yet
\* to come to it.  No eviction, retry, failure or clean-up of another call takes
\* the callback away silently, and FailAll leaves none behind.  The exception is
\* a callback stored after FailAll had passed its shard: nothing but the timer
\* of its call comes back to it.
Resolvable ==
  \A c \in Calls : At(c, "wait") /\ call[c].respCh = "none" =>
    \E s \in Streamers :
      \/ st[s].rcv = c
      \/ c \in st[s].callbacks /\ Has(s, c) /\ (Passed(s, c) => call[c].late)

\* A request is on its way in at most one place: no failure, retry or second
\* streamer makes the transport send it twice.
SentOnce ==
  \A s \in Streamers :
    /\ IsInjective(st[s].envelopeCh)
    /\ Range(st[s].envelopeCh) \cap (st[s].batch \cup st[s].wire) = {}
    /\ st[s].batch \cap st[s].wire = {}
    /\ \A c \in Calls :
         /\ ~(st[s].rcv = c /\ Has(s, c))
         /\ Carries(s, c) => \A t \in Streamers \ {s} : ~Carries(t, c)

\* A call that dispatchEnvelope itself fails has left nothing behind: no
\* streamer has its envelope or its callback, so the caller may send it again.
RefusedNotSent ==
  \A c \in Calls : call[c].result \in {"discovery", "connection", "closed"} =>
    \A s \in Streamers : ~Carries(s, c) /\ c \notin st[s].callbacks

\* A streamer's goroutine waits, perhaps with a shard locked, to send on the
\* full respCh of a call that has taken its timer and will never read it.
Wedged ==
  \E s \in Streamers, c \in Calls :
    /\ call[c].pc \in {"cleanup", "done"} /\ call[c].respCh # "none"
    /\ \/ st[s].rcv = c
       \/ st[s].fail = "hold" /\ c \in st[s].callbacks /\ ShardOf[c] = st[s].shard

\* The select of dispatchEnvelope waits for room that a stalled Send never makes.
\* The timer of ExecuteAndWait starts only behind it.
Blocked(c) == At(c, "offer") /\ SendWaits(call[c].ns)


\* StopAll waits for a streamer whose Send does not return.
StopBlocked == stop.pc = "waiting" /\ SendWaits(stop.s)

\* StopAll returns: the streamer it waits for ends, unless its Send never
\* returns or it is wedged.
StopEnds ==
  []<>~StopBlocked => (stop.pc = "waiting" ~> stop.pc = "stopped" \/ Wedged)

\* A call that timed out has no callback left with a live streamer.
TimeoutForgets ==
  \A c \in Calls : call[c].result = "timeout" =>
    \A s \in Streamers : c \in st[s].callbacks => st[s].dead

=============================================================================
