---------------------------- MODULE GatewayProofs ----------------------------
(***************************************************************************)
(* Proofs about Gateway, for any number of calls, streamers, shards and    *)
(* faults and any size of a batch.                                         *)
(***************************************************************************)
EXTENDS Gateway, FiniteSetTheorems, TLAPS

-----------------------------------------------------------------------------
(* The inductive invariant.                                                *)

\* What the calls' program counters say about their places in the streamers.

Nowhere(c) == \A s \in Streamers : ~Carries(s, c) /\ c \notin st[s].callbacks

\* A call holds nothing before StoreCallback and has no envelope anywhere
\* before Offer; a result is set only when the call is done; a call that was
\* refused has nothing left.
Placed(c) ==
  /\ call[c].pc \in {"idle", "again", "delete", "lock", "create", "publish", "store"}
       => Nowhere(c)
  /\ call[c].pc = "offer" =>
       \A s \in Streamers : ~Carries(s, c) /\ (c \in st[s].callbacks => s = call[c].ns)
  /\ call[c].pc # "done" => call[c].result = "none" /\ call[c].attempts < 2
  /\ call[c].result \in {"discovery", "connection", "closed"} => Nowhere(c)
  /\ call[c].pc \in {"publish", "store", "offer"} => call[c].ns \in Streamers

\* The callback is registered, and FailAll has not passed it unless it came late.
Ahead(s, c) == c \in st[s].callbacks /\ (Passed(s, c) => call[c].late)

\* A call without a result is registered with the streamer it uses, or its
\* result is being delivered.
Awaited(c) ==
  /\ c \in Fire => call[c].pc # "wait"
  /\ call[c].pc = "offer" /\ call[c].respCh = "none" => Ahead(call[c].ns, c) \/ c \in Fire
  /\ call[c].pc = "wait" /\ call[c].respCh = "none" =>
       \E s \in Streamers : st[s].rcv = c \/ (Ahead(s, c) /\ Has(s, c))

\* FailAll begins with the first shard.
Unfailed(s) == st[s].fail \in {"no", "load", "evict", "lock"} => st[s].shard = 0

Sound(s) ==
  IsFiniteSet(st[s].batch) /\ (st[s].receiver = "deliver" <=> st[s].rcv # None) /\ Unfailed(s)

IInv ==
  /\ TypeOK
  /\ \A s \in Streamers : Sound(s)
  /\ \A c \in Calls : Placed(c) /\ Awaited(c)
  /\ SentOnce

-----------------------------------------------------------------------------
(* Types.                                                                  *)

LEMMA StFields ==
  ASSUME TypeOK, NEW s \in Streamers
  PROVE  /\ st[s] \in StreamerType
         /\ st[s].callbacks \in SUBSET Calls /\ st[s].envelopeCh \in Seq(Calls)
         /\ st[s].batch \in SUBSET Calls /\ st[s].wire \in SUBSET Calls
         /\ st[s].rcv \in Calls \cup {None} /\ st[s].shard \in 0 .. Shards - 1
         /\ st[s].flusher \in {"run", "send", "last", "end"}
         /\ st[s].receiver \in {"run", "deliver", "end"}
         /\ Len(st[s].envelopeCh) <= 2 * BatchSize
         /\ st[s].flusher = "run" => Cardinality(st[s].batch) < BatchSize
  BY DEF TypeOK, StreamerType

LEMMA CallFields ==
  ASSUME TypeOK, NEW c \in Calls
  PROVE  /\ call[c] \in CallType
         /\ call[c].ns \in Streamers \cup {None} /\ call[c].ns <= made
         /\ call[c].attempts \in 0 .. 2
         /\ call[c].respCh \in {"none", "answered", "failed"}
  BY DEF TypeOK, CallType

\* What a step does that gives streamer s the record x.
LEMMA StSet ==
  ASSUME TypeOK, NEW s \in Streamers, NEW x \in StreamerType, st' = [st EXCEPT ![s] = x]
  PROVE  /\ st' \in [Streamers -> StreamerType]
         /\ st'[s] = x
         /\ \A t \in Streamers \ {s} : st'[t] = st[t]
  BY DEF TypeOK

LEMMA CallSet ==
  ASSUME TypeOK, NEW c \in Calls, NEW x \in CallType, call' = [call EXCEPT ![c] = x]
  PROVE  /\ call' \in [Calls -> CallType]
         /\ call'[c] = x
         /\ \A d \in Calls \ {c} : call'[d] = call[d]
  BY DEF TypeOK

\* The parts of a streamer that the calls' places depend on.
SameRequests(s) ==
  /\ st'[s].envelopeCh = st[s].envelopeCh /\ st'[s].batch = st[s].batch
  /\ st'[s].wire = st[s].wire /\ st'[s].rcv = st[s].rcv

SameData(s) == SameRequests(s) /\ st'[s].callbacks = st[s].callbacks

\* FailAll stays where it is, ...
SameFail(s) == st'[s].fail = st[s].fail /\ st'[s].shard = st[s].shard

\* ... or passes no callback that is there.
Spares(s) == \A c \in st[s].callbacks : Passed(s, c)' => Passed(s, c)

LEMMA StillAhead ==
  ASSUME NEW s \in Streamers, SameFail(s)
  PROVE  /\ \A c \in Calls : Passed(s, c)' <=> Passed(s, c)
         /\ Unfailed(s) => Unfailed(s)'
  BY DEF SameFail, Passed, Unfailed

\* A step of a streamer's goroutines that moves no request.
Quiet(s) ==
  \/ Tick(s) \/ FlusherLeave(s) \/ RecvError(s) \/ EvictLoad(s) \/ EvictDelete(s)
  \/ FailLock(s) \/ FailUnlock(s) \/ FailClose(s) \/ Break(s) \/ Stall(s)
  \/ Send(s) /\ SendFails(s)

LEMMA QuietEffect ==
  ASSUME IInv, NEW s \in Streamers, Quiet(s)
  PROVE  /\ st' \in [Streamers -> StreamerType]
         /\ \A t \in Streamers \ {s} : st'[t] = st[t]
         /\ SameData(s)
         /\ st'[s].receiver = "deliver" <=> st[s].receiver = "deliver"
         /\ st'[s].flusher = "run" => st[s].flusher = "run"
  <1> DEFINE Effect(x) == /\ x.callbacks = st[s].callbacks /\ x.envelopeCh = st[s].envelopeCh
                          /\ x.batch = st[s].batch /\ x.wire = st[s].wire /\ x.rcv = st[s].rcv
                          /\ x.receiver = "deliver" <=> st[s].receiver = "deliver"
                          /\ x.flusher = "run" => st[s].flusher = "run"
  <1>0. TypeOK
    BY DEF IInv
  <1> SUFFICES \E x \in StreamerType : Effect(x) /\ st' = [st EXCEPT ![s] = x]
    BY Zenon, <1>0, StSet DEF SameData, SameRequests
  <1> HIDE DEF Effect
  <1>1. CASE Tick(s)
    <2> DEFINE x == [st[s] EXCEPT !.flusher = "send"]
    <2>1. x \in StreamerType /\ Effect(x)
      BY <1>0, <1>1, StFields DEF StreamerType, Effect
    <2>2. st' = [st EXCEPT ![s] = x]
      BY <1>0, <1>1 DEF Tick, TypeOK
    <2> QED BY Zenon, <2>1, <2>2
  <1>2. CASE FlusherLeave(s) /\ st'[s].flusher = "last"
    <2> DEFINE x == [st[s] EXCEPT !.flusher = "last"]
    <2>1. x \in StreamerType /\ Effect(x)
      BY SMTT(40), <1>0, <1>2, StFields DEF StreamerType, Effect
    <2>2. st' = [st EXCEPT ![s] = x]
      BY <1>0, <1>2 DEF FlusherLeave, TypeOK
    <2> QED BY Zenon, <2>1, <2>2
  <1>3. CASE FlusherLeave(s) /\ st'[s].flusher # "last"
    <2> DEFINE x == [st[s] EXCEPT !.flusher = "end"]
    <2>1. x \in StreamerType /\ Effect(x)
      BY <1>0, <1>3, StFields DEF StreamerType, Effect
    <2>2. st' = [st EXCEPT ![s] = x]
      BY <1>0, <1>3 DEF FlusherLeave, TypeOK
    <2> QED BY Zenon, <2>1, <2>2
  <1>4. CASE RecvError(s)
    <2> DEFINE x == [Failing(st[s]) EXCEPT !.receiver = "end"]
    <2>1. x \in StreamerType /\ Effect(x)
      BY <1>0, <1>4, StFields, ZenonT(60) DEF StreamerType, Effect, Failing, RecvError
    <2>2. st' = [st EXCEPT ![s] = x]
      BY <1>0, <1>4 DEF RecvError, TypeOK
    <2> QED BY Zenon, <2>1, <2>2
  <1>5. CASE EvictLoad(s) /\ streamers = s
    <2> DEFINE x == [st[s] EXCEPT !.fail = "evict"]
    <2>1. x \in StreamerType /\ Effect(x)
      BY <1>0, <1>5, StFields DEF StreamerType, Effect
    <2>2. st' = [st EXCEPT ![s] = x]
      BY <1>0, <1>5 DEF EvictLoad, TypeOK
    <2> QED BY Zenon, <2>1, <2>2
  <1>6. CASE EvictLoad(s) /\ streamers # s
    <2> DEFINE x == [st[s] EXCEPT !.fail = "lock"]
    <2>1. x \in StreamerType /\ Effect(x)
      BY <1>0, <1>6, StFields DEF StreamerType, Effect
    <2>2. st' = [st EXCEPT ![s] = x]
      BY <1>0, <1>6 DEF EvictLoad, TypeOK
    <2> QED BY Zenon, <2>1, <2>2
  <1>7. CASE EvictDelete(s)
    <2> DEFINE x == [st[s] EXCEPT !.fail = "lock"]
    <2>1. x \in StreamerType /\ Effect(x)
      BY <1>0, <1>7, StFields DEF StreamerType, Effect
    <2>2. st' = [st EXCEPT ![s] = x]
      BY <1>0, <1>7 DEF EvictDelete, TypeOK
    <2> QED BY Zenon, <2>1, <2>2
  <1>8. CASE FailLock(s)
    <2> DEFINE x == [st[s] EXCEPT !.fail = "hold"]
    <2>1. x \in StreamerType /\ Effect(x)
      BY <1>0, <1>8, StFields DEF StreamerType, Effect
    <2>2. st' = [st EXCEPT ![s] = x]
      BY <1>0, <1>8 DEF FailLock, TypeOK
    <2> QED BY Zenon, <2>1, <2>2
  <1>9. CASE FailUnlock(s) /\ st[s].shard = Shards - 1
    <2> DEFINE x == [st[s] EXCEPT !.fail = "close"]
    <2>1. x \in StreamerType /\ Effect(x)
      BY <1>0, <1>9, StFields DEF StreamerType, Effect
    <2>2. st' = [st EXCEPT ![s] = x]
      BY <1>0, <1>9 DEF FailUnlock, TypeOK
    <2> QED BY Zenon, <2>1, <2>2
  <1>10. CASE FailUnlock(s) /\ st[s].shard # Shards - 1
    <2> DEFINE x == [st[s] EXCEPT !.shard = @ + 1]
    <2>0. st[s].shard + 1 \in 0 .. Shards - 1
      BY <1>0, <1>10, StFields, GatewayAssumption
    <2>1. x \in StreamerType /\ Effect(x)
      BY <1>0, <2>0, StFields DEF StreamerType, Effect
    <2>2. st' = [st EXCEPT ![s] = x]
      BY <1>0, <1>10 DEF FailUnlock, TypeOK
    <2> QED BY Zenon, <2>1, <2>2
  <1>11. CASE FailClose(s)
    <2> DEFINE x == [st[s] EXCEPT !.fail = "done", !.ctxDone = TRUE]
    <2>1. x \in StreamerType /\ Effect(x)
      BY <1>0, <1>11, StFields, ZenonT(60) DEF StreamerType, Effect
    <2>2. st' = [st EXCEPT ![s] = x]
      BY Zenon, <1>0, <1>11 DEF FailClose, TypeOK
    <2> QED BY Zenon, <2>1, <2>2
  <1>12. CASE Break(s)
    <2> DEFINE x == [st[s] EXCEPT !.broken = TRUE]
    <2>1. x \in StreamerType /\ Effect(x)
      BY Zenon, <1>0, <1>12, StFields DEF StreamerType, Effect
    <2>2. st' = [st EXCEPT ![s] = x]
      BY <1>0, <1>12 DEF Break, TypeOK
    <2> QED BY Zenon, <2>1, <2>2
  <1>13. CASE Send(s) /\ SendFails(s)
    <2> DEFINE x == [Failing(st[s]) EXCEPT !.flusher = "end"]
    <2>1. x \in StreamerType /\ Effect(x)
      BY <1>0, <1>13, StFields, ZenonT(60) DEF StreamerType, Effect, Failing
    <2>2. st' = [st EXCEPT ![s] = x]
      BY Zenon, <1>0, <1>13 DEF Send, SendFails, TypeOK
    <2> QED BY Zenon, <2>1, <2>2
  <1>14. CASE Stall(s)
    <2> DEFINE x == [st[s] EXCEPT !.stalled = TRUE]
    <2>1. x \in StreamerType /\ Effect(x)
      BY Zenon, <1>0, <1>14, StFields DEF StreamerType, Effect
    <2>2. st' = [st EXCEPT ![s] = x]
      BY <1>0, <1>14 DEF Stall, TypeOK
    <2> QED BY Zenon, <2>1, <2>2
  <1> QED BY <1>1, <1>2, <1>3, <1>4, <1>5, <1>6, <1>7, <1>8, <1>9, <1>10, <1>11, <1>12, <1>13,
             <1>14 DEF Quiet

\* FailAll leaves a shard only when no callback is left there.
LEMMA QuietFail ==
  ASSUME IInv, NEW s \in Streamers, Quiet(s)
  PROVE  Unfailed(s)' /\ Spares(s)
  <1> DEFINE F == st[s].fail
             K == st[s].shard
             Before == {"no", "load", "evict", "lock"}
  <1>0. /\ st \in [Streamers -> StreamerType] /\ st[s] \in StreamerType /\ Unfailed(s)
        /\ K \in 0 .. Shards - 1 /\ st[s].callbacks \subseteq Calls
    BY StFields DEF IInv, Sound, TypeOK
  <1>1. \A c \in Calls : ShardOf[c] \in 0 .. Shards - 1
    BY GatewayAssumption
  <1>2. CASE Tick(s) \/ FlusherLeave(s) \/ Break(s) \/ Stall(s)
    <2>1. SameFail(s)
      BY <1>0, <1>2 DEF Tick, FlusherLeave, Break, Stall, SameFail, StreamerType
    <2> QED BY <1>0, <2>1, StillAhead DEF Spares
  <1>3. CASE RecvError(s) \/ (Send(s) /\ SendFails(s))
    <2>0. Failing(st[s]) \in StreamerType /\ Failing(st[s]).shard = K
          /\ Failing(st[s]).fail = IF F = "no" THEN "load" ELSE F
      <3>1. CASE F = "no"
        BY Zenon, <1>0, <3>1 DEF Failing, StreamerType
      <3>2. CASE F # "no"
        BY <1>0, <3>2 DEF Failing
      <3> QED BY <3>1, <3>2
    <2>2. \/ st'[s] = [Failing(st[s]) EXCEPT !.receiver = "end"]
          \/ st'[s] = [Failing(st[s]) EXCEPT !.flusher = "end"]
      BY Zenon, <1>0, <1>3 DEF RecvError, Send
    <2>1. st'[s].shard = K /\ st'[s].fail = IF F = "no" THEN "load" ELSE F
      BY <2>0, <2>2 DEF StreamerType
    <2> QED BY <1>0, <2>1 DEF Unfailed, Spares, Passed
  <1>4. CASE EvictLoad(s) \/ EvictDelete(s)
    <2>1. F \in Before /\ st'[s].fail \in Before /\ st'[s].shard = K
      BY <1>0, <1>4 DEF EvictLoad, EvictDelete, StreamerType
    <2> QED BY <1>0, <2>1 DEF Unfailed, Spares, Passed
  <1>5. CASE FailLock(s)
    <2>1. F = "lock" /\ st'[s].fail = "hold" /\ st'[s].shard = K
      BY <1>0, <1>5 DEF FailLock, StreamerType
    <2>2. K = 0
      BY <1>0, <2>1 DEF Unfailed
    <2> QED BY <1>0, <1>1, <2>1, <2>2 DEF Unfailed, Spares, Passed
  <1>6. CASE FailUnlock(s)
    <2>1. /\ F = "hold"
          /\ IF K = Shards - 1 THEN st'[s].fail = "close" /\ st'[s].shard = K
             ELSE st'[s].fail = "hold" /\ st'[s].shard = K + 1
      BY <1>0, <1>6 DEF FailUnlock, StreamerType
    <2>2. \A c \in st[s].callbacks : ShardOf[c] # K
      BY <1>6 DEF FailUnlock
    <2>3. Unfailed(s)'
      BY <2>1 DEF Unfailed
    <2>4. ASSUME NEW c \in st[s].callbacks, Passed(s, c)' PROVE Passed(s, c)
      <3>1. ShardOf[c] \in 0 .. Shards - 1 /\ ShardOf[c] # K
        BY <1>0, <1>1, <2>2
      <3>2. ShardOf[c] < K
        <4>1. CASE K = Shards - 1
          BY <1>0, <3>1, <4>1, GatewayAssumption
        <4>2. CASE K # Shards - 1
          <5>1. K + 1 > ShardOf[c]
            BY <2>1, <2>4, <4>2 DEF Passed
          <5> QED BY <1>0, <3>1, <5>1, GatewayAssumption
        <4> QED BY <4>1, <4>2
      <3> QED BY <2>1, <3>2 DEF Passed
    <2> QED BY <2>3, <2>4 DEF Spares
  <1>7. CASE FailClose(s)
    <2>1. F = "close" /\ st'[s].fail = "done"
      BY <1>0, <1>7 DEF FailClose, StreamerType
    <2> QED BY <2>1 DEF Unfailed, Spares, Passed
  <1> QED BY <1>2, <1>3, <1>4, <1>5, <1>6, <1>7 DEF Quiet

-----------------------------------------------------------------------------
(* Steps that move no request.                                             *)

LEMMA StillOnce ==
  ASSUME IInv, \A s \in Streamers : SameRequests(s)
  PROVE  /\ \A c \in Calls, s \in Streamers :
              (Has(s, c)' <=> Has(s, c)) /\ (Carries(s, c)' <=> Carries(s, c))
         /\ SentOnce'
  <1>1. \A c \in Calls, s \in Streamers : Has(s, c)' <=> Has(s, c)
    BY DEF SameRequests, Has
  <1>2. \A c \in Calls, s \in Streamers : Carries(s, c)' <=> Carries(s, c)
    BY <1>1 DEF SameRequests, Carries
  <1> QED BY <1>1, <1>2 DEF IInv, SentOnce, SameRequests

LEMMA StillPlaced ==
  ASSUME IInv, UNCHANGED call, \A s \in Streamers : Spares(s),
         \A s \in Streamers : /\ \A c \in Calls : Has(s, c)' <=> Has(s, c)
                              /\ st'[s].rcv = st[s].rcv
                              /\ st'[s].callbacks = st[s].callbacks
  PROVE  \A c \in Calls : Placed(c)' /\ Awaited(c)'
  <1>1. \A c \in Calls, s \in Streamers : Carries(s, c)' <=> Carries(s, c)
    BY DEF Carries
  <1>2. \A c \in Calls : Nowhere(c)' <=> Nowhere(c)
    BY <1>1 DEF Nowhere
  <1>3. \A c \in Calls : Placed(c)'
    BY <1>1, <1>2 DEF IInv, Placed
  <1>4. ASSUME NEW c \in Calls PROVE Awaited(c)'
    <2>1. Awaited(c) /\ Placed(c)
      BY DEF IInv
    <2>2. \A s \in Streamers : Ahead(s, c) => Ahead(s, c)'
      BY DEF Ahead, Spares
    <2> QED BY <2>1, <2>2 DEF Awaited, Placed
  <1> QED BY <1>3, <1>4

LEMMA Unmoved ==
  ASSUME IInv, UNCHANGED call, \A s \in Streamers : SameData(s) /\ Spares(s)
  PROVE  /\ \A c \in Calls : Placed(c)' /\ Awaited(c)'
         /\ SentOnce'
  BY StillOnce, StillPlaced DEF SameData, SameRequests

LEMMA QuietStep ==
  ASSUME IInv, NEW s \in Streamers, Quiet(s)
  PROVE  IInv'
  <1>1. /\ st' \in [Streamers -> StreamerType]
        /\ \A t \in Streamers \ {s} : st'[t] = st[t]
        /\ SameData(s)
        /\ st'[s].receiver = "deliver" <=> st[s].receiver = "deliver"
        /\ st'[s].flusher = "run" => st[s].flusher = "run"
    BY QuietEffect
  <1>2. UNCHANGED <<call, made, mu>> /\ (streamers' = streamers \/ streamers' = None)
    BY DEF Quiet, Tick, FlusherLeave, RecvError, EvictLoad, EvictDelete, FailLock,
           FailUnlock, FailClose, Break, Stall, Send, router
  <1>6. \A t \in Streamers : Spares(t) /\ Unfailed(t)'
    <2>1. \A t \in Streamers \ {s} : SameFail(t) /\ Unfailed(t) /\ st[t].callbacks \subseteq Calls
      BY <1>1, StFields DEF IInv, Sound, SameFail
    <2>2. \A t \in Streamers \ {s} : Spares(t) /\ Unfailed(t)'
      BY <2>1, StillAhead DEF Spares
    <2> QED BY <2>2, QuietFail
  <1>3. \A t \in Streamers : SameData(t)
    BY <1>1 DEF SameData, SameRequests
  <1>4. TypeOK'
    <2>1. \A t \in Streamers :
            /\ Len(st'[t].envelopeCh) <= 2 * BatchSize
            /\ st'[t].flusher = "run" => Cardinality(st'[t].batch) < BatchSize
      BY <1>1 DEF IInv, TypeOK, SameData, SameRequests
    <2> QED BY <1>1, <1>2, <2>1 DEF IInv, TypeOK, None
  <1>5. \A t \in Streamers : Sound(t)'
    BY <1>1, <1>6 DEF IInv, Sound, SameData, SameRequests
  <1> QED BY <1>2, <1>3, <1>4, <1>5, <1>6, Unmoved DEF IInv

\* StopAll only asks a streamer to stop.
LEMMA StopStep ==
  ASSUME IInv, StopBegin \/ StopEnd
  PROVE  IInv'
  <1>0. TypeOK
    BY DEF IInv
  <1>1. CASE st' = st
    <2>1. \A t \in Streamers : SameData(t) /\ Spares(t) /\ Sound(t)'
      BY <1>1 DEF SameData, SameRequests, Spares, Passed, IInv, Sound, Unfailed
    <2>2. UNCHANGED <<call, made, mu, streamers>>
      BY DEF StopBegin, StopEnd, router
    <2>3. TypeOK'
      BY <1>1, <2>2 DEF IInv, TypeOK
    <2> QED BY <2>1, <2>2, <2>3, Unmoved DEF IInv
  <1>2. CASE StopBegin /\ st' # st
    <2> DEFINE x == [st[streamers] EXCEPT !.stopCh = TRUE]
    <2>1. streamers \in Streamers
      BY <1>0, <1>2, GatewayAssumption DEF StopBegin, Live, TypeOK, Streamers, None
    <2>2. /\ x \in StreamerType /\ x.callbacks = st[streamers].callbacks
          /\ x.envelopeCh = st[streamers].envelopeCh /\ x.batch = st[streamers].batch
          /\ x.wire = st[streamers].wire /\ x.rcv = st[streamers].rcv
          /\ x.receiver = st[streamers].receiver /\ x.flusher = st[streamers].flusher
          /\ x.fail = st[streamers].fail /\ x.shard = st[streamers].shard
      BY ZenonT(40), <1>0, <2>1, StFields DEF StreamerType
    <2>3. st' = [st EXCEPT ![streamers] = x]
      BY <1>0, <1>2 DEF StopBegin, TypeOK
    <2> HIDE DEF x
    <2>4. /\ st' \in [Streamers -> StreamerType] /\ st'[streamers] = x
          /\ \A t \in Streamers \ {streamers} : st'[t] = st[t]
      BY Zenon, <1>0, <2>1, <2>2, <2>3, StSet
    <2>5. \A t \in Streamers : SameData(t) /\ st'[t].receiver = st[t].receiver
                               /\ st'[t].flusher = st[t].flusher /\ SameFail(t)
      BY <2>2, <2>4 DEF SameData, SameRequests, SameFail
    <2>9. \A t \in Streamers : Spares(t) /\ Unfailed(t)'
      BY <1>0, <2>5, StillAhead, StFields DEF Spares, IInv, Sound
    <2>6. UNCHANGED <<call, made, mu, streamers>>
      BY <1>2 DEF StopBegin, router
    <2>7. TypeOK'
      BY <2>4, <2>5, <2>6 DEF IInv, TypeOK, SameData, SameRequests
    <2>8. \A t \in Streamers : Sound(t)'
      BY <2>5, <2>9 DEF IInv, Sound, SameData, SameRequests
    <2> QED BY <2>5, <2>6, <2>7, <2>8, <2>9, Unmoved DEF IInv
  <1> QED BY <1>1, <1>2 DEF StopEnd

-----------------------------------------------------------------------------
(* Steps of a call that leave the streamers alone.                         *)

Early == {"idle", "again", "delete", "lock", "create", "publish", "store"}

LEMMA CallOnly ==
  ASSUME IInv, NEW c \in Calls, NEW x \in CallType, UNCHANGED st, call' = [call EXCEPT ![c] = x],
         streamers' \in 0 .. made', made' \in made .. MaxStreamers, mu' \in BOOLEAN,
         x.ns <= made',
         x.pc \notin {"offer", "wait"},
         x.pc \in Early => call[c].pc \in Early,
         x.pc # "done" => x.result = "none" /\ x.attempts < 2,
         x.result \in {"discovery", "connection", "closed"} => call[c].pc \in Early,
         x.pc \in {"publish", "store"} => x.ns \in Streamers
  PROVE  IInv'
  <1>0. TypeOK
    BY DEF IInv
  <1>1. /\ call' \in [Calls -> CallType] /\ call'[c] = x
        /\ \A d \in Calls \ {c} : call'[d] = call[d]
    BY Zenon, <1>0, CallSet
  <1>2. TypeOK'
    <2>1. \A d \in Calls : call'[d].ns <= made'
      <3>1. made \in Nat /\ made' \in Nat /\ made <= made'
        BY <1>0, GatewayAssumption DEF TypeOK
      <3>2. \A d \in Calls : call[d].ns \in Nat /\ call[d].ns <= made
        BY <1>0, CallFields, GatewayAssumption DEF Streamers, None
      <3> QED BY <1>1, <3>1, <3>2
    <2>2. made' \in 0 .. MaxStreamers
      BY <1>0, GatewayAssumption DEF TypeOK
    <2> QED BY <1>0, <1>1, <2>1, <2>2 DEF TypeOK
  <1>3. \A d \in Calls, s \in Streamers :
          (Has(s, d)' <=> Has(s, d)) /\ (Carries(s, d)' <=> Carries(s, d))
    BY DEF Has, Carries
  <1>4. \A d \in Calls : Nowhere(d)' <=> Nowhere(d)
    BY <1>3 DEF Nowhere
  <1>7. \A t \in Streamers : Sound(t)' /\ \A d \in Calls : Passed(t, d)' <=> Passed(t, d)
    BY DEF IInv, Sound, Unfailed, Passed
  <1>5. ASSUME NEW d \in Calls PROVE Placed(d)' /\ Awaited(d)'
    <2>0. Placed(d) /\ Awaited(d)
      BY DEF IInv
    <2>1. CASE d = c
      <3>1. call[c].pc \in Early => Nowhere(c)
        BY <2>0, <2>1 DEF Placed, Early
      <3>2. Placed(c)'
        BY <1>1, <1>4, <3>1 DEF Placed, Early
      <3>3. Awaited(c)'
        BY <1>1 DEF Awaited
      <3> QED BY <2>1, <3>2, <3>3
    <2>2. CASE d # c
      <3>1. Placed(d)'
        BY <1>1, <1>3, <1>4, <2>0, <2>2 DEF Placed
      <3>3. \A t \in Streamers : Ahead(t, d) => Ahead(t, d)'
        BY <1>1, <1>7, <2>2 DEF Ahead
      <3>2. Awaited(d)'
        BY <1>1, <1>3, <2>0, <2>2, <3>3 DEF Awaited, Placed
      <3> QED BY <3>1, <3>2
    <2> QED BY <2>1, <2>2
  <1>6. SentOnce'
    BY <1>3 DEF IInv, SentOnce
  <1> QED BY <1>2, <1>5, <1>6, <1>7 DEF IInv

LEMMA CallStep ==
  ASSUME IInv, NEW c \in Calls,
         \/ NoNode(c) \/ Begin(c) \/ Again(c) \/ DeleteDead(c) \/ Lock(c) \/ Create(c)
         \/ CreateFailed(c) \/ Publish(c) \/ Receive(c) \/ Timeout(c)
         \/ Cleanup(c) /\ streamers = None
  PROVE  IInv'
  <1>0. TypeOK /\ Placed(c)
    BY DEF IInv
  <1>1. /\ made \in 0 .. MaxStreamers /\ streamers \in 0 .. made /\ mu \in BOOLEAN
        /\ call[c] \in CallType /\ call[c].ns <= made /\ None \in Nat /\ made <= made
        /\ made \in made .. MaxStreamers /\ None \in 0 .. made
    BY <1>0, CallFields, GatewayAssumption DEF TypeOK, None
  <1>2. streamers # None => streamers \in Streamers /\ streamers <= made
    BY <1>1, GatewayAssumption DEF Streamers, None
  <1>3. CASE NoNode(c)
    <2> DEFINE x == [call[c] EXCEPT !.pc = "done", !.result = "discovery"]
    <2>1. x \in CallType /\ x.pc = "done" /\ x.result = "discovery" /\ x.ns = call[c].ns
      BY Zenon, <1>0, <1>1, <1>2, <1>3 DEF CallType
    <2>2. call' = [call EXCEPT ![c] = x] /\ call[c].pc \in Early
      BY Zenon, <1>0, <1>3 DEF NoNode, Return, TypeOK, At, Early
    <2>3. UNCHANGED <<streamers, made, mu, st>>
      BY <1>0, <1>1, <1>3 DEF NoNode, Return, router
    <2> HIDE DEF x
    <2> QED BY Zenon, <1>0, <1>1, <1>2, <2>1, <2>2, <2>3, CallOnly DEF Early, Placed
  <1>4. CASE (Begin(c) \/ Again(c)) /\ Live(streamers)
    <2> DEFINE x == [call[c] EXCEPT !.ns = streamers, !.pc = "store"]
    <2>1. x \in CallType /\ x.pc = "store" /\ x.ns = streamers /\ x.ns \in Streamers /\ x.ns <= made
          /\ x.result = call[c].result /\ x.attempts = call[c].attempts
      BY Zenon, <1>0, <1>1, <1>2, <1>4 DEF CallType, Live
    <2>2. call' = [call EXCEPT ![c] = x] /\ call[c].pc \in Early
      BY Zenon, <1>0, <1>4 DEF Begin, Again, Load, Use, TypeOK, At, Early
    <2>3. UNCHANGED <<streamers, made, mu, st>>
      BY <1>0, <1>1, <1>4 DEF Begin, Again, Load, Use, router
    <2> HIDE DEF x
    <2> QED BY Zenon, <1>0, <1>1, <1>2, <2>1, <2>2, <2>3, CallOnly DEF Early, Placed
  <1>5. CASE (Begin(c) \/ Again(c)) /\ ~Live(streamers)
    <2> DEFINE x == [call[c] EXCEPT !.pc = IF streamers = None THEN "lock" ELSE "delete"]
    <2>1. x \in CallType /\ x.pc \in {"lock", "delete"} /\ x.ns = call[c].ns
          /\ x.result = call[c].result /\ x.attempts = call[c].attempts
      BY <1>0, <1>1, <1>2, <1>5 DEF CallType
    <2>2. call' = [call EXCEPT ![c] = x] /\ call[c].pc \in Early
      BY <1>0, <1>5 DEF Begin, Again, Load, Goto, TypeOK, At, Early
    <2>3. UNCHANGED <<streamers, made, mu, st>>
      BY <1>0, <1>1, <1>5 DEF Begin, Again, Load, Goto, router
    <2> HIDE DEF x
    <2> QED BY Zenon, <1>0, <1>1, <1>2, <2>1, <2>2, <2>3, CallOnly DEF Early, Placed
  <1>6. CASE DeleteDead(c)
    <2> DEFINE x == [call[c] EXCEPT !.pc = "lock"]
    <2>1. x \in CallType /\ x.pc = "lock" /\ x.ns = call[c].ns /\ x.result = call[c].result /\ x.attempts = call[c].attempts
      BY <1>0, <1>1, <1>2, <1>6 DEF CallType
    <2>2. call' = [call EXCEPT ![c] = x] /\ call[c].pc \in Early
      BY <1>0, <1>6 DEF DeleteDead, Goto, TypeOK, At, Early
    <2>3. UNCHANGED <<made, mu, st>> /\ streamers' = None
      BY <1>0, <1>1, <1>6 DEF DeleteDead, Goto, router
    <2> HIDE DEF x
    <2> QED BY Zenon, <1>0, <1>1, <1>2, <2>1, <2>2, <2>3, CallOnly DEF Early, Placed
  <1>7. CASE Lock(c) /\ Live(streamers)
    <2> DEFINE x == [call[c] EXCEPT !.ns = streamers, !.pc = "store"]
    <2>1. x \in CallType /\ x.pc = "store" /\ x.ns = streamers /\ x.ns \in Streamers /\ x.ns <= made
          /\ x.result = call[c].result /\ x.attempts = call[c].attempts
      BY Zenon, <1>0, <1>1, <1>2, <1>7 DEF CallType, Live
    <2>2. call' = [call EXCEPT ![c] = x] /\ call[c].pc \in Early
      BY Zenon, <1>0, <1>7 DEF Lock, Use, TypeOK, At, Early
    <2>3. UNCHANGED <<streamers, made, mu, st>>
      BY <1>0, <1>1, <1>7 DEF Lock, Use, router
    <2> HIDE DEF x
    <2> QED BY Zenon, <1>0, <1>1, <1>2, <2>1, <2>2, <2>3, CallOnly DEF Early, Placed
  <1>8. CASE Lock(c) /\ ~Live(streamers)
    <2> DEFINE x == [call[c] EXCEPT !.pc = "create"]
    <2>1. x \in CallType /\ x.pc = "create" /\ x.ns = call[c].ns /\ x.result = call[c].result /\ x.attempts = call[c].attempts
      BY <1>0, <1>1, <1>2, <1>8 DEF CallType
    <2>2. call' = [call EXCEPT ![c] = x] /\ call[c].pc \in Early
      BY <1>0, <1>8 DEF Lock, Goto, TypeOK, At, Early
    <2>3. UNCHANGED <<streamers, made, st>> /\ mu' = TRUE
      BY <1>0, <1>1, <1>8 DEF Lock, Goto, router
    <2> HIDE DEF x
    <2> QED BY Zenon, <1>0, <1>1, <1>2, <2>1, <2>2, <2>3, CallOnly DEF Early, Placed
  <1>9. CASE Create(c)
    <2> DEFINE x == [call[c] EXCEPT !.ns = made + 1, !.pc = "publish"]
    <2>0. made + 1 \in Streamers
      BY <1>1, <1>9, GatewayAssumption DEF Create, Streamers
    <2>1. x \in CallType /\ x.pc = "publish" /\ x.ns = made + 1 /\ x.ns \in Streamers
          /\ x.result = call[c].result /\ x.attempts = call[c].attempts
      BY Zenon, <1>1, <2>0 DEF CallType
    <2>2. call' = [call EXCEPT ![c] = x] /\ call[c].pc \in Early
      BY Zenon, <1>0, <1>9 DEF Create, Use, TypeOK, At, Early
    <2>3. /\ UNCHANGED <<mu, st>> /\ streamers' = None /\ made' = made + 1
          /\ made' \in made .. MaxStreamers /\ streamers' \in 0 .. made' /\ made + 1 <= made'
      BY <1>0, <1>1, <1>9, GatewayAssumption DEF Create, Use, router
    <2> HIDE DEF x
    <2> QED BY Zenon, <1>0, <1>1, <1>2, <2>1, <2>2, <2>3, CallOnly DEF Early, Placed
  <1>10. CASE CreateFailed(c)
    <2> DEFINE x == [call[c] EXCEPT !.pc = "done", !.result = "connection"]
    <2>1. x \in CallType /\ x.pc = "done" /\ x.result = "connection" /\ x.ns = call[c].ns
      BY Zenon, <1>0, <1>1, <1>2, <1>10 DEF CallType
    <2>2. call' = [call EXCEPT ![c] = x] /\ call[c].pc \in Early
      BY Zenon, <1>0, <1>10 DEF CreateFailed, Return, UnlockAfter, TypeOK, At, Early
    <2>3. UNCHANGED <<made, st>> /\ streamers' = None /\ mu' = FALSE
      BY <1>0, <1>1, <1>10 DEF CreateFailed, Return, UnlockAfter, router
    <2> HIDE DEF x
    <2> QED BY Zenon, <1>0, <1>1, <1>2, <2>1, <2>2, <2>3, CallOnly DEF Early, Placed
  <1>11. CASE Publish(c)
    <2> DEFINE x == [call[c] EXCEPT !.pc = "store"]
    <2>1. x \in CallType /\ x.pc = "store" /\ x.ns = call[c].ns /\ x.ns \in Streamers
          /\ x.result = call[c].result /\ x.attempts = call[c].attempts
      BY <1>0, <1>1, <1>2, <1>11 DEF CallType, Publish, At, Placed
    <2>2. call' = [call EXCEPT ![c] = x] /\ call[c].pc \in Early
      BY <1>0, <1>11 DEF Publish, Goto, UnlockAfter, TypeOK, At, Early
    <2>3. UNCHANGED <<made, st>> /\ streamers' = call[c].ns /\ mu' = FALSE
      BY <1>11 DEF Publish, UnlockAfter
    <2>4. streamers' \in 0 .. made'
      BY <1>1, <2>1, <2>3, GatewayAssumption DEF Streamers
    <2> HIDE DEF x
    <2> QED BY Zenon, <1>0, <1>1, <1>2, <2>1, <2>2, <2>3, <2>4, CallOnly DEF Early, Placed
  <1>12. CASE Receive(c)
    <2> DEFINE x == [call[c] EXCEPT !.pc = "done", !.result = call[c].respCh, !.respCh = "none"]
    <2>1. x \in CallType /\ x.pc = "done" /\ x.result \in {"answered", "failed"} /\ x.ns = call[c].ns
      BY Zenon, <1>0, <1>1, <1>2, <1>12 DEF CallType, Receive
    <2>2. call' = [call EXCEPT ![c] = x]
      BY Zenon, <1>0, <1>12 DEF Receive, TypeOK, At, Early
    <2>3. UNCHANGED <<streamers, made, mu, st>>
      BY <1>0, <1>1, <1>12 DEF Receive, router
    <2> HIDE DEF x
    <2> QED BY Zenon, <1>0, <1>1, <1>2, <2>1, <2>2, <2>3, CallOnly DEF Early, Placed
  <1>13. CASE Timeout(c)
    <2> DEFINE x == [call[c] EXCEPT !.pc = "cleanup"]
    <2>1. x \in CallType /\ x.pc = "cleanup" /\ x.ns = call[c].ns /\ x.result = call[c].result /\ x.attempts = call[c].attempts
      BY <1>0, <1>1, <1>2, <1>13 DEF CallType
    <2>2. call' = [call EXCEPT ![c] = x] /\ call[c].pc = "wait"
      BY <1>0, <1>13 DEF Timeout, Goto, TypeOK, At, Early
    <2>3. UNCHANGED <<streamers, made, mu, st>>
      BY <1>0, <1>1, <1>13 DEF Timeout, Goto, router
    <2> HIDE DEF x
    <2> QED BY Zenon, <1>0, <1>1, <1>2, <2>1, <2>2, <2>3, CallOnly DEF Early, Placed
  <1>14. CASE Cleanup(c) /\ streamers = None
    <2> DEFINE x == [call[c] EXCEPT !.pc = "done", !.result = "timeout"]
    <2>1. x \in CallType /\ x.pc = "done" /\ x.result = "timeout" /\ x.ns = call[c].ns
      BY Zenon, <1>0, <1>1, <1>2, <1>14 DEF CallType
    <2>2. call' = [call EXCEPT ![c] = x]
      BY Zenon, <1>0, <1>14 DEF Cleanup, Return, TypeOK, At, Early
    <2>3. UNCHANGED <<streamers, made, mu, st>>
      BY <1>0, <1>1, <1>14 DEF Cleanup, Return, router
    <2> HIDE DEF x
    <2> QED BY Zenon, <1>0, <1>1, <1>2, <2>1, <2>2, <2>3, CallOnly DEF Early, Placed
  <1> QED BY <1>3, <1>4, <1>5, <1>6, <1>7, <1>8, <1>9, <1>10, <1>11, <1>12, <1>13, <1>14

-----------------------------------------------------------------------------
(* Registering and removing callbacks.                                     *)

\* The effect of a step that changes only the callbacks of streamer s.
LEMMA CallbacksSet ==
  ASSUME IInv, NEW s \in Streamers, NEW S \in SUBSET Calls,
         st' = [st EXCEPT ![s].callbacks = S]
  PROVE  /\ st' \in [Streamers -> StreamerType]
         /\ \A t \in Streamers : /\ SameRequests(t)
                                 /\ st'[t].callbacks = IF t = s THEN S ELSE st[t].callbacks
                                 /\ st'[t].receiver = st[t].receiver
                                 /\ st'[t].flusher = st[t].flusher
                                 /\ SameFail(t)
  <1> DEFINE x == [st[s] EXCEPT !.callbacks = S]
  <1>0. TypeOK
    BY DEF IInv
  <1>1. /\ x \in StreamerType /\ x.callbacks = S
        /\ x.envelopeCh = st[s].envelopeCh /\ x.batch = st[s].batch
        /\ x.wire = st[s].wire /\ x.rcv = st[s].rcv
        /\ x.receiver = st[s].receiver /\ x.flusher = st[s].flusher
        /\ x.fail = st[s].fail /\ x.shard = st[s].shard
    BY Zenon, <1>0, StFields DEF StreamerType
  <1>2. st' = [st EXCEPT ![s] = x]
    BY <1>0 DEF TypeOK
  <1> HIDE DEF x
  <1>3. /\ st' \in [Streamers -> StreamerType] /\ st'[s] = x
        /\ \A t \in Streamers \ {s} : st'[t] = st[t]
    BY Zenon, <1>0, <1>1, <1>2, StSet
  <1> QED BY <1>1, <1>3 DEF SameRequests, SameFail

LEMMA CallbacksType ==
  ASSUME IInv, NEW s \in Streamers, NEW S \in SUBSET Calls,
         st' = [st EXCEPT ![s].callbacks = S],
         NEW c \in Calls, NEW x \in CallType, x.ns = call[c].ns,
         call' = [call EXCEPT ![c] = x], UNCHANGED <<streamers, made, mu>>
  PROVE  /\ TypeOK'
         /\ \A t \in Streamers : Sound(t)'
  <1>0. TypeOK
    BY DEF IInv
  <1>1. /\ call' \in [Calls -> CallType] /\ call'[c] = x
        /\ \A d \in Calls \ {c} : call'[d] = call[d]
    BY Zenon, <1>0, CallSet
  <1>2. \A d \in Calls : call'[d].ns <= made
    BY <1>0, <1>1, CallFields
  <1>3. /\ st' \in [Streamers -> StreamerType]
        /\ \A t \in Streamers : /\ SameRequests(t)
                                /\ st'[t].receiver = st[t].receiver
                                /\ st'[t].flusher = st[t].flusher
                                /\ SameFail(t)
    BY Zenon, CallbacksSet
  <1>4. TypeOK'
    BY <1>0, <1>1, <1>2, <1>3 DEF TypeOK, SameRequests
  <1>5. \A t \in Streamers : Unfailed(t)'
    BY <1>3, StillAhead DEF IInv, Sound
  <1> QED BY <1>3, <1>4, <1>5 DEF IInv, Sound, SameRequests

LEMMA StoreStep ==
  ASSUME IInv, NEW c \in Calls, StoreCallback(c)
  PROVE  IInv'
  <1>12. PICK s \in Streamers : s = call[c].ns
    BY DEF IInv, Placed, StoreCallback, At
  <1>13. PICK l \in BOOLEAN : l = Passed(s, c)
    BY Zenon DEF Passed
  <1> DEFINE x == [call[c] EXCEPT !.pc = "offer", !.late = l]
  <1>0. TypeOK /\ Placed(c) /\ call[c].pc = "store" /\ s \in Streamers /\ Nowhere(c)
    BY DEF IInv, Placed, StoreCallback, At
  <1>1. /\ x \in CallType /\ x.pc = "offer" /\ x.ns = s /\ x.result = call[c].result
        /\ x.attempts = call[c].attempts /\ x.late = l
    BY Zenon, <1>0, <1>12, CallFields DEF CallType
  <1>2. call' = [call EXCEPT ![c] = x]
    BY Zenon, <1>0, <1>12, <1>13 DEF StoreCallback, TypeOK
  <1>3. st[s].callbacks \cup {c} \in SUBSET Calls
    BY <1>0, StFields
  <1>4. st' = [st EXCEPT ![s].callbacks = st[s].callbacks \cup {c}]
    BY <1>0, <1>12 DEF StoreCallback, TypeOK
  <1>5. UNCHANGED <<streamers, made, mu>>
    BY DEF StoreCallback, router
  <1> HIDE DEF x
  <1>6. /\ TypeOK'
        /\ \A t \in Streamers : Sound(t)'
    BY Zenon, <1>0, <1>1, <1>2, <1>3, <1>4, <1>5, <1>12, CallbacksType
  <1>7. \A t \in Streamers :
          /\ SameRequests(t)
          /\ st'[t].callbacks = IF t = s THEN st[s].callbacks \cup {c} ELSE st[t].callbacks
          /\ SameFail(t)
    <2>1. st[s].callbacks \cup {c} \in SUBSET Calls /\ s \in Streamers
      BY <1>3
    <2>2. \A t \in Streamers : /\ SameRequests(t)
                               /\ st'[t].callbacks = IF t = s THEN st[s].callbacks \cup {c} ELSE st[t].callbacks
                               /\ st'[t].receiver = st[t].receiver
                               /\ st'[t].flusher = st[t].flusher
                               /\ SameFail(t)
      BY Zenon, <1>4, <2>1, CallbacksSet
    <2> QED BY <2>2
  <1>8. /\ \A d \in Calls, t \in Streamers :
             (Has(t, d)' <=> Has(t, d)) /\ (Carries(t, d)' <=> Carries(t, d))
        /\ SentOnce'
    BY <1>7, StillOnce
  <1>9. call'[c] = x /\ \A d \in Calls \ {c} : call'[d] = call[d]
    BY Zenon, <1>0, <1>1, <1>2, CallSet
  <1>11. \A d \in Calls, t \in Streamers : Passed(t, d)' <=> Passed(t, d)
    BY <1>7, StillAhead
  <1>10. ASSUME NEW d \in Calls PROVE Placed(d)' /\ Awaited(d)'
    <2>0. Placed(d) /\ Awaited(d)
      BY DEF IInv
    <2>1. CASE d = c
      <3>1. \A t \in Streamers : ~Carries(t, c)' /\ (c \in st'[t].callbacks => t = s)
        BY <1>0, <1>7, <1>8 DEF Nowhere
      <3>2. Placed(c)'
        BY <1>0, <1>1, <1>9, <1>12, <3>1 DEF Placed
      <3>3. Ahead(s, c)'
        <4>1. call'[c].late = Passed(s, c) /\ (Passed(s, c)' <=> Passed(s, c))
          BY <1>1, <1>9, <1>11, <1>13
        <4>2. c \in st'[s].callbacks
          BY <1>7
        <4> QED BY <4>1, <4>2 DEF Ahead
      <3>4. Awaited(c)'
        BY <1>0, <1>1, <1>9, <3>3 DEF Awaited
      <3> QED BY <2>1, <3>2, <3>4
    <2>2. CASE d # c
      <3>1. \A t \in Streamers : d \in st'[t].callbacks <=> d \in st[t].callbacks
        BY <1>7, <2>2
      <3>4. \A t \in Streamers : Ahead(t, d) => Ahead(t, d)'
        BY <1>9, <1>11, <2>2, <3>1 DEF Ahead
      <3>2. Placed(d)'
        BY <1>8, <1>9, <2>0, <2>2, <3>1 DEF Placed, Nowhere
      <3>3. Awaited(d)'
        BY <1>7, <1>8, <1>9, <2>0, <2>2, <3>4 DEF Awaited, Placed, SameRequests
      <3> QED BY <3>2, <3>3
    <2> QED BY <2>1, <2>2
  <1> QED BY <1>6, <1>8, <1>10 DEF IInv

LEMMA Removed ==
  ASSUME IInv, NEW s \in Streamers, NEW c \in Calls, NEW x \in CallType,
         st' = DeleteCallback(s, c), call' = [call EXCEPT ![c] = x], x.ns = call[c].ns,
         UNCHANGED <<streamers, made, mu>>,
         x.pc # "done" => x.result = "none" /\ x.attempts < 2,
         x.pc \in Early \/ x.result \in {"discovery", "connection", "closed"}
           => Nowhere(c) \/ (call[c].pc = "offer" /\ s = call[c].ns),
         x.pc \in {"publish", "store", "offer"} => call[c].pc = x.pc,
         c \in Fire => x.pc # "wait",
         x.pc \in {"offer", "wait"} /\ x.respCh = "none" => c \in Fire
  PROVE  IInv'
  <1>0. TypeOK /\ Placed(c)
    BY DEF IInv
  <1>1. PICK S \in SUBSET Calls : S = st[s].callbacks \ {c}
    BY Zenon, <1>0, StFields
  <1>2. st' = [st EXCEPT ![s].callbacks = S]
    BY <1>0, <1>1 DEF DeleteCallback, TypeOK
  <1>3. /\ TypeOK'
        /\ \A t \in Streamers : Sound(t)'
    BY Zenon, <1>1, <1>2, CallbacksType
  <1>4. \A t \in Streamers :
          /\ SameRequests(t)
          /\ st'[t].callbacks = IF t = s THEN S ELSE st[t].callbacks
          /\ SameFail(t)
    <2>1. \A t \in Streamers : /\ SameRequests(t)
                               /\ st'[t].callbacks = IF t = s THEN S ELSE st[t].callbacks
                               /\ st'[t].receiver = st[t].receiver
                               /\ st'[t].flusher = st[t].flusher
                               /\ SameFail(t)
      BY Zenon, <1>2, CallbacksSet
    <2> QED BY <2>1
  <1>5. /\ \A d \in Calls, t \in Streamers :
             (Has(t, d)' <=> Has(t, d)) /\ (Carries(t, d)' <=> Carries(t, d))
        /\ SentOnce'
    BY <1>4, StillOnce
  <1>6. call'[c] = x /\ \A d \in Calls \ {c} : call'[d] = call[d]
    BY Zenon, <1>0, CallSet
  <1>7. \A d \in Calls : Nowhere(d) => Nowhere(d)'
    BY <1>1, <1>4, <1>5 DEF Nowhere
  <1>8. Placed(c)' /\ Awaited(c)'
    <2>1. call[c].pc = "offer" /\ s = call[c].ns => Nowhere(c)'
      BY <1>0, <1>1, <1>4, <1>5 DEF Placed, Nowhere
    <2>2. call[c].pc = "offer" =>
            \A t \in Streamers : ~Carries(t, c)' /\ (c \in st'[t].callbacks => t = call[c].ns)
      BY <1>0, <1>1, <1>4, <1>5 DEF Placed
    <2>3. Placed(c)'
      BY <1>0, <1>6, <1>7, <2>1, <2>2 DEF Placed, Early
    <2>4. Awaited(c)'
      BY <1>6 DEF Awaited
    <2> QED BY <2>3, <2>4
  <1>9. ASSUME NEW d \in Calls \ {c} PROVE Placed(d)' /\ Awaited(d)'
    <2>0. Placed(d) /\ Awaited(d)
      BY DEF IInv
    <2>1. \A t \in Streamers : d \in st'[t].callbacks <=> d \in st[t].callbacks
      BY <1>1, <1>4
    <2>2. Placed(d)'
      BY <1>5, <1>6, <2>0, <2>1 DEF Placed, Nowhere
    <2>4. \A t \in Streamers : Ahead(t, d) => Ahead(t, d)'
      BY <1>4, <1>6, <2>1, StillAhead DEF Ahead
    <2>3. Awaited(d)'
      BY <1>4, <1>5, <1>6, <2>0, <2>4, ZenonT(60) DEF Awaited, Placed, SameRequests
    <2> QED BY <2>2, <2>3
  <1> QED BY <1>3, <1>5, <1>8, <1>9 DEF IInv

FailSome(c) == \E s \in Streamers : FailOne(s, c)

LEMMA RemoveStep ==
  ASSUME IInv, NEW c \in Calls,
         Retry(c) \/ (Cleanup(c) /\ streamers # None) \/ FailSome(c)
  PROVE  IInv'
  <1>0. TypeOK /\ Placed(c) /\ Awaited(c) /\ call[c] \in CallType /\ call[c].attempts \in 0 .. 2
    BY CallFields DEF IInv
  <1>1. CASE Retry(c)
    <2> DEFINE s == call[c].ns
               x == [call[c] EXCEPT !.attempts = @ + 1,
                       !.pc = IF call[c].attempts = 1 THEN "done" ELSE "again",
                       !.result = IF call[c].attempts = 1 THEN "closed" ELSE @]
    <2>1. call[c].pc = "offer" /\ s \in Streamers /\ call[c].attempts < 2
      BY <1>0, <1>1 DEF Retry, At, Placed
    <2>2. call[c].attempts + 1 \in 0 .. 2
      BY <1>0, <2>1
    <2>3. /\ x \in CallType /\ x.ns = s /\ x.attempts = call[c].attempts + 1
          /\ x.pc = IF call[c].attempts = 1 THEN "done" ELSE "again"
          /\ x.result = IF call[c].attempts = 1 THEN "closed" ELSE call[c].result
      BY Zenon, <1>0, <2>2 DEF CallType
    <2>4. call' = [call EXCEPT ![c] = x]
      BY Zenon, <1>0, <1>1 DEF Retry, NextAttempt, TypeOK
    <2>5. st' = DeleteCallback(s, c) /\ UNCHANGED <<streamers, made, mu>>
      BY <1>1 DEF Retry, router
    <2>6. x.pc # "done" => x.result = "none" /\ x.attempts < 2
      BY <1>0, <2>1, <2>3 DEF Placed
    <2> HIDE DEF x, s
    <2> QED BY Zenon, <2>1, <2>3, <2>4, <2>5, <2>6, Removed DEF s
  <1>2. CASE Cleanup(c) /\ streamers # None
    <2> DEFINE x == [call[c] EXCEPT !.pc = "done", !.result = "timeout"]
    <2>1. streamers \in Streamers
      BY <1>0, <1>2, GatewayAssumption DEF TypeOK, Streamers, None
    <2>2. x \in CallType /\ x.ns = call[c].ns /\ x.pc = "done" /\ x.result = "timeout"
      BY Zenon, <1>0 DEF CallType
    <2>3. call' = [call EXCEPT ![c] = x]
      BY Zenon, <1>0, <1>2 DEF Cleanup, Return, TypeOK
    <2>4. st' = DeleteCallback(streamers, c) /\ UNCHANGED <<streamers, made, mu>>
      BY <1>2 DEF Cleanup, router
    <2> HIDE DEF x
    <2> QED BY Zenon, <2>1, <2>2, <2>3, <2>4, Removed DEF Early
  <1>3. ASSUME NEW s \in Streamers, FailOne(s, c) PROVE IInv'
    <2>1. st' = DeleteCallback(s, c) /\ UNCHANGED <<streamers, made, mu>>
      BY <1>3 DEF FailOne, router
    <2>2. /\ call[c].pc # "done" => call[c].result = "none" /\ call[c].attempts < 2
          /\ call[c].pc \in Early \/ call[c].result \in {"discovery", "connection", "closed"}
               => Nowhere(c)
          /\ c \in Fire => call[c].pc # "wait"
      BY <1>0 DEF Placed, Awaited, Early
    <2>3. CASE c \in Fire
      <3>1. call' = [call EXCEPT ![c] = call[c]]
        BY <1>0, <1>3, <2>3 DEF FailOne, FailCallback, TypeOK
      <3> QED BY Zenon, <1>0, <2>1, <2>2, <2>3, <3>1, Removed
    <2>4. CASE c \notin Fire
      <3> DEFINE x == [call[c] EXCEPT !.respCh = "failed"]
      <3>1. /\ x \in CallType /\ x.ns = call[c].ns /\ x.pc = call[c].pc /\ x.respCh = "failed"
            /\ x.result = call[c].result /\ x.attempts = call[c].attempts
        BY <1>0 DEF CallType
      <3>2. call' = [call EXCEPT ![c] = x]
        BY <1>0, <1>3, <2>4 DEF FailOne, FailCallback, Respond, TypeOK
      <3> HIDE DEF x
      <3> QED BY Zenon, <2>1, <2>2, <2>4, <3>1, <3>2, Removed
    <2> QED BY <2>3, <2>4
  <1> QED BY <1>1, <1>2, <1>3 DEF FailSome

-----------------------------------------------------------------------------
(* Moving requests.                                                        *)

LEMMA AppendRange ==
  ASSUME NEW q \in Seq(Calls), NEW c \in Calls, IsInjective(q), c \notin Range(q)
  PROVE  /\ Append(q, c) \in Seq(Calls) /\ Len(Append(q, c)) = Len(q) + 1
         /\ Range(Append(q, c)) = Range(q) \cup {c}
         /\ IsInjective(Append(q, c))
  <1>1. /\ Append(q, c) \in Seq(Calls) /\ Len(Append(q, c)) = Len(q) + 1 /\ Len(q) \in Nat
        /\ DOMAIN Append(q, c) = 1 .. Len(q) + 1 /\ DOMAIN q = 1 .. Len(q)
        /\ \A n \in 1 .. Len(q) : Append(q, c)[n] = q[n]
        /\ Append(q, c)[Len(q) + 1] = c
    OBVIOUS
  <1>2. Range(Append(q, c)) = Range(q) \cup {c}
    BY <1>1 DEF Range
  <1>3. IsInjective(Append(q, c))
    BY <1>1 DEF Range, IsInjective
  <1> QED BY <1>1, <1>2, <1>3

LEMMA TailRange ==
  ASSUME NEW q \in Seq(Calls), q # <<>>, IsInjective(q)
  PROVE  /\ Tail(q) \in Seq(Calls) /\ Len(Tail(q)) = Len(q) - 1 /\ Len(q) \in Nat
         /\ Head(q) \in Range(q) /\ Head(q) \in Calls
         /\ Range(Tail(q)) = Range(q) \ {Head(q)}
         /\ IsInjective(Tail(q))
  <1>1. /\ Tail(q) \in Seq(Calls) /\ Len(Tail(q)) = Len(q) - 1 /\ Len(q) \in Nat \ {0}
        /\ DOMAIN Tail(q) = 1 .. Len(q) - 1 /\ DOMAIN q = 1 .. Len(q)
        /\ \A n \in 1 .. Len(q) - 1 : Tail(q)[n] = q[n + 1]
        /\ Head(q) = q[1] /\ q[1] \in Calls
    OBVIOUS
  <1>2. IsInjective(Tail(q))
    BY <1>1 DEF IsInjective
  <1>3. Range(Tail(q)) \subseteq Range(q) \ {Head(q)}
    BY <1>1 DEF Range, IsInjective
  <1>4. ASSUME NEW c \in Range(q), c # Head(q) PROVE c \in Range(Tail(q))
    <2>1. PICK n \in 1 .. Len(q) : q[n] = c
      BY <1>1 DEF Range
    <2>2. n - 1 \in 1 .. Len(q) - 1 /\ Tail(q)[n - 1] = c
      BY <1>1, <1>4, <2>1
    <2> QED BY Zenon, <1>1, <2>2 DEF Range
  <1>5. Head(q) \in Range(q)
    BY <1>1 DEF Range
  <1> QED BY <1>1, <1>2, <1>3, <1>4, <1>5

LEMMA OfferStep ==
  ASSUME IInv, NEW c \in Calls, Offer(c)
  PROVE  IInv'
  <1>0. TypeOK /\ Placed(c) /\ Awaited(c) /\ SentOnce /\ call[c] \in CallType
    BY CallFields DEF IInv
  <1>1. PICK s \in Streamers : s = call[c].ns
    BY <1>0 DEF Offer, At, Placed
  <1>2. /\ call[c].pc = "offer" /\ call[c].result = "none" /\ call[c].attempts < 2
        /\ \A t \in Streamers : ~Carries(t, c) /\ (c \in st[t].callbacks => t = s)
    BY <1>0, <1>1 DEF Offer, At, Placed
  <1>3. PICK q \in Seq(Calls) : q = Append(st[s].envelopeCh, c)
    <2>1. st[s].envelopeCh \in Seq(Calls)
      BY <1>0, StFields
    <2>2. Append(st[s].envelopeCh, c) \in Seq(Calls)
      BY <2>1
    <2> QED BY Zenon, <2>2
  <1>4. Range(q) = Range(st[s].envelopeCh) \cup {c} /\ IsInjective(q) /\ Len(q) <= 2 * BatchSize
    <2>1. c \notin Range(st[s].envelopeCh) /\ IsInjective(st[s].envelopeCh)
      BY <1>0, <1>2 DEF Carries, Has, SentOnce
    <2>2. Len(st[s].envelopeCh) < 2 * BatchSize
      BY <1>1 DEF Offer
    <2> QED BY <1>0, <1>3, <2>1, <2>2, AppendRange, StFields, GatewayAssumption
  <1>5. PICK y \in StreamerType : y = [st[s] EXCEPT !.envelopeCh = q]
    BY ZenonT(40), <1>0, StFields DEF StreamerType
  <1>6. /\ y.envelopeCh = q /\ y.callbacks = st[s].callbacks /\ y.batch = st[s].batch
        /\ y.wire = st[s].wire /\ y.rcv = st[s].rcv /\ y.receiver = st[s].receiver
        /\ y.flusher = st[s].flusher /\ y.fail = st[s].fail /\ y.shard = st[s].shard
    BY <1>0, <1>5, StFields DEF StreamerType
  <1>7. st' = [st EXCEPT ![s] = y]
    BY <1>0, <1>1, <1>3, <1>5 DEF Offer, TypeOK
  <1>8. /\ st' \in [Streamers -> StreamerType] /\ st'[s] = y
        /\ \A t \in Streamers \ {s} : st'[t] = st[t]
    BY Zenon, <1>0, <1>7, StSet
  <1>9. PICK x \in CallType : /\ call' = [call EXCEPT ![c] = x] /\ x.ns = s
                              /\ x.respCh = call[c].respCh /\ x.attempts = call[c].attempts
                              /\ x.late = call[c].late
                              /\ IF c \in Fire THEN x.pc = "done" /\ x.result = "sent"
                                 ELSE x.pc = "wait" /\ x.result = "none"
    <2>1. CASE c \in Fire
      <3> DEFINE z == [call[c] EXCEPT !.pc = "done", !.result = "sent"]
      <3>1. call' = [call EXCEPT ![c] = z]
        BY Zenon, <1>0, <2>1 DEF Offer, Return, TypeOK
      <3>2. /\ z \in CallType /\ z.ns = call[c].ns /\ z.respCh = call[c].respCh
            /\ z.attempts = call[c].attempts /\ z.pc = "done" /\ z.result = "sent"
            /\ z.late = call[c].late
        BY Zenon, <1>0 DEF CallType
      <3> HIDE DEF z
      <3> QED BY Zenon, <1>1, <2>1, <3>1, <3>2
    <2>2. CASE c \notin Fire
      <3> DEFINE z == [call[c] EXCEPT !.pc = "wait"]
      <3>1. call' = [call EXCEPT ![c] = z]
        BY <1>0, <2>2 DEF Offer, Goto, TypeOK
      <3>2. /\ z \in CallType /\ z.ns = call[c].ns /\ z.respCh = call[c].respCh
            /\ z.attempts = call[c].attempts /\ z.pc = "wait" /\ z.result = call[c].result
            /\ z.late = call[c].late
        BY <1>0 DEF CallType
      <3> HIDE DEF z
      <3> QED BY Zenon, <1>1, <1>2, <2>2, <3>1, <3>2
    <2> QED BY <2>1, <2>2
  <1>10. /\ call' \in [Calls -> CallType] /\ call'[c] = x
         /\ \A d \in Calls \ {c} : call'[d] = call[d]
    BY Zenon, <1>0, <1>9, CallSet
  <1>11. TypeOK'
    <2>1. UNCHANGED <<streamers, made, mu>>
      BY DEF Offer, router
    <2>2. \A d \in Calls : call'[d].ns <= made
      BY <1>0, <1>1, <1>9, <1>10, CallFields
    <2>3. \A t \in Streamers :
            /\ Len(st'[t].envelopeCh) <= 2 * BatchSize
            /\ st'[t].flusher = "run" => Cardinality(st'[t].batch) < BatchSize
      BY <1>0, <1>4, <1>6, <1>8, StFields
    <2> QED BY <1>0, <1>8, <1>10, <2>1, <2>2, <2>3 DEF TypeOK
  <1>17. \A t \in Streamers : SameFail(t)
    BY <1>6, <1>8 DEF SameFail
  <1>12. \A t \in Streamers : Sound(t)'
    BY <1>6, <1>8, <1>17, StillAhead DEF IInv, Sound
  <1>13. \A t \in Streamers, d \in Calls :
           /\ Has(t, d)' <=> Has(t, d) \/ (t = s /\ d = c)
           /\ Carries(t, d)' <=> Carries(t, d) \/ (t = s /\ d = c)
           /\ d \in st'[t].callbacks <=> d \in st[t].callbacks
           /\ st'[t].rcv = st[t].rcv
    BY <1>4, <1>6, <1>8 DEF Has, Carries
  <1>18. \A t \in Streamers, d \in Calls : Ahead(t, d) => Ahead(t, d)'
    <2>1. \A d \in Calls : call'[d].late = call[d].late
      BY <1>9, <1>10
    <2> QED BY <1>13, <1>17, <2>1, StillAhead DEF Ahead
  <1>14. Placed(c)' /\ Awaited(c)'
    <2>1. Placed(c)'
      BY <1>2, <1>9, <1>10 DEF Placed
    <2>2. Awaited(c)'
      BY SMTT(40), <1>0, <1>1, <1>2, <1>9, <1>10, <1>13, <1>18 DEF Awaited
    <2> QED BY <2>1, <2>2
  <1>15. ASSUME NEW d \in Calls \ {c} PROVE Placed(d)' /\ Awaited(d)'
    <2>0. Placed(d) /\ Awaited(d)
      BY DEF IInv
    <2>1. Placed(d)'
      BY SMTT(40), <1>10, <1>13, <2>0 DEF Placed, Nowhere
    <2>2. Awaited(d)'
      BY SMTT(40), <1>10, <1>13, <1>18, <2>0 DEF Awaited, Placed
    <2> QED BY <2>1, <2>2
  <1>16. SentOnce'
    <2> SUFFICES ASSUME NEW t \in Streamers
        PROVE  /\ IsInjective(st'[t].envelopeCh)
               /\ Range(st'[t].envelopeCh) \cap (st'[t].batch \cup st'[t].wire) = {}
               /\ st'[t].batch \cap st'[t].wire = {}
               /\ \A d \in Calls :
                    /\ ~(st'[t].rcv = d /\ Has(t, d)')
                    /\ Carries(t, d)' => \A u \in Streamers \ {t} : ~Carries(u, d)'
      BY DEF SentOnce
    <2>1. \A d \in Calls :
            /\ ~(st'[t].rcv = d /\ Has(t, d)')
            /\ Carries(t, d)' => \A u \in Streamers \ {t} : ~Carries(u, d)'
      BY <1>0, <1>2, <1>13, SMTT(40) DEF SentOnce, Carries
    <2>2. CASE t = s
      <3>1. c \notin st[s].batch \cup st[s].wire
        BY <1>2 DEF Carries, Has
      <3> QED BY SMTT(40), <1>0, <1>4, <1>6, <1>8, <2>1, <2>2, <3>1 DEF SentOnce
    <2>3. CASE t # s
      BY <1>0, <1>8, <2>1, <2>3 DEF SentOnce
    <2> QED BY Zenon, <2>2, <2>3
  <1> QED BY <1>11, <1>12, <1>14, <1>15, <1>16 DEF IInv

\* A step of the flusher that moves requests inside streamer s.
LEMMA Shifted ==
  ASSUME IInv, NEW s \in Streamers, NEW y \in StreamerType, st' = [st EXCEPT ![s] = y],
         UNCHANGED <<call, streamers, made, mu>>,
         y.callbacks = st[s].callbacks, y.rcv = st[s].rcv, y.receiver = st[s].receiver,
         y.fail = st[s].fail, y.shard = st[s].shard,
         Len(y.envelopeCh) <= 2 * BatchSize, IsFiniteSet(y.batch),
         y.flusher = "run" => Cardinality(y.batch) < BatchSize,
         Range(y.envelopeCh) \cup y.batch \cup y.wire
           = Range(st[s].envelopeCh) \cup st[s].batch \cup st[s].wire,
         IsInjective(y.envelopeCh), Range(y.envelopeCh) \cap (y.batch \cup y.wire) = {},
         y.batch \cap y.wire = {}
  PROVE  IInv'
  <1>0. TypeOK /\ SentOnce
    BY DEF IInv
  <1>1. /\ st' \in [Streamers -> StreamerType] /\ st'[s] = y
        /\ \A t \in Streamers \ {s} : st'[t] = st[t]
    BY Zenon, <1>0, StSet
  <1>2. \A t \in Streamers : /\ \A c \in Calls : Has(t, c)' <=> Has(t, c)
                             /\ st'[t].rcv = st[t].rcv
                             /\ st'[t].callbacks = st[t].callbacks
    BY <1>1 DEF Has
  <1>7. \A t \in Streamers : SameFail(t) /\ Spares(t)
    <2>1. \A t \in Streamers : SameFail(t) /\ st[t].callbacks \subseteq Calls
      BY <1>0, <1>1, StFields DEF SameFail
    <2> QED BY SMTT(40), <2>1, StillAhead DEF Spares
  <1>3. \A c \in Calls : Placed(c)' /\ Awaited(c)'
    BY <1>2, <1>7, StillPlaced
  <1>4. TypeOK'
    <2>1. \A t \in Streamers :
            /\ Len(st'[t].envelopeCh) <= 2 * BatchSize
            /\ st'[t].flusher = "run" => Cardinality(st'[t].batch) < BatchSize
      BY <1>0, <1>1, StFields
    <2> QED BY <1>0, <1>1, <2>1 DEF TypeOK
  <1>5. \A t \in Streamers : Sound(t)'
    BY <1>1, <1>7, StillAhead DEF IInv, Sound
  <1>6. SentOnce'
    <2>1. \A t \in Streamers, c \in Calls : Carries(t, c)' <=> Carries(t, c)
      BY <1>2 DEF Carries
    <2>2. \A t \in Streamers :
            /\ IsInjective(st'[t].envelopeCh)
            /\ Range(st'[t].envelopeCh) \cap (st'[t].batch \cup st'[t].wire) = {}
            /\ st'[t].batch \cap st'[t].wire = {}
      BY SMTT(40), <1>0, <1>1 DEF SentOnce
    <2> QED BY SMTT(40), <1>0, <1>2, <2>1, <2>2 DEF SentOnce
  <1> QED BY SMTT(40), <1>3, <1>4, <1>5, <1>6 DEF IInv

LEMMA FlusherStep ==
  ASSUME IInv, NEW s \in Streamers,
         Take(s) \/ (Send(s) /\ ~SendFails(s))
  PROVE  IInv'
  <1>0. TypeOK /\ SentOnce /\ IsFiniteSet(st[s].batch) /\ st[s] \in StreamerType
    BY StFields DEF IInv, Sound
  <1>1. /\ st[s].envelopeCh \in Seq(Calls) /\ IsInjective(st[s].envelopeCh)
        /\ Len(st[s].envelopeCh) <= 2 * BatchSize
        /\ Range(st[s].envelopeCh) \cap (st[s].batch \cup st[s].wire) = {}
        /\ st[s].batch \cap st[s].wire = {}
        /\ st[s].batch \in SUBSET Calls /\ st[s].wire \in SUBSET Calls
    BY SMTT(40), <1>0, StFields DEF SentOnce
  <1>2. CASE Take(s)
    <2>1. PICK c \in Calls : c = Head(st[s].envelopeCh) /\ c \in Range(st[s].envelopeCh)
      BY <1>1, <1>2, TailRange DEF Take
    <2>2. PICK q \in Seq(Calls) :
            /\ q = Tail(st[s].envelopeCh) /\ Len(q) <= 2 * BatchSize /\ IsInjective(q)
            /\ Range(q) = Range(st[s].envelopeCh) \ {c}
      <3>1. /\ Tail(st[s].envelopeCh) \in Seq(Calls) /\ Len(st[s].envelopeCh) \in Nat
            /\ Len(Tail(st[s].envelopeCh)) = Len(st[s].envelopeCh) - 1
            /\ Range(Tail(st[s].envelopeCh)) = Range(st[s].envelopeCh) \ {c}
            /\ IsInjective(Tail(st[s].envelopeCh))
        BY <1>1, <1>2, <2>1, TailRange DEF Take
      <3>2. Len(Tail(st[s].envelopeCh)) <= 2 * BatchSize
        BY <1>1, <3>1, GatewayAssumption, SMTT(40)
      <3> QED BY Zenon, <3>1, <3>2
    <2>3. PICK b \in SUBSET Calls : b = st[s].batch \cup {c}
      BY Zenon, <1>1
    <2>4. IsFiniteSet(b) /\ Cardinality(b) \in Nat
      BY Zenon, <1>0, <2>3, FS_AddElement, FS_CardinalityType
    <2>5. PICK f \in {"run", "send"} : f = IF Full(b) THEN "send" ELSE "run"
      OBVIOUS
    <2>6. PICK y \in StreamerType : y = [st[s] EXCEPT !.envelopeCh = q, !.batch = b, !.flusher = f]
      BY Zenon, <1>0 DEF StreamerType
    <2>7. /\ y.envelopeCh = q /\ y.batch = b /\ y.flusher = f /\ y.wire = st[s].wire
          /\ y.callbacks = st[s].callbacks /\ y.rcv = st[s].rcv /\ y.receiver = st[s].receiver
          /\ y.fail = st[s].fail /\ y.shard = st[s].shard
      BY <1>0, <2>6 DEF StreamerType
    <2>8. st' = [st EXCEPT ![s] = y] /\ UNCHANGED <<call, streamers, made, mu>>
      BY Zenon, <1>0, <1>2, <2>1, <2>2, <2>3, <2>5, <2>6 DEF Take, TypeOK, router
    <2>9. y.flusher = "run" => Cardinality(y.batch) < BatchSize
      BY <2>4, <2>5, <2>7, GatewayAssumption, SMTT(40) DEF Full
    <2>10. /\ Range(q) \cup b \cup st[s].wire
               = Range(st[s].envelopeCh) \cup st[s].batch \cup st[s].wire
           /\ Range(q) \cap (b \cup st[s].wire) = {} /\ b \cap st[s].wire = {}
      BY <1>1, <2>1, <2>2, <2>3
    <2>11. /\ Range(y.envelopeCh) \cup y.batch \cup y.wire
                = Range(st[s].envelopeCh) \cup st[s].batch \cup st[s].wire
           /\ Range(y.envelopeCh) \cap (y.batch \cup y.wire) = {} /\ y.batch \cap y.wire = {}
           /\ IsInjective(y.envelopeCh) /\ Len(y.envelopeCh) <= 2 * BatchSize
           /\ IsFiniteSet(y.batch)
      BY <2>2, <2>4, <2>7, <2>10
    <2> QED BY Zenon, <2>7, <2>8, <2>9, <2>11, Shifted
  <1>3. CASE Send(s) /\ ~SendFails(s)
    <2>1. PICK w \in SUBSET Calls : w = st[s].wire \cup st[s].batch
      BY Zenon, <1>1
    <2>2. PICK f \in {"run", "end"} : f = IF st[s].flusher = "last" THEN "end" ELSE "run"
      OBVIOUS
    <2>3. PICK h \in BOOLEAN : h = (st[s].flusher = "last")
      BY Zenon
    <2>4. PICK y \in StreamerType :
            y = [st[s] EXCEPT !.wire = w, !.batch = {}, !.halfClosed = h, !.flusher = f]
      BY Zenon, <1>0 DEF StreamerType
    <2>5. /\ y.envelopeCh = st[s].envelopeCh /\ y.batch = {} /\ y.wire = w
          /\ y.callbacks = st[s].callbacks /\ y.rcv = st[s].rcv /\ y.receiver = st[s].receiver
          /\ y.fail = st[s].fail /\ y.shard = st[s].shard
      BY <1>0, <2>4 DEF StreamerType
    <2>6. Sent(st[s]) = y
      BY <1>0, <2>1, <2>2, <2>3, <2>4 DEF Sent, StreamerType
    <2>7. st' = [st EXCEPT ![s] = y] /\ UNCHANGED <<call, streamers, made, mu>>
      BY Zenon, <1>0, <1>3, <2>6 DEF Send, SendFails, TypeOK, router
    <2>8. IsFiniteSet(y.batch) /\ Cardinality(y.batch) < BatchSize
      BY <2>5, FS_EmptySet, GatewayAssumption
    <2> QED BY Zenon, <1>1, <2>1, <2>5, <2>7, <2>8, Shifted
  <1> QED BY <1>2, <1>3

LEMMA RecvStep ==
  ASSUME IInv, NEW s \in Streamers, NEW c \in Calls, Recv(s, c)
  PROVE  IInv'
  <1>0. TypeOK /\ SentOnce /\ st[s] \in StreamerType /\ st[s].rcv = None /\ c \in st[s].wire
    BY StFields DEF IInv, Sound, Recv
  <1>1. PICK waits \in BOOLEAN : waits <=> c \in st[s].callbacks \ Fire
    <2>1. CASE c \in st[s].callbacks \ Fire
      <3> WITNESS TRUE \in BOOLEAN
      <3> QED BY Zenon, <2>1
    <2>2. CASE c \notin st[s].callbacks \ Fire
      <3> WITNESS FALSE \in BOOLEAN
      <3> QED BY Zenon, <2>2
    <2> QED BY <2>1, <2>2
  <1>2. PICK y \in StreamerType :
          /\ st' = [st EXCEPT ![s] = y]
          /\ y.wire = st[s].wire \ {c} /\ y.callbacks = st[s].callbacks \ {c}
          /\ y.rcv = (IF waits THEN c ELSE None)
          /\ y.receiver = IF waits THEN "deliver" ELSE "run"
          /\ y.envelopeCh = st[s].envelopeCh /\ y.batch = st[s].batch
          /\ y.flusher = st[s].flusher /\ y.fail = st[s].fail /\ y.shard = st[s].shard
    <2> DEFINE z == [st[s] EXCEPT !.wire = @ \ {c}, !.callbacks = @ \ {c},
                                  !.rcv = IF waits THEN c ELSE None,
                                  !.receiver = IF waits THEN "deliver" ELSE "run"]
    <2>1. st' = [st EXCEPT ![s] = z]
      BY Zenon, <1>0, <1>1 DEF Recv, TypeOK
    <2>2. z \in StreamerType
      BY <1>0, StFields, ZenonT(60) DEF StreamerType
    <2>3. /\ z.wire = st[s].wire \ {c} /\ z.callbacks = st[s].callbacks \ {c}
          /\ z.rcv = (IF waits THEN c ELSE None)
          /\ z.receiver = IF waits THEN "deliver" ELSE "run"
          /\ z.envelopeCh = st[s].envelopeCh /\ z.batch = st[s].batch
          /\ z.flusher = st[s].flusher /\ z.fail = st[s].fail /\ z.shard = st[s].shard
      BY <1>0, StFields DEF StreamerType
    <2> HIDE DEF z
    <2> QED BY Zenon, <2>1, <2>2, <2>3
  <1>3. /\ st' \in [Streamers -> StreamerType] /\ st'[s] = y
        /\ \A t \in Streamers \ {s} : st'[t] = st[t]
    BY Zenon, <1>0, <1>2, StSet
  <1>4. UNCHANGED <<call, streamers, made, mu>>
    BY DEF Recv, router
  <1>5. TypeOK'
    <2>1. \A t \in Streamers :
            /\ Len(st'[t].envelopeCh) <= 2 * BatchSize
            /\ st'[t].flusher = "run" => Cardinality(st'[t].batch) < BatchSize
      BY <1>0, <1>2, <1>3, StFields
    <2> QED BY <1>0, <1>3, <1>4, <2>1 DEF TypeOK
  <1>12. \A t \in Streamers : SameFail(t)
    BY <1>2, <1>3 DEF SameFail
  <1>6. \A t \in Streamers : Sound(t)'
    BY <1>2, <1>3, <1>12, StillAhead, GatewayAssumption DEF IInv, Sound
  <1>7. /\ c \notin Range(st[s].envelopeCh) \cup st[s].batch
        /\ \A t \in Streamers \ {s} : ~Carries(t, c)
    BY <1>0 DEF SentOnce, Carries, Has
  <1>8. \A t \in Streamers, d \in Calls :
          /\ Has(t, d)' <=> Has(t, d) /\ ~(t = s /\ d = c)
          /\ d \in st'[t].callbacks <=> d \in st[t].callbacks /\ ~(t = s /\ d = c)
          /\ st'[t].rcv = d <=> st[t].rcv = d \/ (t = s /\ d = c /\ waits)
    BY <1>0, <1>2, <1>3, <1>7, GatewayAssumption DEF Has
  <1>9. \A t \in Streamers, d \in Calls : Carries(t, d)' => Carries(t, d)
    BY <1>0, <1>8 DEF Carries, Has
  <1>10. ASSUME NEW d \in Calls PROVE Placed(d)' /\ Awaited(d)'
    <2>0. Placed(d) /\ Awaited(d)
      BY DEF IInv
    <2>1. Placed(d)'
      BY SMTT(40), <1>4, <1>8, <1>9, <2>0 DEF Placed, Nowhere
    <2>2. CASE d = c
      <3>1. call[c].pc # "offer"
        BY <1>0, <2>0, <2>2 DEF Placed, Carries, Has
      <3>2. call[c].pc = "wait" /\ call[c].respCh = "none" => waits
        <4>1. ASSUME call[c].pc = "wait", call[c].respCh = "none" PROVE waits
          <5>1. PICK t \in Streamers : st[t].rcv = c \/ (c \in st[t].callbacks /\ Has(t, c))
            BY <2>0, <2>2, <4>1 DEF Awaited, Ahead
          <5>2. t = s
            BY <1>7, <5>1 DEF Carries
          <5> QED BY <1>0, <1>1, <2>0, <2>2, <4>1, <5>1, <5>2, GatewayAssumption DEF Awaited
        <4> QED BY <4>1
      <3>3. Awaited(c)'
        BY <1>4, <1>8, <2>0, <2>2, <3>1, <3>2 DEF Awaited
      <3> QED BY <2>1, <2>2, <3>3
    <2>3. CASE d # c
      <3>2. \A t \in Streamers : Ahead(t, d) => Ahead(t, d)'
        BY <1>4, <1>8, <1>12, <2>3, StillAhead DEF Ahead
      <3>1. Awaited(d)'
        BY ZenonT(40), <1>4, <1>8, <2>0, <2>3, <3>2 DEF Awaited, Placed
      <3> QED BY <2>1, <3>1
    <2> QED BY <2>2, <2>3
  <1>11. SentOnce'
    <2>1. \A t \in Streamers :
            /\ IsInjective(st'[t].envelopeCh)
            /\ Range(st'[t].envelopeCh) \cap (st'[t].batch \cup st'[t].wire) = {}
            /\ st'[t].batch \cap st'[t].wire = {}
      BY <1>0, <1>2, <1>3 DEF SentOnce
    <2>2. \A t \in Streamers, d \in Calls : ~(st'[t].rcv = d /\ Has(t, d)')
      BY <1>0, <1>8 DEF SentOnce
    <2>3. \A t \in Streamers, d \in Calls :
            Carries(t, d)' => \A u \in Streamers \ {t} : ~Carries(u, d)'
      BY <1>0, <1>9 DEF SentOnce
    <2> QED BY <2>1, <2>2, <2>3 DEF SentOnce
  <1> QED BY <1>5, <1>6, <1>10, <1>11 DEF IInv

LEMMA DeliverStep ==
  ASSUME IInv, NEW s \in Streamers, Deliver(s)
  PROVE  IInv'
  <1>0. TypeOK /\ SentOnce /\ st[s] \in StreamerType
    BY StFields DEF IInv
  <1>1. PICK c \in Calls : c = st[s].rcv
    BY <1>0, StFields DEF Deliver, IInv, Sound
  <1>2. PICK y \in StreamerType :
          /\ st' = [st EXCEPT ![s] = y] /\ y.rcv = None /\ y.receiver = "run"
          /\ y.wire = st[s].wire /\ y.callbacks = st[s].callbacks
          /\ y.envelopeCh = st[s].envelopeCh /\ y.batch = st[s].batch
          /\ y.flusher = st[s].flusher /\ y.fail = st[s].fail /\ y.shard = st[s].shard
    <2> DEFINE z == [st[s] EXCEPT !.rcv = None, !.receiver = "run"]
    <2>1. st' = [st EXCEPT ![s] = z]
      BY Zenon, <1>0 DEF Deliver, TypeOK
    <2>2. /\ z \in StreamerType /\ z.rcv = None /\ z.receiver = "run"
          /\ z.wire = st[s].wire /\ z.callbacks = st[s].callbacks
          /\ z.envelopeCh = st[s].envelopeCh /\ z.batch = st[s].batch
          /\ z.flusher = st[s].flusher /\ z.fail = st[s].fail /\ z.shard = st[s].shard
      BY Zenon, <1>0 DEF StreamerType
    <2> HIDE DEF z
    <2> QED BY Zenon, <2>1, <2>2
  <1>3. /\ st' \in [Streamers -> StreamerType] /\ st'[s] = y
        /\ \A t \in Streamers \ {s} : st'[t] = st[t]
    BY Zenon, <1>0, <1>2, StSet
  <1>4. PICK x \in CallType :
          /\ call' = [call EXCEPT ![c] = x] /\ x.respCh = "answered" /\ x.pc = call[c].pc
          /\ x.ns = call[c].ns /\ x.attempts = call[c].attempts /\ x.result = call[c].result
          /\ x.late = call[c].late
    <2> DEFINE z == [call[c] EXCEPT !.respCh = "answered"]
    <2>1. call' = [call EXCEPT ![c] = z]
      BY <1>0, <1>1 DEF Deliver, Respond, TypeOK
    <2>2. /\ z \in CallType /\ z.respCh = "answered" /\ z.pc = call[c].pc
          /\ z.ns = call[c].ns /\ z.attempts = call[c].attempts /\ z.result = call[c].result
          /\ z.late = call[c].late
      BY <1>0, CallFields DEF CallType
    <2> HIDE DEF z
    <2> QED BY Zenon, <2>1, <2>2
  <1>5. /\ call' \in [Calls -> CallType] /\ call'[c] = x
        /\ \A d \in Calls \ {c} : call'[d] = call[d]
    BY Zenon, <1>0, <1>4, CallSet
  <1>6. UNCHANGED <<streamers, made, mu>>
    BY DEF Deliver, router
  <1>7. TypeOK'
    <2>1. \A t \in Streamers :
            /\ Len(st'[t].envelopeCh) <= 2 * BatchSize
            /\ st'[t].flusher = "run" => Cardinality(st'[t].batch) < BatchSize
      BY <1>0, <1>2, <1>3, StFields
    <2>2. \A d \in Calls : call'[d].ns <= made
      BY <1>0, <1>4, <1>5, CallFields
    <2> QED BY <1>0, <1>3, <1>5, <1>6, <2>1, <2>2 DEF TypeOK
  <1>13. \A t \in Streamers : SameFail(t)
    BY <1>2, <1>3 DEF SameFail
  <1>8. \A t \in Streamers : Sound(t)'
    BY <1>2, <1>3, <1>13, StillAhead DEF IInv, Sound
  <1>9. \A t \in Streamers, d \in Calls :
          /\ Has(t, d)' <=> Has(t, d)
          /\ d \in st'[t].callbacks <=> d \in st[t].callbacks
          /\ st'[t].rcv = d <=> st[t].rcv = d /\ t # s
    BY <1>2, <1>3, GatewayAssumption DEF Has
  <1>10. \A t \in Streamers, d \in Calls : Carries(t, d)' => Carries(t, d)
    BY SMTT(40), <1>9 DEF Carries
  <1>11. ASSUME NEW d \in Calls PROVE Placed(d)' /\ Awaited(d)'
    <2>0. Placed(d) /\ Awaited(d)
      BY SMTT(40) DEF IInv
    <2>1. Placed(d)'
      <3>1. /\ call'[d].pc = call[d].pc /\ call'[d].ns = call[d].ns
            /\ call'[d].attempts = call[d].attempts /\ call'[d].result = call[d].result
        BY <1>4, <1>5
      <3>2. Nowhere(d) => Nowhere(d)'
        BY <1>9, <1>10 DEF Nowhere
      <3> QED BY ZenonT(40), <1>9, <1>10, <2>0, <3>1, <3>2 DEF Placed
    <2>2. Awaited(d)'
      <3>1. CASE d = c
        BY ZenonT(40), <1>4, <1>5, <2>0, <3>1 DEF Awaited
      <3>2. CASE d # c
        <4>1. \A t \in Streamers : Ahead(t, d) => Ahead(t, d)'
          BY <1>5, <1>9, <1>13, <3>2, StillAhead DEF Ahead
        <4> QED BY SMTT(40), <1>1, <1>5, <1>9, <2>0, <3>2, <4>1 DEF Awaited, Placed
      <3> QED BY <3>1, <3>2
    <2> QED BY <2>1, <2>2
  <1>12. SentOnce'
    <2>1. \A t \in Streamers :
            /\ IsInjective(st'[t].envelopeCh)
            /\ Range(st'[t].envelopeCh) \cap (st'[t].batch \cup st'[t].wire) = {}
            /\ st'[t].batch \cap st'[t].wire = {}
      BY SMTT(40), <1>0, <1>2, <1>3 DEF SentOnce
    <2>2. \A t \in Streamers, d \in Calls : ~(st'[t].rcv = d /\ Has(t, d)')
      BY <1>0, <1>9 DEF SentOnce
    <2>3. \A t \in Streamers, d \in Calls :
            Carries(t, d)' => \A u \in Streamers \ {t} : ~Carries(u, d)'
      BY <1>0, <1>10 DEF SentOnce
    <2> QED BY <2>1, <2>2, <2>3 DEF SentOnce
  <1> QED BY <1>7, <1>8, <1>11, <1>12 DEF IInv
-----------------------------------------------------------------------------
(* The theorems.                                                           *)

LEMMA Initially == Init => IInv
  <1> SUFFICES ASSUME Init PROVE IInv
    OBVIOUS
  <1>1. NewCall \in CallType /\ NewStreamer \in StreamerType
    BY GatewayAssumption, SMTT(40) DEF NewCall, CallType, NewStreamer, StreamerType, None
  <1>2. call \in [Calls -> CallType] /\ st \in [Streamers -> StreamerType]
    BY <1>1 DEF Init
  <1>3. \A s \in Streamers :
          /\ st[s].callbacks = {} /\ st[s].envelopeCh = <<>> /\ st[s].batch = {}
          /\ st[s].wire = {} /\ st[s].rcv = None /\ st[s].receiver = "run" /\ st[s].shard = 0
    BY DEF Init, NewStreamer
  <1>4. \A c \in Calls : /\ call[c].pc = "idle" /\ call[c].ns = None
                         /\ call[c].attempts = 0 /\ call[c].result = "none"
    BY DEF Init, NewCall
  <1>5. TypeOK
    <2>1. streamers \in 0 .. made /\ made \in 0 .. MaxStreamers /\ mu \in BOOLEAN
      <3>1. streamers = 0 /\ made = 0
        BY DEF Init, None
      <3>2. streamers \in 0 .. made /\ made \in 0 .. MaxStreamers
        BY <3>1, GatewayAssumption
      <3>3. mu \in BOOLEAN
        BY Zenon DEF Init
      <3> QED BY <3>2, <3>3
    <2>2. \A c \in Calls : call[c].ns <= made
      BY <1>4 DEF Init, None
    <2>3. \A s \in Streamers :
            Len(st[s].envelopeCh) <= 2 * BatchSize /\ Cardinality(st[s].batch) < BatchSize
      <3>1. Len(<<>>) <= 2 * BatchSize /\ Cardinality({}) < BatchSize
        BY FS_EmptySet, GatewayAssumption
      <3> QED BY Zenon, <1>3, <3>1
    <2> QED BY <1>2, <2>1, <2>2, <2>3 DEF TypeOK
  <1>6. \A s \in Streamers, c \in Calls : ~Has(s, c) /\ ~Carries(s, c)
    BY <1>3, GatewayAssumption DEF Has, Carries, Range
  <1>7. ASSUME NEW c \in Calls PROVE Placed(c) /\ Awaited(c)
    <2>1. Nowhere(c)
      BY <1>3, <1>6 DEF Nowhere
    <2>2. Placed(c)
      BY <1>4, <2>1 DEF Placed
    <2>3. Awaited(c)
      BY <1>4 DEF Awaited
    <2> QED BY <2>2, <2>3
  <1>8. SentOnce
    BY <1>3, <1>6, SMTT(40) DEF SentOnce, Range, IsInjective
  <1>9. \A s \in Streamers : Sound(s)
    BY Zenon, <1>3, FS_EmptySet DEF Sound, Unfailed
  <1> QED BY <1>5, <1>7, <1>8, <1>9 DEF IInv

LEMMA Preserved == IInv /\ [Next]_vars => IInv'
  <1> SUFFICES ASSUME IInv, [Next]_vars PROVE IInv'
    OBVIOUS
  <1>1. CASE UNCHANGED vars
    <2>0. UNCHANGED <<call, st, streamers, made, mu>>
      BY <1>1 DEF vars, router
    <2>1. TypeOK'
      BY <2>0 DEF IInv, TypeOK
    <2>2. \A s \in Streamers, c \in Calls :
            (Has(s, c)' <=> Has(s, c)) /\ (Carries(s, c)' <=> Carries(s, c))
      BY <2>0 DEF Has, Carries
    <2>3. SentOnce'
      BY SMTT(40), <2>0, <2>2 DEF IInv, SentOnce
    <2>4. \A c \in Calls : Placed(c)'
      BY SMTT(40), <2>0, <2>2 DEF IInv, Placed, Nowhere
    <2>5. \A c \in Calls : Awaited(c)'
      <3>1. \A c \in Calls, s \in Streamers : Ahead(s, c)' <=> Ahead(s, c)
        BY <2>0 DEF Ahead, Passed
      <3> QED BY SMTT(40), <2>0, <2>2, <3>1 DEF IInv, Awaited, Placed
    <2>6. \A s \in Streamers : Sound(s)'
      BY <2>0 DEF IInv, Sound, Unfailed
    <2> QED BY <2>1, <2>3, <2>4, <2>5, <2>6 DEF IInv
  <1>2. ASSUME NEW c \in Calls, NoNode(c) \/ Begin(c) \/ CallNext(c) PROVE IInv'
    <2>1. CASE StoreCallback(c) \/ Offer(c)
      BY <2>1, StoreStep, OfferStep
    <2>2. CASE Retry(c)
      BY <2>2, RemoveStep
    <2>3. CASE \/ NoNode(c) \/ Begin(c) \/ Again(c) \/ DeleteDead(c) \/ Lock(c) \/ Create(c)
               \/ CreateFailed(c) \/ Publish(c) \/ Receive(c) \/ Timeout(c)
      BY <2>3, CallStep
    <2>4. CASE Cleanup(c)
      BY <2>4, CallStep, RemoveStep
    <2> QED BY <1>2, <2>1, <2>2, <2>3, <2>4 DEF CallNext
  <1>3. ASSUME NEW s \in Streamers,
               FlusherNext(s) \/ ReceiverNext(s) \/ FailNext(s) \/ Break(s) \/ Stall(s)
        PROVE IInv'
    <2>1. CASE Quiet(s)
      BY <2>1, QuietStep
    <2>2. CASE Take(s)
      BY <2>2, FlusherStep
    <2>5. CASE Send(s)
      BY <2>1, <2>5, FlusherStep DEF Quiet
    <2>3. CASE Deliver(s)
      BY <2>3, DeliverStep
    <2>4. ASSUME NEW c \in Calls, FailOne(s, c) PROVE IInv'
      <3>1. FailSome(c)
        BY <2>4 DEF FailSome
      <3> QED BY <3>1, RemoveStep
    <2> QED BY <1>3, <2>1, <2>2, <2>3, <2>4, <2>5 DEF FlusherNext, ReceiverNext, FailNext, Quiet
  <1>4. ASSUME NEW s \in Streamers, NEW c \in Calls, Recv(s, c) PROVE IInv'
    BY <1>4, RecvStep
  <1>5. CASE StopBegin \/ StopEnd
    BY <1>5, StopStep
  <1> QED BY <1>1, <1>2, <1>3, <1>4, <1>5 DEF Next

\* The invariant behind the theorems below, of every interleaving of calls,
\* flushers, receivers, failing streamers and StopAll.
THEOREM AlwaysIInv == Spec => []IInv
  BY Initially, Preserved, PTL DEF Spec

\* The types of the Router, its calls and its streamers, the capacity of
\* envelopeCh, and the flusher's bound on its batch.
THEOREM TypeCorrect == Spec => []TypeOK
  <1>1. IInv => TypeOK
    BY DEF IInv
  <1> QED BY AlwaysIInv, <1>1, PTL

\* However streams break and streamers are evicted, replaced and retried, a
\* request is on its way in at most one place.
THEOREM NothingSentTwice == Spec => []SentOnce
  <1>1. IInv => SentOnce
    BY DEF IInv
  <1> QED BY AlwaysIInv, <1>1, PTL

\* A call that dispatchEnvelope fails itself has left no envelope and no
\* callback behind.
THEOREM RefusalIsClean == Spec => []RefusedNotSent
  <1>1. IInv => RefusedNotSent
    BY DEF IInv, RefusedNotSent, Placed, Nowhere
  <1> QED BY AlwaysIInv, <1>1, PTL

\* A waiting call without a result can still be resolved by a streamer.
THEOREM WaitingIsResolvable == Spec => []Resolvable
  <1>1. IInv => Resolvable
    BY DEF IInv, Resolvable, Awaited, Ahead, At
  <1> QED BY AlwaysIInv, <1>1, PTL
=============================================================================
