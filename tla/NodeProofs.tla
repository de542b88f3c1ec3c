----------------------------- MODULE NodeProofs -----------------------------
(***************************************************************************)
(* Proofs about Node for any streams, requests, keys, shards, batches and  *)
(* bounds: an actor that accepts messages is in the shard map or about to  *)
(* be stopped by its eviction, so a node has at most one actor per key     *)
(* that later batches can reach.                                           *)
(***************************************************************************)
EXTENDS Node, TLAPS

\* The steps of the node's surroundings, which change only env.
Environment == (\E k \in Keys : Move(k)) \/ (\E s \in Streams : Hold(s)) \/ Release

\* What HandleBatch knows at each step about its envelope and its actor.
StreamKnows(s) ==
  /\ str[s].pc \notin {"recv", "ended"} => str[s].todo # <<>>
  /\ str[s].pc \in {"killStop", "route", "put", "undo"} => Act(s) \in 1 .. made
  /\ str[s].pc = "undo" => inc[Act(s)].phase # "running"
  /\ str[s].pc = "rehydrate" => actors[Key(s)] = None

\* The write lock of a shard has one holder.
OneHolder ==
  \A s, t \in Streams :
    str[s].pc = "rehydrate" /\ str[t].pc = "rehydrate" /\ ShardOf[Key(s)] = ShardOf[Key(t)]
      => s = t

\* An entry of a shard map names an actor made for that key.
EntryOK(k) == actors[k] # None => actors[k] <= made /\ inc[actors[k]].key = k

\* NoOrphan is not inductive alone: a new actor overwrites no entry because the
\* lock has one holder, and a retry deletes no live one because a status never
\* goes back to running.
IInv ==
  /\ RecordsOK
  /\ \A s \in Streams : StreamKnows(s)
  /\ OneHolder
  /\ \A k \in Keys : EntryOK(k)
  /\ \A i \in Incs : inc[i].phase # "none" => i <= made
  /\ NoOrphan

RoutesOK ==
  DOMAIN routes \subseteq Requests /\ \A r \in DOMAIN routes : routes[r] \in Streams
-----------------------------------------------------------------------------
\* A step of a stream that leaves the maps and the actors alone, given what it
\* has to know to be where it goes.
LEMMA StreamMoves ==
  ASSUME IInv, NEW s \in Streams, NEW x \in StrType,
         str' = [str EXCEPT ![s] = x], UNCHANGED <<actors, made, inc>>, RoutesOK',
         str[s].pc # "killStop", x.pc # "killStop",
         x.pc \notin {"recv", "ended"} => x.todo # <<>>,
         x.pc \in {"route", "put", "undo"} => x.act \in 1 .. made,
         x.pc = "undo" => inc[x.act].phase # "running",
         x.pc = "rehydrate" =>
           x.todo = str[s].todo /\ actors[Key(s)] = None /\ ~Locked(Key(s))
  PROVE  IInv'
<1>1. /\ str \in [Streams -> StrType]
      /\ str'[s] = x
      /\ \A t \in Streams \ {s} : str'[t] = str[t]
  BY DEF IInv, RecordsOK
<1>2. RecordsOK'
  BY DEF IInv, RecordsOK, RoutesOK
<1>3. x.pc = "rehydrate" => Key(s)' = Key(s)
  BY <1>1 DEF Key, Req
<1>4. \A t \in Streams \ {s} : Key(t)' = Key(t) /\ Act(t)' = Act(t)
  BY <1>1 DEF Key, Req, Act
<1>5. \A t \in Streams : StreamKnows(t)'
  BY <1>1, <1>3, <1>4 DEF IInv, StreamKnows, Act
<1>6. OneHolder'
  BY <1>1, <1>3, <1>4 DEF IInv, OneHolder, Locked
<1>7. NoOrphan'
  <2> SUFFICES ASSUME NEW i \in Incs, inc[i].phase = "running", actors[inc[i].key] # i
               PROVE  \E t \in Streams : str'[t].pc = "killStop" /\ Act(t)' = i
    BY DEF NoOrphan
  <2>1. PICK t \in Streams : str[t].pc = "killStop" /\ Act(t) = i
    BY DEF IInv, NoOrphan
  <2> QED
    BY <2>1, <1>1, <1>4
<1>8. (\A k \in Keys : EntryOK(k))' /\ (\A i \in Incs : inc[i].phase # "none" => i <= made)'
  BY DEF IInv, EntryOK
<1> QED
  BY <1>2, <1>5, <1>6, <1>7, <1>8 DEF IInv

\* A step that changes one actor only, does not start it and keeps its key.
LEMMA ActorMoves ==
  ASSUME IInv, NEW i \in Incs, NEW x \in IncType,
         inc' = [inc EXCEPT ![i] = x], UNCHANGED <<actors, made, str>>, RoutesOK',
         x.key = inc[i].key,
         x.phase = "running" => inc[i].phase = "running",
         x.phase # "none" => inc[i].phase # "none"
  PROVE  IInv'
<1>1. /\ inc \in [Incs -> IncType]
      /\ inc'[i] = x
      /\ \A j \in Incs \ {i} : inc'[j] = inc[j]
  BY DEF IInv, RecordsOK
<1>2. RecordsOK'
  BY DEF IInv, RecordsOK, RoutesOK
<1>3. \A j \in Incs : /\ inc'[j].key = inc[j].key
                      /\ inc'[j].phase = "running" => inc[j].phase = "running"
                      /\ inc'[j].phase # "none" => inc[j].phase # "none"
  BY <1>1
<1>4. \A t \in Streams : Key(t)' = Key(t) /\ Act(t)' = Act(t)
  BY DEF Key, Req, Act
<1>5. \A t \in Streams : StreamKnows(t)'
  <2> SUFFICES ASSUME NEW t \in Streams PROVE StreamKnows(t)'
    OBVIOUS
  <2>1. Act(t) \in 1 .. made => Act(t) \in Incs
    BY NodeAssumption DEF IInv, RecordsOK, Incs
  <2> QED
    BY <1>3, <1>4, <2>1 DEF IInv, StreamKnows
<1>6. OneHolder'
  BY <1>4 DEF IInv, OneHolder
<1>7. \A k \in Keys : EntryOK(k)'
  BY <1>3 DEF IInv, EntryOK, RecordsOK
<1>8. NoOrphan' /\ (\A j \in Incs : inc[j].phase # "none" => j <= made)'
  BY <1>3, <1>4 DEF IInv, NoOrphan
<1> QED
  BY <1>2, <1>5, <1>6, <1>7, <1>8 DEF IInv

LEMMA InitIInv == Init => IInv
<1> SUFFICES ASSUME Init PROVE IInv
  OBVIOUS
<1>1. PICK k0 \in Keys :
        inc = [i \in Incs |-> [NewActor(k0) EXCEPT !.phase = "none", !.pc = "none"]]
  BY Zenon, NodeAssumption DEF Init
<1>2. \A i \in Incs : inc[i] \in IncType /\ inc[i].phase = "none"
  <2> DEFINE z == [NewActor(k0) EXCEPT !.phase = "none", !.pc = "none"]
  <2>1. NoResult \in Results
    BY DEF NoResult, Result, Results
  <2>2. NewActor(k0) \in IncType
    BY <2>1 DEF NewActor, IncType
  <2>3. z \in IncType /\ z.phase = "none"
    BY Zenon, <2>2 DEF IncType
  <2> QED
    BY Zenon, <1>1, <2>3
<1>3. inc \in [Incs -> IncType]
  BY <1>1, <1>2
<1>4. \A s \in Streams : str[s] \in StrType /\ str[s].pc = "recv"
  <2> SUFFICES ASSUME NEW s \in Streams PROVE str[s] \in StrType /\ str[s].pc = "recv"
    OBVIOUS
  <2>1. PICK left \in Seq(Batch) : left = Batches[s]
    BY NodeAssumption
  <2>2. str[s] = [pc |-> "recv", todo |-> <<>>, act |-> None, over |-> FALSE, left |-> left]
    BY Zenon, <2>1 DEF Init
  <2>3. <<>> \in Seq(Requests)
    OBVIOUS
  <2> QED
    BY <2>2, <2>3 DEF StrType
<1>5. str \in [Streams -> StrType]
  BY Zenon, <1>4 DEF Init
<1>6. RecordsOK
  <2>1. made \in 0 .. MaxActors
    <3>1. MaxActors \in Nat
      BY NodeAssumption
    <3>2. made = 0
      BY Zenon DEF Init
    <3> QED
      BY <3>1, <3>2
  <2>2. actors \in [Keys -> Incs \cup {None}]
    BY Zenon DEF Init
  <2>3. DOMAIN routes = {}
    BY Zenon DEF Init
  <2> QED
    BY <1>3, <1>5, <2>1, <2>2, <2>3 DEF RecordsOK
<1> QED
  BY <1>2, <1>4, <1>6 DEF Init, IInv, StreamKnows, OneHolder, EntryOK, NoOrphan
-----------------------------------------------------------------------------
\* A stream that is busy with an envelope: the envelope, its key and what comes
\* next have their types.
LEMMA Envelope ==
  ASSUME IInv, NEW s \in Streams, str[s].pc \notin {"recv", "ended"}
  PROVE  /\ str[s] \in StrType
         /\ Req(s) \in Requests
         /\ Key(s) \in Keys
         /\ Tail(str[s].todo) \in Seq(Requests)
<1>1. str[s] \in StrType /\ str[s].todo \in Seq(Requests) /\ str[s].todo # <<>>
  BY DEF IInv, RecordsOK, StrType, StreamKnows
<1> QED
  BY <1>1, NodeAssumption DEF Req, Key

\* The parts of NextEnvelope.
LEMMA NextEnvelopeIs ==
  ASSUME IInv, NEW s \in Streams, str[s].pc \notin {"recv", "ended"}, NextEnvelope(s)
  PROVE  \E x \in StrType : /\ str' = [str EXCEPT ![s] = x]
                            /\ x.pc \in {"recv", "reply", "check"}
                            /\ x.pc # "recv" => x.todo # <<>>
<1> DEFINE rest == Tail(str[s].todo)
           x == [str[s] EXCEPT
                   !.todo = rest, !.act = None, !.over = @ /\ rest # <<>>,
                   !.pc = IF rest = <<>> THEN "recv"
                          ELSE IF str[s].over THEN "reply" ELSE "check"]
<1>1. str[s] \in StrType /\ rest \in Seq(Requests)
  BY Envelope
<1>2. /\ x \in StrType
      /\ x.pc \in {"recv", "reply", "check"}
      /\ x.pc # "recv" => x.todo # <<>>
  <2> HIDE DEF rest
  <2> QED
    BY Zenon, <1>1 DEF StrType
<1>3. str' = [str EXCEPT ![s] = x]
  BY DEF NextEnvelope
<1> QED
  BY Zenon, <1>2, <1>3

\* The streams' steps that only move the stream.
LEMMA StreamAlone ==
  ASSUME IInv, NEW s \in Streams,
         \/ Receive(s) \/ StreamEnd(s) \/ Check(s) \/ Reply(s) \/ Lookup(s) \/ Create(s)
         \/ RehydrateFailed(s) \/ Route(s)
  PROVE  IInv'
<1>0. str[s] \in StrType /\ RoutesOK
  BY DEF IInv, RecordsOK, RoutesOK
<1>1. CASE Receive(s)
  <2> DEFINE b == Head(str[s].left)
             over == pending >= MailboxLimit
             x == [str[s] EXCEPT !.left = Tail(@), !.todo = b,
                                 !.pc = IF over THEN "reply" ELSE "check", !.over = over]
  <2>1. b \in Batch /\ Tail(str[s].left) \in Seq(Batch)
    BY <1>0, <1>1 DEF Receive, StrType
  <2>2. b \in Seq(Requests) /\ b # <<>>
    BY <2>1, <1>1 DEF Receive, Batch
  <2>3. over \in BOOLEAN
    OBVIOUS
  <2>4. x \in StrType /\ x.pc \in {"reply", "check"} /\ x.todo # <<>>
    <3> HIDE DEF over, b
    <3> QED
      BY Zenon, <1>0, <2>1, <2>2, <2>3 DEF StrType
  <2>5. str' = [str EXCEPT ![s] = x] /\ UNCHANGED <<actors, made, inc>> /\ RoutesOK'
    BY Zenon, <1>0, <1>1 DEF Receive, RoutesOK
  <2> HIDE DEF x
  <2> QED
    BY Zenon, <1>1, <2>4, <2>5, StreamMoves DEF Receive
<1>2. CASE StreamEnd(s) \/ Check(s) \/ RehydrateFailed(s)
  <2>1. PICK l \in {"ended", "reply", "kill", "lookup"} : Goto(s, l) /\ (l = "ended" <=> StreamEnd(s))
    BY <1>2 DEF StreamEnd, Check, RehydrateFailed
  <2> DEFINE x == [str[s] EXCEPT !.pc = l]
  <2>2. x \in StrType /\ x.pc = l /\ x.todo = str[s].todo
    BY <1>0 DEF StrType
  <2>3. str' = [str EXCEPT ![s] = x] /\ UNCHANGED <<actors, made, inc>> /\ RoutesOK'
    BY <1>0, <1>2, <2>1 DEF StreamEnd, Check, RehydrateFailed, RoutesOK, Goto
  <2>4. l # "ended" => str[s].todo # <<>>
    BY <1>2, <2>1 DEF IInv, StreamKnows, Check, RehydrateFailed
  <2> HIDE DEF x
  <2> QED
    BY Zenon, <1>2, <2>2, <2>3, <2>4, StreamMoves DEF StreamEnd, Check, RehydrateFailed
<1>3. CASE Reply(s)
  <2>1. PICK x \in StrType : /\ str' = [str EXCEPT ![s] = x]
                             /\ x.pc \in {"recv", "reply", "check"}
                             /\ x.pc # "recv" => x.todo # <<>>
    BY <1>3, NextEnvelopeIs DEF Reply
  <2>2. UNCHANGED <<actors, made, inc>> /\ RoutesOK'
    BY <1>0, <1>3 DEF Reply, RoutesOK
  <2> QED
    BY Zenon, <1>3, <2>1, <2>2, StreamMoves DEF Reply
<1>4. CASE Lookup(s) \/ Create(s)
  <2>1. PICK l \in {"create", "rehydrate"} : Find(s, l, "route")
    BY <1>4 DEF Lookup, Create
  <2> DEFINE i == actors[Key(s)]
             x == [str[s] EXCEPT !.act = i, !.pc = IF i = None THEN l ELSE "route"]
  <2>2. str[s].pc \notin {"recv", "ended", "killStop"}
    BY <1>4 DEF Lookup, Create
  <2>3. Key(s) \in Keys /\ str[s].todo # <<>>
    BY <2>2, Envelope DEF IInv, StreamKnows
  <2>4. i \in Incs \cup {None} /\ (i # None => i \in 1 .. made)
    BY <2>3, NodeAssumption DEF IInv, RecordsOK, EntryOK, Incs, None
  <2>5. /\ x \in StrType /\ x.todo = str[s].todo
        /\ x.pc = IF i = None THEN l ELSE "route"
        /\ x.act = i
    <3> HIDE DEF i
    <3> QED
      BY Zenon, <1>0, <2>4 DEF StrType
  <2>6. str' = [str EXCEPT ![s] = x] /\ ~Locked(Key(s))
    BY Zenon, <2>1 DEF Find
  <2>7. UNCHANGED <<actors, made, inc>> /\ RoutesOK'
    BY <1>0, <1>4 DEF Lookup, Create, RoutesOK
  <2> HIDE DEF x
  <2> QED
    BY Zenon, <2>2, <2>3, <2>4, <2>5, <2>6, <2>7, StreamMoves
<1>5. CASE Route(s)
  <2>1. PICK l \in {"put", "undo"} :
          Goto(s, l) /\ (l = "undo" <=> inc[Act(s)].phase # "running")
    BY <1>5 DEF Route
  <2> DEFINE x == [str[s] EXCEPT !.pc = l]
  <2>2. x \in StrType /\ x.pc = l /\ x.todo = str[s].todo /\ x.act = Act(s)
    BY <1>0 DEF StrType, Act
  <2>3. Act(s) \in 1 .. made /\ str[s].todo # <<>>
    BY <1>5 DEF IInv, StreamKnows, Route
  <2>4. RoutesOK'
    BY <1>0, <1>5, Envelope DEF Route, RoutesOK
  <2>5. str' = [str EXCEPT ![s] = x] /\ UNCHANGED <<actors, made, inc>>
    BY Zenon, <1>5, <2>1 DEF Route, Goto
  <2> HIDE DEF x
  <2> QED
    BY Zenon, <1>5, <2>1, <2>2, <2>3, <2>4, <2>5, StreamMoves DEF Route
<1> QED
  BY <1>1, <1>2, <1>3, <1>4, <1>5

\* The steps of an actor and of the goroutine that drains it.
LEMMA ActorAlone ==
  ASSUME IInv, NEW i \in Incs, LoopNext(i) \/ Drain(i) \/ DrainReply(i)
  PROVE  IInv'
<1>0. inc[i] \in IncType /\ RoutesOK
  BY DEF IInv, RecordsOK, RoutesOK
<1>1. NoResult \in Results
  BY DEF NoResult, Result, Results
<1>2. UNCHANGED <<actors, made, str>>
  BY DEF LoopNext, Dequeue, Handle, Emit, Empty, Wake, Drain, DrainReply
<1>3. RoutesOK'
  BY SMTT(40), <1>0 DEF LoopNext, Dequeue, Handle, Emit, Empty, Wake, Drain, DrainReply, RoutesOK, Without
<1>4. SUFFICES \E x \in IncType :
         /\ inc' = [inc EXCEPT ![i] = x]
         /\ x.key = inc[i].key
         /\ x.phase = inc[i].phase \/ (x.phase = "dead" /\ inc[i].phase = "stopping")
  BY Zenon, <1>2, <1>3, ActorMoves
<1>5. CASE Dequeue(i)
  <2>1. CASE inc[i].queue = <<>>
    <3> DEFINE x == [inc[i] EXCEPT !.pc = "empty"]
    <3>1. x \in IncType /\ x.key = inc[i].key /\ x.phase = inc[i].phase
      BY <1>0 DEF IncType
    <3>2. inc' = [inc EXCEPT ![i] = x]
      BY <1>5, <2>1 DEF Dequeue, At
    <3> QED
      BY Zenon, <3>1, <3>2
  <2>2. CASE inc[i].queue # <<>>
    <3> DEFINE q == inc[i].queue
               c == Result(Head(q), None, "none")
               x == [inc[i] EXCEPT !.pc = "busy", !.queue = Tail(q), !.cur = c]
    <3>1. Tail(q) \in Seq(Requests) /\ c \in Results
      BY <1>0, <2>2 DEF IncType, Result, Results
    <3>2. x \in IncType /\ x.key = inc[i].key /\ x.phase = inc[i].phase
      <4> HIDE DEF q, c
      <4> QED
        BY Zenon, <1>0, <3>1 DEF IncType
    <3>3. inc' = [inc EXCEPT ![i] = x]
      BY Zenon, <1>5, <2>2 DEF Dequeue
    <3> QED
      BY Zenon, <3>2, <3>3
  <2> QED
    BY <2>1, <2>2
<1>6. CASE Handle(i)
  <2>1. PICK c \in Results, l \in {"emit", "loop"} :
          inc' = [inc EXCEPT ![i].pc = l, ![i].cur = c]
    <3> DEFINE r == inc[i].cur.req
               c == Result(r, routes[r], "handled")
    <3>1. r \in DOMAIN routes => c \in Results
      BY <1>0 DEF RoutesOK, Result, Results
    <3> QED
      BY Zenon, <1>1, <1>6, <3>1 DEF Handle
  <2> DEFINE x == [inc[i] EXCEPT !.pc = l, !.cur = c]
  <2>2. x \in IncType /\ x.key = inc[i].key /\ x.phase = inc[i].phase
    BY Zenon, <1>0 DEF IncType
  <2> QED
    BY Zenon, <2>1, <2>2
<1>7. CASE Emit(i)
  <2> DEFINE x == [inc[i] EXCEPT !.pc = "loop", !.cur = NoResult]
  <2>1. x \in IncType /\ x.key = inc[i].key /\ x.phase = inc[i].phase
    BY Zenon, <1>0, <1>1 DEF IncType
  <2>2. inc' = [inc EXCEPT ![i] = x]
    BY Zenon, <1>7 DEF Emit
  <2> QED
    BY Zenon, <2>1, <2>2
<1>8. CASE Empty(i)
  <2>1. CASE inc[i].phase = "stopping"
    <3> DEFINE x == [inc[i] EXCEPT !.pc = "end", !.phase = "dead"]
    <3>1. x \in IncType /\ x.key = inc[i].key /\ x.phase = "dead"
      BY Zenon, <1>0 DEF IncType
    <3>2. inc' = [inc EXCEPT ![i] = x]
      BY Zenon, <1>8, <2>1 DEF Empty
    <3> QED
      BY Zenon, <2>1, <3>1, <3>2
  <2>2. CASE inc[i].phase # "stopping"
    <3> DEFINE x == [inc[i] EXCEPT !.pc = "wait"]
    <3>1. x \in IncType /\ x.key = inc[i].key /\ x.phase = inc[i].phase
      BY <1>0 DEF IncType
    <3>2. inc' = [inc EXCEPT ![i] = x]
      BY <1>8, <2>2 DEF Empty
    <3> QED
      BY Zenon, <3>1, <3>2
  <2> QED
    BY <2>1, <2>2
<1>9. CASE Wake(i)
  <2> DEFINE x == [inc[i] EXCEPT !.pc = "loop"]
  <2>1. x \in IncType /\ x.key = inc[i].key /\ x.phase = inc[i].phase
    BY <1>0 DEF IncType
  <2>2. inc' = [inc EXCEPT ![i] = x]
    BY <1>9 DEF Wake, At
  <2> QED
    BY Zenon, <2>1, <2>2
<1>10. CASE Drain(i)
  <2> DEFINE x == Drained(i)
  <2>1. x \in IncType /\ x.key = inc[i].key /\ x.phase = inc[i].phase
    <3>1. PICK q \in Seq(Requests), none \in Seq(Requests) : q = inc[i].queue /\ none = <<>>
      <4>1. inc[i].queue \in Seq(Requests)
        BY <1>0 DEF IncType
      <4>2. <<>> \in Seq(Requests)
        OBVIOUS
      <4> QED
        BY Zenon, <4>1, <4>2
    <3>2. x = [inc[i] EXCEPT !.list = q, !.queue = none, !.drain = "reply"]
      BY <3>1 DEF Drained
    <3> HIDE DEF x
    <3> QED
      BY Zenon, <1>0, <3>2 DEF IncType
  <2>2. inc' = [inc EXCEPT ![i] = x]
    BY <1>10 DEF Drain
  <2> QED
    BY Zenon, <2>1, <2>2
<1>11. CASE DrainReply(i)
  <2> DEFINE x == [inc[i] EXCEPT !.list = Tail(@)]
  <2>1. Tail(inc[i].list) \in Seq(Requests)
    BY <1>0, <1>11 DEF DrainReply, IncType
  <2>2. x \in IncType /\ x.key = inc[i].key /\ x.phase = inc[i].phase
    BY Zenon, <1>0, <2>1 DEF IncType
  <2>3. inc' = [inc EXCEPT ![i] = x]
    BY <1>11 DEF DrainReply
  <2> QED
    BY Zenon, <2>2, <2>3
<1> QED
  BY <1>5, <1>6, <1>7, <1>8, <1>9, <1>10, <1>11 DEF LoopNext

\* Stop on an actor.
LEMMA StoppedIs ==
  ASSUME IInv, NEW i \in Incs
  PROVE  /\ Stopped(i) \in IncType
         /\ Stopped(i).key = inc[i].key
         /\ Stopped(i).phase # "running"
         /\ Stopped(i).phase # "none" => inc[i].phase # "none"
<1>1. inc[i] \in IncType
  BY DEF IInv, RecordsOK
<1>2. PICK l \in {"none", "stopping", "dead"} :
        /\ Stopped(i) = [inc[i] EXCEPT !.phase = l]
        /\ l # "none" => inc[i].phase # "none"
  BY <1>1 DEF Stopped, IncType
<1> QED
  BY <1>1, <1>2 DEF IncType

\* An actor is stopped and leaves the map in one step.
LEMMA Retire ==
  ASSUME IInv, NEW k \in Keys, NEW i \in Incs, actors[k] = i,
         inc' = [inc EXCEPT ![i] = Stopped(i)], actors' = [actors EXCEPT ![k] = None],
         UNCHANGED <<made, str, routes>>
  PROVE  IInv'
<1>1. /\ inc \in [Incs -> IncType] /\ inc'[i] = Stopped(i)
      /\ \A j \in Incs \ {i} : inc'[j] = inc[j]
      /\ actors'[k] = None
      /\ \A j \in Keys \ {k} : actors'[j] = actors[j]
  BY DEF IInv, RecordsOK
<1>2. \A j \in Incs : /\ inc'[j].key = inc[j].key
                      /\ inc'[j].phase = "running" => inc[j].phase = "running" /\ j # i
                      /\ inc'[j].phase # "none" => inc[j].phase # "none"
  BY <1>1, StoppedIs
<1>3. RecordsOK'
  BY StoppedIs DEF IInv, RecordsOK
<1>4. \A t \in Streams : Key(t)' = Key(t) /\ Act(t)' = Act(t)
  BY DEF Key, Req, Act
<1>5. \A t \in Streams : StreamKnows(t)'
  <2> SUFFICES ASSUME NEW t \in Streams PROVE StreamKnows(t)'
    OBVIOUS
  <2>1. Act(t) \in 1 .. made => Act(t) \in Incs
    BY NodeAssumption DEF IInv, RecordsOK, Incs
  <2>2. str[t].pc = "rehydrate" => Key(t) \in Keys
    BY Envelope
  <2> QED
    BY <1>1, <1>2, <1>4, <2>1, <2>2 DEF IInv, StreamKnows
<1>6. OneHolder'
  BY <1>4 DEF IInv, OneHolder
<1>7. \A j \in Keys : EntryOK(j)'
  BY <1>1, <1>2 DEF IInv, EntryOK, RecordsOK
<1>8. NoOrphan'
  <2> SUFFICES ASSUME NEW j \in Incs, inc'[j].phase = "running", actors'[inc'[j].key] # j
               PROVE  \E t \in Streams : str'[t].pc = "killStop" /\ Act(t)' = j
    BY DEF NoOrphan
  <2>1. inc[j].phase = "running" /\ j # i /\ inc[j].key \in Keys /\ inc'[j].key = inc[j].key
    BY <1>1, <1>2 DEF IncType
  <2>2. actors[inc[j].key] # j
    BY <1>1, <2>1
  <2> QED
    BY <1>4, <2>1, <2>2 DEF IInv, NoOrphan
<1>9. (\A j \in Incs : inc[j].phase # "none" => j <= made)'
  BY <1>2 DEF IInv
<1> QED
  BY <1>3, <1>5, <1>6, <1>7, <1>8, <1>9 DEF IInv

\* forceKillLocalActor, with the actor it takes out of the map.
LEMMA KillKeeps ==
  ASSUME IInv, NEW s \in Streams, Kill(s)
  PROVE  IInv'
<1> DEFINE i == actors[Key(s)]
           x == [str[s] EXCEPT !.act = i, !.pc = IF i = None THEN "reply" ELSE "killStop"]
<1>0. str[s] \in StrType /\ Key(s) \in Keys /\ str[s].todo # <<>> /\ str[s].pc = "kill"
  BY Envelope DEF IInv, StreamKnows, Kill
<1>1. i \in Incs \cup {None} /\ (i # None => i \in 1 .. made)
  BY <1>0, NodeAssumption DEF IInv, RecordsOK, EntryOK, Incs, None
<1>2. /\ x \in StrType /\ x.todo = str[s].todo /\ x.act = i
      /\ x.pc = IF i = None THEN "reply" ELSE "killStop"
  <2> HIDE DEF i
  <2> QED
    BY Zenon, <1>0, <1>1 DEF StrType
<1>3. str' = [str EXCEPT ![s] = x] /\ UNCHANGED <<made, inc, routes>>
  BY Zenon DEF Kill, Find
<1> HIDE DEF x
<1>4. /\ str'[s] = x
      /\ \A t \in Streams \ {s} : str'[t] = str[t] /\ Key(t)' = Key(t) /\ Act(t)' = Act(t)
  BY <1>3 DEF IInv, RecordsOK, Key, Req, Act
<1>5. /\ actors'[Key(s)] = None
      /\ \A k \in Keys \ {Key(s)} : actors'[k] = actors[k]
  BY <1>0 DEF Kill, IInv, RecordsOK
<1>6. RecordsOK'
  BY <1>2, <1>3, <1>0 DEF IInv, RecordsOK, Kill
<1>7. \A t \in Streams : StreamKnows(t)'
  <2>1. StreamKnows(s)'
    BY <1>0, <1>1, <1>2, <1>3, <1>4 DEF StreamKnows, Act
  <2>2. ASSUME NEW t \in Streams \ {s} PROVE StreamKnows(t)'
    <3>1. str[t].pc = "rehydrate" => Key(t) \in Keys
      BY Envelope
    <3> QED
      BY <1>3, <1>4, <1>5, <3>1 DEF IInv, StreamKnows
  <2> QED
    BY <2>1, <2>2
<1>8. OneHolder'
  BY <1>2, <1>4 DEF IInv, OneHolder
<1>9. \A k \in Keys : EntryOK(k)'
  BY <1>3, <1>5 DEF IInv, EntryOK
<1>10. NoOrphan'
  <2> SUFFICES ASSUME NEW j \in Incs, inc[j].phase = "running", actors'[inc[j].key] # j
               PROVE  \E t \in Streams : str'[t].pc = "killStop" /\ Act(t)' = j
    BY <1>3 DEF NoOrphan
  <2>1. CASE actors[inc[j].key] = j
    <3>1. inc[j].key \in Keys
      BY DEF IInv, RecordsOK, IncType
    <3>2. inc[j].key = Key(s) /\ i = j
      BY <1>5, <2>1, <3>1
    <3> QED
      BY <1>2, <1>4, <3>2 DEF Act, Incs, None
  <2>2. CASE actors[inc[j].key] # j
    <3>1. PICK t \in Streams : str[t].pc = "killStop" /\ Act(t) = j
      BY <2>2 DEF IInv, NoOrphan
    <3> QED
      BY <1>0, <1>4, <3>1
  <2> QED
    BY <2>1, <2>2
<1>11. (\A j \in Incs : inc[j].phase # "none" => j <= made)'
  BY <1>3 DEF IInv
<1> QED
  BY <1>6, <1>7, <1>8, <1>9, <1>10, <1>11 DEF IInv

\* A stream is done with its actor: Put, or the Stop of an eviction.
LEMMA StreamAndActor ==
  ASSUME IInv, NEW s \in Streams, NEW y \in StrType, NEW x \in IncType,
         str[s].pc \in {"put", "killStop"},
         str' = [str EXCEPT ![s] = y], inc' = [inc EXCEPT ![Act(s)] = x],
         UNCHANGED <<actors, made, routes>>,
         y.pc \in {"recv", "reply", "check"}, y.pc # "recv" => y.todo # <<>>,
         x.key = inc[Act(s)].key,
         x.phase = "running" => inc[Act(s)].phase = "running" /\ str[s].pc # "killStop",
         x.phase # "none" => inc[Act(s)].phase # "none"
  PROVE  IInv'
<1>1. Act(s) \in Incs
  BY NodeAssumption, SMTT(40) DEF IInv, RecordsOK, StreamKnows, Incs
<1>2. /\ str'[s] = y
      /\ \A t \in Streams \ {s} : str'[t] = str[t] /\ Key(t)' = Key(t) /\ Act(t)' = Act(t)
  BY DEF IInv, RecordsOK, Key, Req, Act
<1>3. /\ inc'[Act(s)] = x
      /\ \A j \in Incs \ {Act(s)} : inc'[j] = inc[j]
  BY <1>1 DEF IInv, RecordsOK
<1>4. \A j \in Incs :
        /\ inc'[j].key = inc[j].key
        /\ inc'[j].phase = "running" =>
             inc[j].phase = "running" /\ (str[s].pc = "killStop" => j # Act(s))
        /\ inc'[j].phase # "none" => inc[j].phase # "none"
  BY <1>3
<1>5. RecordsOK'
  BY <1>1 DEF IInv, RecordsOK
<1>6. \A t \in Streams : StreamKnows(t)'
  <2>1. StreamKnows(s)'
    BY <1>2 DEF StreamKnows
  <2>2. ASSUME NEW t \in Streams \ {s} PROVE StreamKnows(t)'
    <3>1. Act(t) \in 1 .. made => Act(t) \in Incs
      BY NodeAssumption, SMTT(40) DEF IInv, RecordsOK, Incs
    <3> QED
      BY <1>2, <1>4, <3>1 DEF IInv, StreamKnows
  <2> QED
    BY <2>1, <2>2
<1>7. OneHolder'
  BY <1>2, SMTT(40) DEF IInv, OneHolder
<1>8. \A k \in Keys : EntryOK(k)'
  BY SMTT(40), <1>4 DEF IInv, EntryOK, RecordsOK
<1>9. NoOrphan'
  <2> SUFFICES ASSUME NEW j \in Incs, inc'[j].phase = "running", actors'[inc'[j].key] # j
               PROVE  \E t \in Streams : str'[t].pc = "killStop" /\ Act(t)' = j
    BY DEF NoOrphan
  <2>1. inc[j].phase = "running" /\ actors[inc[j].key] # j
    BY <1>4
  <2>2. PICK t \in Streams : str[t].pc = "killStop" /\ Act(t) = j
    BY <2>1 DEF IInv, NoOrphan
  <2>3. t # s
    BY <1>4, <2>2
  <2> QED
    BY <1>2, <2>2, <2>3
<1>10. (\A j \in Incs : inc[j].phase # "none" => j <= made)'
  BY <1>4 DEF IInv
<1> QED
  BY <1>5, <1>6, <1>7, <1>8, <1>9, <1>10 DEF IInv

LEMMA KillStopKeeps ==
  ASSUME IInv, NEW s \in Streams, KillStop(s)
  PROVE  IInv'
<1> DEFINE y == [str[s] EXCEPT !.pc = "reply"]
           x == [Stopped(Act(s)) EXCEPT !.drain = "wait"]
<1>1. /\ str[s] \in StrType /\ str[s].pc = "killStop" /\ str[s].todo # <<>>
      /\ Act(s) \in Incs
  BY NodeAssumption, SMTT(40) DEF KillStop, IInv, RecordsOK, StreamKnows, Incs
<1>2. y \in StrType /\ y.pc = "reply" /\ y.todo # <<>>
  BY <1>1 DEF StrType
<1>3. /\ x \in IncType /\ x.key = inc[Act(s)].key /\ x.phase # "running"
      /\ x.phase # "none" => inc[Act(s)].phase # "none"
  <2>1. PICK z \in IncType :
          /\ z = Stopped(Act(s)) /\ z.key = inc[Act(s)].key /\ z.phase # "running"
          /\ z.phase # "none" => inc[Act(s)].phase # "none"
    BY <1>1, StoppedIs
  <2>2. x = [z EXCEPT !.drain = "wait"]
    BY <2>1
  <2> HIDE DEF x
  <2> QED
    BY <2>1, <2>2 DEF IncType
<1>4. /\ str' = [str EXCEPT ![s] = y] /\ inc' = [inc EXCEPT ![Act(s)] = x]
      /\ UNCHANGED <<actors, made, routes>>
  BY DEF KillStop, Goto
<1> HIDE DEF x, y
<1> QED
  BY Zenon, <1>1, <1>2, <1>3, <1>4, StreamAndActor

LEMMA PutKeeps ==
  ASSUME IInv, NEW s \in Streams, Put(s)
  PROVE  IInv'
<1> DEFINE q == Append(inc[Act(s)].queue, Req(s))
           x == [inc[Act(s)] EXCEPT !.queue = q]
<1>1. str[s].pc = "put" /\ Act(s) \in Incs /\ Req(s) \in Requests
  <2>1. str[s].pc = "put"
    BY DEF Put
  <2>2. Act(s) \in Incs
    BY <2>1, NodeAssumption DEF IInv, RecordsOK, StreamKnows, Incs
  <2> QED
    BY <2>1, <2>2, Envelope
<1>2. PICK y \in StrType : /\ str' = [str EXCEPT ![s] = y]
                           /\ y.pc \in {"recv", "reply", "check"}
                           /\ y.pc # "recv" => y.todo # <<>>
  BY <1>1, NextEnvelopeIs DEF Put
<1>3. inc[Act(s)] \in IncType
  BY <1>1 DEF IInv, RecordsOK
<1>4. q \in Seq(Requests)
  BY <1>1, <1>3 DEF IncType
<1>5. x \in IncType /\ x.key = inc[Act(s)].key /\ x.phase = inc[Act(s)].phase
  <2> HIDE DEF q
  <2> QED
    BY SMTT(40), <1>3, <1>4 DEF IncType
<1>6. inc' = [inc EXCEPT ![Act(s)] = x] /\ UNCHANGED <<actors, made, routes>>
  BY DEF Put
<1> HIDE DEF x
<1> QED
  BY Zenon, <1>1, <1>2, <1>5, <1>6, StreamAndActor

\* The new actor takes an entry that is free, because the lock is held.
LEMMA RehydratedKeeps ==
  ASSUME IInv, NEW s \in Streams, Rehydrated(s)
  PROVE  IInv'
<1> DEFINE y == [str[s] EXCEPT !.act = made', !.pc = "route"]
<1>1. /\ str[s] \in StrType /\ str[s].pc = "rehydrate" /\ str[s].todo # <<>>
      /\ Key(s) \in Keys /\ actors[Key(s)] = None
  BY Envelope DEF Rehydrated, IInv, StreamKnows
<1>2. made' = made + 1 /\ made' \in Incs /\ made \in Nat
  BY NodeAssumption DEF Rehydrated, IInv, RecordsOK, Incs
<1>3. y \in StrType /\ y.pc = "route" /\ y.todo = str[s].todo /\ y.act = made'
  BY Zenon, <1>1, <1>2 DEF StrType
<1>4. /\ NewActor(Key(s)) \in IncType
      /\ NewActor(Key(s)).key = Key(s)
      /\ NewActor(Key(s)).phase = "running"
  <2>1. NoResult \in Results /\ <<>> \in Seq(Requests)
    BY DEF NoResult, Result, Results
  <2> QED
    BY <1>1, <2>1 DEF NewActor, IncType
<1>5. str' = [str EXCEPT ![s] = y] /\ UNCHANGED routes
  BY Zenon DEF Rehydrated
<1> HIDE DEF y
<1>6. /\ str'[s] = y
      /\ \A t \in Streams \ {s} : str'[t] = str[t] /\ Key(t)' = Key(t) /\ Act(t)' = Act(t)
  BY <1>5 DEF IInv, RecordsOK, Key, Req, Act
<1>7. /\ actors'[Key(s)] = made'
      /\ \A k \in Keys \ {Key(s)} : actors'[k] = actors[k]
  BY <1>1 DEF Rehydrated, IInv, RecordsOK
<1>8. /\ inc'[made'] = NewActor(Key(s))
      /\ \A j \in Incs \ {made'} : inc'[j] = inc[j]
  BY <1>2 DEF Rehydrated, IInv, RecordsOK
<1>9. RecordsOK'
  <2>1. made' \in 0 .. MaxActors
    BY <1>2, NodeAssumption DEF Incs
  <2>2. actors' \in [Keys -> Incs \cup {None}]
    BY Zenon, <1>2 DEF Rehydrated, IInv, RecordsOK
  <2>3. inc' \in [Incs -> IncType]
    BY Zenon, <1>4 DEF Rehydrated, IInv, RecordsOK
  <2>4. str' \in [Streams -> StrType]
    BY <1>3, <1>5 DEF IInv, RecordsOK
  <2> QED
    BY <1>5, <2>1, <2>2, <2>3, <2>4 DEF IInv, RecordsOK
<1>10. \A t \in Streams : StreamKnows(t)'
  <2>1. StreamKnows(s)'
    BY <1>1, <1>2, <1>3, <1>6 DEF StreamKnows, Act
  <2>2. ASSUME NEW t \in Streams \ {s} PROVE StreamKnows(t)'
    <3>1. Act(t) \in 1 .. made => Act(t) \in Incs \ {made'} /\ Act(t) \in 1 .. made'
      BY <1>2, NodeAssumption DEF IInv, RecordsOK, Incs
    <3>2. str[t].pc = "rehydrate" => Key(t) \in Keys \ {Key(s)}
      BY <1>1, Envelope DEF IInv, OneHolder
    <3> QED
      BY <1>6, <1>7, <1>8, <3>1, <3>2 DEF IInv, StreamKnows
  <2> QED
    BY <2>1, <2>2
<1>11. OneHolder'
  BY <1>3, <1>6 DEF IInv, OneHolder
<1>12. \A k \in Keys : EntryOK(k)'
  <2> SUFFICES ASSUME NEW k \in Keys PROVE EntryOK(k)'
    OBVIOUS
  <2>1. CASE k = Key(s)
    BY <1>2, <1>4, <1>7, <1>8, <2>1 DEF EntryOK
  <2>2. CASE k # Key(s)
    <3>1. actors[k] # None => actors[k] \in Incs /\ actors[k] <= made /\ inc[actors[k]].key = k
      BY DEF IInv, RecordsOK, EntryOK
    <3>2. actors[k] # None => actors[k] # made' /\ actors[k] <= made'
      BY <1>2, <3>1 DEF Incs
    <3> QED
      BY <1>7, <1>8, <2>2, <3>1, <3>2 DEF EntryOK
  <2> QED
    BY <2>1, <2>2
<1>13. NoOrphan'
  <2> SUFFICES ASSUME NEW j \in Incs, inc'[j].phase = "running", actors'[inc'[j].key] # j
               PROVE  \E t \in Streams : str'[t].pc = "killStop" /\ Act(t)' = j
    BY DEF NoOrphan
  <2>1. j # made'
    BY <1>4, <1>7, <1>8
  <2>2. inc'[j] = inc[j] /\ inc[j].key \in Keys
    BY <1>8, <2>1 DEF IInv, RecordsOK, IncType
  <2>3. actors[inc[j].key] # j
    BY <1>1, <1>7, <2>2 DEF Incs, None
  <2>4. PICK t \in Streams : str[t].pc = "killStop" /\ Act(t) = j
    BY <2>2, <2>3 DEF IInv, NoOrphan
  <2> QED
    BY <1>1, <1>6, <2>4
<1>14. (\A j \in Incs : inc[j].phase # "none" => j <= made)'
  BY <1>2, <1>8 DEF IInv, Incs
<1> QED
  BY <1>9, <1>10, <1>11, <1>12, <1>13, <1>14 DEF IInv

\* The retry after a failed Send deletes the entry of an actor that has stopped.
LEMMA UndoKeeps ==
  ASSUME IInv, NEW s \in Streams, Undo(s)
  PROVE  IInv'
<1> DEFINE y == [str[s] EXCEPT !.pc = "lookup"]
<1>1. /\ str[s] \in StrType /\ str[s].pc = "undo" /\ str[s].todo # <<>>
      /\ Key(s) \in Keys /\ inc[Act(s)].phase # "running"
  BY SMTT(40), Envelope DEF Undo, IInv, StreamKnows
<1>2. y \in StrType /\ y.pc = "lookup" /\ y.todo = str[s].todo
  BY <1>1 DEF StrType
<1>3. str' = [str EXCEPT ![s] = y] /\ UNCHANGED <<made, inc>>
  BY DEF Undo, Goto
<1> HIDE DEF y
<1>4. /\ str'[s] = y
      /\ \A t \in Streams \ {s} : str'[t] = str[t] /\ Key(t)' = Key(t) /\ Act(t)' = Act(t)
  BY <1>3 DEF IInv, RecordsOK, Key, Req, Act
<1>5. \A k \in Keys : \/ actors'[k] = actors[k]
                      \/ actors'[k] = None /\ actors[k] = Act(s)
  BY SMTT(40), <1>1 DEF Undo, Evict, IInv, RecordsOK
<1>6. RecordsOK'
  <2>1. actors' \in [Keys -> Incs \cup {None}]
    BY Zenon DEF Undo, Evict, IInv, RecordsOK
  <2>2. RoutesOK'
    BY DEF Undo, RoutesAfterUndo, Without, IInv, RecordsOK, RoutesOK
  <2> QED
    BY SMTT(40), <1>2, <1>3, <2>1, <2>2 DEF IInv, RecordsOK, RoutesOK
<1>7. \A t \in Streams : StreamKnows(t)'
  <2>1. StreamKnows(s)'
    BY <1>1, <1>2, <1>4 DEF StreamKnows
  <2>2. ASSUME NEW t \in Streams \ {s} PROVE StreamKnows(t)'
    <3>1. str[t].pc = "rehydrate" => Key(t) \in Keys
      BY Envelope
    <3> QED
      BY <1>3, <1>4, <1>5, <3>1 DEF IInv, StreamKnows
  <2> QED
    BY <2>1, <2>2
<1>8. OneHolder'
  BY <1>2, <1>4, SMTT(40) DEF IInv, OneHolder
<1>9. \A k \in Keys : EntryOK(k)'
  BY <1>3, <1>5 DEF IInv, EntryOK
<1>10. NoOrphan'
  <2> SUFFICES ASSUME NEW j \in Incs, inc[j].phase = "running", actors'[inc[j].key] # j
               PROVE  \E t \in Streams : str'[t].pc = "killStop" /\ Act(t)' = j
    BY <1>3 DEF NoOrphan
  <2>1. inc[j].key \in Keys /\ j # Act(s)
    BY <1>1 DEF IInv, RecordsOK, IncType
  <2>2. actors[inc[j].key] # j
    BY <1>5, <2>1
  <2>3. PICK t \in Streams : str[t].pc = "killStop" /\ Act(t) = j
    BY <2>2 DEF IInv, NoOrphan
  <2> QED
    BY SMTT(40), <1>1, <1>4, <2>3
<1>11. (\A j \in Incs : inc[j].phase # "none" => j <= made)'
  BY <1>3 DEF IInv
<1> QED
  BY <1>6, <1>7, <1>8, <1>9, <1>10, <1>11 DEF IInv
-----------------------------------------------------------------------------
\* The invariant holds in every state.
THEOREM AlwaysIInv == Spec => []IInv
<1>1. IInv /\ [Next]_vars => IInv'
  <2> SUFFICES ASSUME IInv, [Next]_vars PROVE IInv'
    OBVIOUS
  <2>1. CASE UNCHANGED <<actors, made, inc, str, routes>>
    BY <2>1, SMTT(40) DEF IInv, RecordsOK, StreamKnows, OneHolder, EntryOK, NoOrphan, Key, Req, Act
  <2>2. ASSUME NEW s \in Streams, Receive(s) \/ StreamEnd(s) \/ StreamNext(s)
        PROVE  IInv'
    BY <2>2, StreamAlone, KillKeeps, KillStopKeeps, RehydratedKeeps, PutKeeps, UndoKeeps
       DEF StreamNext
  <2>3. ASSUME NEW i \in Incs, LoopNext(i) \/ Drain(i) \/ DrainReply(i)
        PROVE  IInv'
    BY <2>3, ActorAlone
  <2>4. ASSUME NEW i \in Incs, Passivate(i)
        PROVE  IInv'
    <3>1. inc[i].key \in Keys
      BY DEF IInv, RecordsOK, IncType
    <3> QED
      BY Zenon, <2>4, <3>1, Retire DEF Passivate
  <2>5. ASSUME NEW k \in Keys, StopActor(k)
        PROVE  IInv'
    <3>1. actors[k] \in Incs
      BY <2>5 DEF StopActor, IInv, RecordsOK
    <3> QED
      BY Zenon, <2>5, <3>1, Retire DEF StopActor
  <2>6. CASE \/ Collect \/ Tick \/ AggregatorExit \/ StopBegin \/ StopClose \/ StopEnd
             \/ Environment
    BY Zenon, <2>1, <2>6 DEF Collect, Tick, AggregatorExit, StopBegin, StopClose, StopEnd,
           Environment, Move, Hold, Release
  <2>7. CASE UNCHANGED vars
    BY <2>1, <2>7 DEF vars
  <2> QED
    BY <2>2, <2>3, <2>4, <2>5, <2>6, <2>7 DEF Next, StopNext, Environment
<1> QED
  BY <1>1, InitIInv, PTL DEF Spec

\* An actor that accepts messages is in the shard map, or the eviction that took
\* it out is about to stop it, for any number of streams, keys and shards.
THEOREM NoActorIsLost == Spec => []NoOrphan
<1>1. IInv => NoOrphan
  BY DEF IInv
<1> QED
  BY <1>1, AlwaysIInv, PTL

\* Two actors of one key never both accept messages, unless an eviction is
\* about to stop one of them.
OneWriter ==
  \A i, j \in Incs :
    inc[i].phase = "running" /\ inc[j].phase = "running" /\ inc[i].key = inc[j].key /\ i # j
      => \E s \in Streams : str[s].pc = "killStop" /\ Act(s) \in {i, j}

\* The single writer the wallet needs, within a node: the shard map has one
\* entry per key, and no actor outlives its entry but for the eviction's window.
THEOREM OneWriterPerKey == Spec => []OneWriter
<1>1. NoOrphan => OneWriter
  BY DEF NoOrphan, OneWriter
<1> QED
  BY <1>1, NoActorIsLost, PTL
=============================================================================
