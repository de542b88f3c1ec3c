----------------------------- MODULE NodeAnswers -----------------------------
(***************************************************************************)
(* What follows from the places of NodePlaces for the requests of a Node:  *)
(* one place each, exact reply routes, codes that tell whether a request   *)
(* was executed, a backlog counter that counts the mailboxes, and that the *)
(* node implements NodeService.                                            *)
(***************************************************************************)
EXTENDS NodePlaces

\* The default prover; leaves with arithmetic, tuples or records name SMT.
USE Zenon

-----------------------------------------------------------------------------
(* What the places say of a request.                                       *)

\* A request is with its stream, with one actor, or with the aggregator.
LEMMA WhereIs ==
  ASSUME NEW loc, Placed(loc), NEW r \in Requests
  PROVE  /\ \A l \in StreamPlaces : loc[r][1] = l <=> r \in Here(loc, l, StreamOf(r))
         /\ \A l \in ActorPlaces : loc[r][1] = l <=> \E i \in Incs : r \in Here(loc, l, i)
         /\ \A l \in ResultPlaces : loc[r][1] = l <=> r \in Here(loc, l, None)
         /\ loc[r][1] \in StreamPlaces \cup ActorPlaces \cup ResultPlaces
  <1>1. PICK l, x : /\ loc[r] = <<l, x>>
                    /\ \/ l \in StreamPlaces /\ x \in Streams
                       \/ l \in ActorPlaces /\ x \in Incs
                       \/ l \in ResultPlaces /\ x = None
    BY SMT DEF Placed, Where
  <1>2. loc[r][1] = l /\ r \in Here(loc, l, x)
    BY SMT, <1>1 DEF Here
  <1>3. ASSUME l \in StreamPlaces PROVE x = StreamOf(r)
    <2>1. x \in Streams
      BY <1>1, <1>3 DEF StreamPlaces, ActorPlaces, ResultPlaces
    <2> QED BY <1>2, <1>3, <2>1 DEF Placed, StreamOK
  <1>4. l \in ActorPlaces => x \in Incs
    BY <1>1 DEF StreamPlaces, ActorPlaces, ResultPlaces
  <1>5. l \in ResultPlaces => x = None
    BY <1>1 DEF StreamPlaces, ActorPlaces, ResultPlaces
  <1>6. \A m, z : r \in Here(loc, m, z) => loc[r][1] = m
    BY SMT DEF Here
  <1>7. \A m \in StreamPlaces : loc[r][1] = m <=> r \in Here(loc, m, StreamOf(r))
    BY <1>2, <1>3, <1>6
  <1>8. \A m \in ActorPlaces : loc[r][1] = m <=> \E i \in Incs : r \in Here(loc, m, i)
    BY <1>2, <1>4, <1>6
  <1>9. \A m \in ResultPlaces : loc[r][1] = m <=> r \in Here(loc, m, None)
    BY <1>2, <1>5, <1>6
  <1> QED BY <1>1, <1>2, <1>7, <1>8, <1>9

\* What is listed once is found in one place.
LEMMA ListsIn ==
  ASSUME NEW q, NEW S, Lists(q, S), NEW r
  PROVE  /\ r \in S => \E n \in DOMAIN q : In(r, q) = {n}
         /\ r \notin S => In(r, q) = {}
  <1>1. ASSUME r \in S PROVE \E n \in DOMAIN q : In(r, q) = {n}
    <2>1. PICK n \in DOMAIN q : q[n] = r
      BY <1>1 DEF Lists
    <2>2. \A m \in DOMAIN q : q[m] = r => m = n
      BY <2>1 DEF Lists
    <2>3. In(r, q) = {n}
      BY <2>1, <2>2 DEF In
    <2> QED BY <2>3
  <1>2. ASSUME r \notin S PROVE In(r, q) = {}
    <2>1. \A n \in DOMAIN q : q[n] # r
      BY ZenonT(40), <1>2 DEF Lists
    <2> QED BY <2>1 DEF In
  <1> QED BY <1>1, <1>2

\* A request has been received when no batch to come holds it.
LEMMA BatchesIn ==
  ASSUME NEW q, NEW S, ListsBatches(q, S), NEW r \in Requests
  PROVE  (\A b \in DOMAIN q : In(r, q[b]) = {}) <=> r \notin S
  <1>1. (\A b \in DOMAIN q : In(r, q[b]) = {}) <=>
          ~ \E b \in DOMAIN q : \E n \in DOMAIN q[b] : q[b][n] = r
    BY SMT DEF In
  <1>2. ASSUME NEW b \in DOMAIN q, NEW n \in DOMAIN q[b], q[b][n] = r PROVE r \in S
    BY SMT, <1>2 DEF ListsBatches
  <1>3. r \in S => \E b \in DOMAIN q : \E n \in DOMAIN q[b] : q[b][n] = r
    BY DEF ListsBatches
  <1> QED BY <1>1, <1>2, <1>3

LEMMA ReceivedIs ==
  ASSUME NEW loc, \A s \in Streams : StreamOK(loc, s, str[s]), NEW r \in Requests
  PROVE  Received(r) <=> r \notin Here(loc, "left", StreamOf(r))
  <1>1. PICK s, q : s = StreamOf(r) /\ q = str[s].left
    OBVIOUS
  <1>2. ListsBatches(q, Here(loc, "left", s))
    BY <1>1, StreamOfIs DEF StreamOK
  <1>3. Received(r) <=> \A b \in DOMAIN q : In(r, q[b]) = {}
    BY <1>1 DEF Received
  <1> QED BY ZenonT(40), <1>1, <1>2, <1>3, BatchesIn

\* replyRoutes is exact, for any streams, requests, keys and bounds.
THEOREM RoutesAreExact == Spec => []RoutesExact
  <1>1. PInv => RoutesExact
    <2> SUFFICES ASSUME PInv, NEW r \in Requests
                 PROVE  /\ r \in DOMAIN routes <=>
                             \/ str[StreamOf(r)].pc \in {"put", "undo"} /\ Req(StreamOf(r)) = r
                             \/ \E i \in Incs :
                                  \/ In(r, inc[i].queue) # {}
                                  \/ inc[i].pc = "busy" /\ inc[i].cur.req = r
                                  \/ In(r, inc[i].list) # {}
                        /\ r \in DOMAIN routes => routes[r] = StreamOf(r)
      BY DEF RoutesExact
    <2>1. PICK loc : Placed(loc)
      BY DEF PInv, Places
    <2>2. /\ r \in DOMAIN routes <=> loc[r][1] \in RoutedPlaces
          /\ r \in DOMAIN routes => routes[r] = StreamOf(r)
      BY <2>1 DEF Placed, RoutesFit
    <2>3. StreamOf(r) \in Streams
      BY StreamOfIs
    <2>4. loc[r][1] = "put" <=> str[StreamOf(r)].pc \in {"put", "undo"} /\ Req(StreamOf(r)) = r
      <3>1. StreamOK(loc, StreamOf(r), str[StreamOf(r)])
        BY <2>1, <2>3 DEF Placed
      <3>2. r \in Here(loc, "put", StreamOf(r)) <=>
              str[StreamOf(r)].pc \in {"put", "undo"} /\ Req(StreamOf(r)) = r
        BY <3>1 DEF StreamOK, Req
      <3>3. loc[r][1] = "put" <=> r \in Here(loc, "put", StreamOf(r))
        BY <2>1, WhereIs DEF StreamPlaces
      <3> QED BY <3>2, <3>3
    <2>5. ASSUME NEW i \in Incs
          PROVE  /\ r \in Here(loc, "queue", i) <=> In(r, inc[i].queue) # {}
                 /\ r \in Here(loc, "list", i) <=> In(r, inc[i].list) # {}
                 /\ r \in Here(loc, "busy", i) <=> inc[i].pc = "busy" /\ inc[i].cur.req = r
      <3>1. ActorOK(loc, i, inc[i])
        BY <2>1 DEF Placed
      <3>2. r \in Here(loc, "queue", i) <=> In(r, inc[i].queue) # {}
        <4>1. Lists(inc[i].queue, Here(loc, "queue", i))
          BY <3>1 DEF ActorOK
        <4> QED BY SMT, <4>1, ListsIn
      <3>3. r \in Here(loc, "list", i) <=> In(r, inc[i].list) # {}
        <4>1. Lists(inc[i].list, Here(loc, "list", i))
          BY <3>1 DEF ActorOK
        <4> QED BY SMT, <4>1, ListsIn
      <3>4. r \in Here(loc, "busy", i) <=> inc[i].pc = "busy" /\ inc[i].cur.req = r
        BY <3>1 DEF ActorOK
      <3> QED BY <3>2, <3>3, <3>4
    <2>6. \A l \in ActorPlaces : loc[r][1] = l <=> \E i \in Incs : r \in Here(loc, l, i)
      BY <2>1, WhereIs
    <2>7. loc[r][1] \in RoutedPlaces <=>
            loc[r][1] = "put" \/ loc[r][1] = "queue" \/ loc[r][1] = "busy" \/ loc[r][1] = "list"
      BY DEF RoutedPlaces
    <2>8. /\ loc[r][1] = "queue" <=> \E i \in Incs : r \in Here(loc, "queue", i)
          /\ loc[r][1] = "busy" <=> \E i \in Incs : r \in Here(loc, "busy", i)
          /\ loc[r][1] = "list" <=> \E i \in Incs : r \in Here(loc, "list", i)
      BY <2>6 DEF ActorPlaces
    <2> QED BY <2>2, <2>4, <2>5, <2>7, <2>8
  <1> QED BY <1>1, AlwaysPlaced, PTL

\* No request is both refused and executed, for any streams, requests, keys and
\* bounds.
THEOREM RefusedIsNotHandled == Spec => []RefusedNotHandled
  <1>1. PInv => RefusedNotHandled
    <2> SUFFICES ASSUME PInv, NEW q \in Answers PROVE Honest(q, handled)
      BY SMT DEF RefusedNotHandled, Honest
    <2>1. PICK loc : Placed(loc)
      BY DEF PInv, Places
    <2>2. CASE q \in Elements(resultCh) \cup Elements(agg.batch)
      BY <2>1, <2>2 DEF Placed, ChannelOK, Elements
    <2>3. ASSUME NEW r \in Requests, q \in Elements(agg.sent[r]) PROVE Honest(q, handled)
      <3>1. CASE r \in Here(loc, "sent", None)
        <4>1. PICK z : agg.sent[r] = <<z>> /\ Honest(z, handled)
          BY <2>1, <3>1 DEF Placed, SentOK
        <4>2. q = z
          BY SMT, <2>3, <4>1 DEF Elements
        <4> QED BY <4>1, <4>2
      <3>2. CASE r \notin Here(loc, "sent", None)
        <4>1. agg.sent[r] = <<>>
          BY <2>1, <3>2 DEF Placed, SentOK
        <4> QED BY SMT, <2>3, <4>1 DEF Elements
      <3> QED BY <3>1, <3>2
    <2> QED BY <2>2, <2>3 DEF Answers
  <1> QED BY <1>1, AlwaysPlaced, PTL
-----------------------------------------------------------------------------
(* Counting places.                                                        *)

\* 1 if r is in one of the places L.
One(loc, r, L) == IF loc[r][1] \in L THEN 1 ELSE 0

LEMMA CountIn ==
  ASSUME NEW q, NEW S, Lists(q, S), NEW r
  PROVE  Cardinality(In(r, q)) = IF r \in S THEN 1 ELSE 0
  <1>1. CASE r \in S
    <2>1. PICK n : In(r, q) = {n}
      BY <1>1, ListsIn
    <2> QED BY <1>1, <2>1, FS_Singleton
  <1>2. CASE r \notin S
    <2>1. In(r, q) = {}
      BY <1>2, ListsIn
    <2> QED BY SMT, <1>2, <2>1, FS_EmptySet
  <1> QED BY <1>1, <1>2

\* The copies of r in the queues f of all actors, when the place l lists them.
LEMMA CountQueues ==
  ASSUME NEW loc, Placed(loc), NEW r \in Requests, NEW l \in ActorPlaces, NEW f,
         \A i \in Incs : Lists(f[i], Here(loc, l, i))
  PROVE  Cardinality(UNION {{i} \X In(r, f[i]) : i \in Incs}) = One(loc, r, {l})
  <1>1. CASE loc[r][1] = l
    <2>1. PICK i \in Incs : r \in Here(loc, l, i)
      BY SMT, <1>1, WhereIs
    <2>2. PICK n : In(r, f[i]) = {n}
      BY <2>1, ListsIn
    <2>3. \A j \in Incs \ {i} : In(r, f[j]) = {}
      <3> SUFFICES ASSUME NEW j \in Incs \ {i} PROVE In(r, f[j]) = {}
        OBVIOUS
      <3>1. r \notin Here(loc, l, j)
        BY SMT, <2>1 DEF Here
      <3> QED BY <3>1, ListsIn
    <2>4. UNION {{j} \X In(r, f[j]) : j \in Incs} = {<<i, n>>}
      <3>1. \A j \in Incs : \A p \in {j} \X In(r, f[j]) : p = <<i, n>>
        <4> SUFFICES ASSUME NEW j \in Incs, NEW p \in {j} \X In(r, f[j]) PROVE p = <<i, n>>
          OBVIOUS
        <4>1. p = <<j, p[2]>> /\ p[2] \in In(r, f[j])
          BY SMT
        <4>2. j = i
          BY <2>3, <4>1
        <4>3. p[2] = n
          BY <2>2, <4>1, <4>2
        <4> QED BY <4>1, <4>2, <4>3
      <3>2. <<i, n>> \in {i} \X In(r, f[i])
        BY SMT, <2>2
      <3> QED BY ZenonT(40), <3>1, <3>2
    <2> QED BY <1>1, <2>4, FS_Singleton DEF One
  <1>2. CASE loc[r][1] # l
    <2>1. \A i \in Incs : r \notin Here(loc, l, i)
      BY <1>2, WhereIs
    <2>2. \A i \in Incs : In(r, f[i]) = {}
      BY <2>1, ListsIn
    <2>3. UNION {{j} \X In(r, f[j]) : j \in Incs} = {}
      BY SMT, <2>2
    <2> QED BY SMT, <1>2, <2>3, FS_EmptySet DEF One
  <1> QED BY <1>1, <1>2

LEMMA CountLoops ==
  ASSUME NEW loc, Placed(loc), NEW r \in Requests
  PROVE  Cardinality({i \in Incs : inc[i].pc \in {"busy", "emit"} /\ inc[i].cur.req = r})
           = One(loc, r, {"busy", "emit"})
  <1>1. PICK C : C = {i \in Incs : inc[i].pc \in {"busy", "emit"} /\ inc[i].cur.req = r}
    OBVIOUS
  <1>2. ASSUME NEW i \in Incs
        PROVE  i \in C <=> r \in Here(loc, "busy", i) \/ r \in Here(loc, "emit", i)
    <2>1. ActorOK(loc, i, inc[i])
      BY DEF Placed
    <2>2. r \in Here(loc, "busy", i) <=> inc[i].pc = "busy" /\ inc[i].cur.req = r
      BY <2>1 DEF ActorOK
    <2>3. r \in Here(loc, "emit", i) <=> inc[i].pc = "emit" /\ inc[i].cur.req = r
      BY <2>1 DEF ActorOK
    <2> QED BY <1>1, <2>2, <2>3
  <1>3. /\ loc[r][1] = "busy" <=> \E i \in Incs : r \in Here(loc, "busy", i)
        /\ loc[r][1] = "emit" <=> \E i \in Incs : r \in Here(loc, "emit", i)
    BY WhereIs DEF ActorPlaces
  <1>4. CASE loc[r][1] \in {"busy", "emit"}
    <2>1. PICK i \in Incs : i \in C
      BY <1>2, <1>3, <1>4
    <2>2. ASSUME NEW j \in C PROVE j = i
      <3>1. j \in Incs
        BY <1>1
      <3> QED BY SMT, <1>2, <2>1, <3>1 DEF Here
    <2>3. C = {i}
      BY <2>1, <2>2
    <2> QED BY SMT, <1>1, <1>4, <2>3, FS_Singleton DEF One
  <1>5. CASE loc[r][1] \notin {"busy", "emit"}
    <2>1. C = {}
      BY <1>1, <1>2, <1>3, <1>5
    <2> QED BY SMTT(40), <1>1, <1>5, <2>1, FS_EmptySet DEF One
  <1> QED BY <1>4, <1>5

LEMMA CountResults ==
  ASSUME NEW loc, Placed(loc), NEW r \in Requests, NEW l \in ResultPlaces, NEW q,
         ChannelOK(loc, l, q, handled)
  PROVE  Cardinality(InResults(r, q)) = One(loc, r, {l})
  <1>1. PICK p : p = Reqs(q)
    OBVIOUS
  <1>2. InResults(r, q) = In(r, p)
    BY <1>1 DEF InResults, In, Reqs
  <1>3. Cardinality(In(r, p)) = IF r \in Here(loc, l, None) THEN 1 ELSE 0
    BY <1>1, CountIn DEF ChannelOK
  <1>4. r \in Here(loc, l, None) <=> loc[r][1] \in {l}
    BY WhereIs
  <1> QED BY <1>2, <1>3, <1>4 DEF One

LEMMA CountSent ==
  ASSUME NEW loc, Placed(loc), NEW r \in Requests
  PROVE  Len(agg.sent[r]) = One(loc, r, {"sent"})
  <1>1. r \in Here(loc, "sent", None) <=> loc[r][1] = "sent"
    BY WhereIs DEF ResultPlaces
  <1>2. SentOK(loc, agg.sent, handled)
    BY DEF Placed
  <1>3. CASE loc[r][1] = "sent"
    <2>1. PICK q : agg.sent[r] = <<q>>
      BY <1>1, <1>2, <1>3 DEF SentOK
    <2> QED BY SMT, <1>3, <2>1 DEF One
  <1>4. CASE loc[r][1] # "sent"
    <2>1. agg.sent[r] = <<>>
      BY <1>1, <1>2, <1>4 DEF SentOK
    <2> QED BY SMT, <1>4, <2>1 DEF One
  <1> QED BY <1>3, <1>4

\* A request is in one place from its arrival on, for any streams, requests,
\* keys and bounds.
THEOREM AlwaysOnePlace == Spec => []OnePlace
  <1>1. PInv => OnePlace
    <2> SUFFICES ASSUME PInv, NEW r \in Requests
                 PROVE  WithHandler(r) + WithActors(r) + WithDrainers(r) + WithAggregator(r)
                          = IF Received(r) THEN 1 ELSE 0
      BY DEF OnePlace
    <2>1. PICK loc : Placed(loc)
      BY DEF PInv, Places
    <2>2. PICK s \in Streams : s = StreamOf(r)
      BY StreamOfIs
    <2>3. StreamOK(loc, s, str[s])
      BY <2>1 DEF Placed
    <2>4. \A l \in StreamPlaces : loc[r][1] = l <=> r \in Here(loc, l, s)
      BY <2>1, <2>2, WhereIs
    <2>5. WithHandler(r) = One(loc, r, {"todo", "put"})
      <3>1. Cardinality(In(r, str[s].todo)) =
              IF r \in Here(loc, "todo", s) \cup Here(loc, "put", s) THEN 1 ELSE 0
        BY ZenonT(40), <2>3, CountIn DEF StreamOK
      <3>2. r \in Here(loc, "todo", s) \cup Here(loc, "put", s) <=> loc[r][1] \in {"todo", "put"}
        BY <2>4 DEF StreamPlaces
      <3> QED BY <2>2, <3>1, <3>2 DEF WithHandler, One
    <2>6. WithActors(r) = One(loc, r, {"busy", "emit"}) + One(loc, r, {"queue"})
      <3>1. PICK f : f = [i \in Incs |-> inc[i].queue]
        OBVIOUS
      <3>2. \A i \in Incs : Lists(f[i], Here(loc, "queue", i))
        BY <2>1, <3>1 DEF Placed, ActorOK
      <3>3. Cardinality(UNION {{i} \X In(r, f[i]) : i \in Incs}) = One(loc, r, {"queue"})
        BY SMT, <2>1, <3>2, CountQueues DEF ActorPlaces
      <3>4. {{i} \X In(r, f[i]) : i \in Incs} = {{i} \X In(r, inc[i].queue) : i \in Incs}
        BY <3>1
      <3> QED BY <2>1, <3>3, <3>4, CountLoops DEF WithActors
    <2>7. WithDrainers(r) = One(loc, r, {"list"})
      <3>1. PICK f : f = [i \in Incs |-> inc[i].list]
        OBVIOUS
      <3>2. \A i \in Incs : Lists(f[i], Here(loc, "list", i))
        BY <2>1, <3>1 DEF Placed, ActorOK
      <3>3. Cardinality(UNION {{i} \X In(r, f[i]) : i \in Incs}) = One(loc, r, {"list"})
        BY SMT, <2>1, <3>2, CountQueues DEF ActorPlaces
      <3>4. {{i} \X In(r, f[i]) : i \in Incs} = {{i} \X In(r, inc[i].list) : i \in Incs}
        BY <3>1
      <3> QED BY <3>3, <3>4 DEF WithDrainers
    <2>8. WithAggregator(r) = One(loc, r, {"ch"}) + One(loc, r, {"batch"}) + One(loc, r, {"sent"})
      <3>1. Cardinality(InResults(r, resultCh)) = One(loc, r, {"ch"})
        BY <2>1, CountResults DEF Placed, ResultPlaces
      <3>2. Cardinality(InResults(r, agg.batch)) = One(loc, r, {"batch"})
        BY <2>1, CountResults DEF Placed, ResultPlaces
      <3>3. Len(agg.sent[r]) = One(loc, r, {"sent"})
        BY <2>1, CountSent
      <3> QED BY <3>1, <3>2, <3>3 DEF WithAggregator
    <2>9. Received(r) <=> loc[r][1] # "left"
      <3>1. r \in Here(loc, "left", s) <=> loc[r][1] = "left"
        BY <2>4 DEF StreamPlaces
      <3>2. Received(r) <=> r \notin Here(loc, "left", s)
        BY <2>1, <2>2, ReceivedIs DEF Placed
      <3> QED BY <3>1, <3>2
    <2>10. loc[r][1] \in {"left", "todo", "put", "queue", "busy", "emit", "list", "ch", "batch", "sent"}
      <3>1. loc[r][1] \in StreamPlaces \cup ActorPlaces \cup ResultPlaces
        BY <2>1, WhereIs
      <3> QED BY <3>1 DEF StreamPlaces, ActorPlaces, ResultPlaces
    <2>11. One(loc, r, {"todo", "put"}) + (One(loc, r, {"busy", "emit"}) + One(loc, r, {"queue"}))
             + One(loc, r, {"list"})
             + (One(loc, r, {"ch"}) + One(loc, r, {"batch"}) + One(loc, r, {"sent"}))
             = IF loc[r][1] # "left" THEN 1 ELSE 0
      BY SMT, <2>10 DEF One
    <2> QED BY <2>5, <2>6, <2>7, <2>8, <2>9, <2>11
  <1> QED BY <1>1, AlwaysPlaced, PTL
-----------------------------------------------------------------------------
(* Sizes.                                                                  *)

\* The requests in the mailboxes.
Queued == UNION {Elements(inc[i].queue) : i \in Incs}

EnvType == [owned: SUBSET Keys, changes: Nat, idles: Nat, held: Streams \cup {None}]

Sizes ==
  /\ env \in EnvType
  /\ stop \in [pc: {"run", "stopping", "waiting", "stopped"}, done: BOOLEAN, awaited: SUBSET Incs]
  /\ Len(resultCh) <= ChanSize /\ Len(agg.batch) < MaxBatchSize
  /\ IsFiniteSet(Queued) /\ pending = Cardinality(Queued)

LEMMA ListsElements ==
  ASSUME NEW q, NEW S, Lists(q, S)
  PROVE  Elements(q) = S
  BY SMT DEF Lists, Elements

LEMMA ListsLength ==
  ASSUME NEW q \in Seq(Requests), NEW S, Lists(q, S)
  PROVE  Cardinality(S) = Len(q) /\ Len(q) \in Nat
  <1>1. DOMAIN q = 1 .. Len(q) /\ Len(q) \in Nat /\ q \in [1 .. Len(q) -> Requests]
    BY SMT
  <1>2. q \in [1 .. Len(q) -> S]
    BY SMT, <1>1 DEF Lists
  <1>3. q \in Bijection(1 .. Len(q), S)
    <2>1. q \in Injection(1 .. Len(q), S)
      BY <1>1, <1>2 DEF Lists, Injection, IsInjective
    <2>2. q \in Surjection(1 .. Len(q), S)
      BY SMT, <1>1, <1>2 DEF Lists, Surjection
    <2> QED BY <2>1, <2>2 DEF Bijection
  <1>4. ExistsBijection(1 .. Len(q), S)
    BY <1>3 DEF ExistsBijection
  <1> QED BY <1>1, <1>4, FS_CountingElements

\* The mailbox of one actor changes.
LEMMA QueuedWithout ==
  ASSUME NEW loc, Placed(loc), NEW i \in Incs, \A j \in Incs \ {i} : inc'[j].queue = inc[j].queue
  PROVE  Queued' = (Queued \ Here(loc, "queue", i)) \cup Elements(inc'[i].queue)
  <1>1. \A j \in Incs : Elements(inc[j].queue) = Here(loc, "queue", j)
    BY ListsElements DEF Placed, ActorOK
  <1>2. \A j \in Incs \ {i} : Elements(inc'[j].queue) = Here(loc, "queue", j)
    BY <1>1
  <1>3. ASSUME NEW r PROVE r \in Queued <=> \E j \in Incs : r \in Here(loc, "queue", j)
    BY <1>1 DEF Queued
  <1>4. ASSUME NEW r
        PROVE  r \in Queued' <=> \/ \E j \in Incs \ {i} : r \in Here(loc, "queue", j)
                                 \/ r \in Elements(inc'[i].queue)
    <2>1. r \in Queued' <=> \E j \in Incs : r \in Elements(inc'[j].queue)
      BY DEF Queued
    <2> QED BY <1>2, <2>1
  <1>5. \A j \in Incs \ {i} : \A r \in Here(loc, "queue", j) : r \notin Here(loc, "queue", i)
    BY SMT DEF Here
  <1> QED BY <1>3, <1>4, <1>5

LEMMA BacklogPut ==
  ASSUME IInv, NEW loc, Placed(loc), Sizes, NEW s \in Streams, Put(s)
  PROVE  IsFiniteSet(Queued') /\ pending' = Cardinality(Queued')
  <1>0. PICK i, r : i = Act(s) /\ r = Head(str[s].todo)
    OBVIOUS
  <1>1. /\ str[s].pc = "put" /\ i \in Incs /\ StreamOK(loc, s, str[s])
        /\ inc[i] \in IncType /\ inc[i].queue \in Seq(Requests) /\ ActorOK(loc, i, inc[i])
    BY <1>0, MadeActor, StreamFacts, ActorFacts DEF Put
  <1>2. Here(loc, "put", s) = {r}
    BY <1>0, <1>1 DEF StreamOK
  <1>3. r \in Requests /\ loc[r] = <<"put", s>>
    BY <1>2 DEF Here
  <1>4. PICK q : q = Append(inc[i].queue, r)
    OBVIOUS
  <1>5. /\ inc'[i] = [inc[i] EXCEPT !.queue = q]
        /\ \A j \in Incs \ {i} : inc'[j] = inc[j]
    BY <1>0, <1>1, <1>4 DEF Put, Req, IInv, RecordsOK
  <1>6. inc'[i].queue = q
    BY <1>1, <1>5 DEF IncType
  <1>7. r \notin Here(loc, "queue", i) /\ Lists(inc[i].queue, Here(loc, "queue", i))
    BY SMTT(40), <1>1, <1>3 DEF Here, ActorOK
  <1>8. Elements(q) = Here(loc, "queue", i) \cup {r}
    <2>1. Lists(q, Here(loc, "queue", i) \cup {r})
      BY SMT, <1>1, <1>3, <1>4, <1>7, ListsAppend
    <2> QED BY <2>1, ListsElements
  <1>9. Here(loc, "queue", i) \subseteq Queued
    BY <1>1, <1>7, ListsElements DEF Queued
  <1>10. Queued' = Queued \cup {r}
    BY ZenonT(40), <1>5, <1>6, <1>8, <1>9, <1>1, QueuedWithout
  <1>11. r \notin Queued
    <2>1. \A j \in Incs : Elements(inc[j].queue) = Here(loc, "queue", j)
      BY ListsElements DEF Placed, ActorOK
    <2>2. \A j \in Incs : r \notin Here(loc, "queue", j)
      BY SMT, <1>3 DEF Here
    <2> QED BY <2>1, <2>2 DEF Queued
  <1>12. pending' = pending + 1 /\ IsFiniteSet(Queued) /\ pending = Cardinality(Queued)
    BY DEF Put, Sizes
  <1> QED BY <1>10, <1>11, <1>12, FS_AddElement

LEMMA BacklogDequeue ==
  ASSUME IInv, NEW loc, Placed(loc), Sizes, NEW i \in Incs, Dequeue(i), inc[i].queue # <<>>
  PROVE  IsFiniteSet(Queued') /\ pending' = Cardinality(Queued')
  <1>0. PICK r, q, c : r = Head(inc[i].queue) /\ q = Tail(inc[i].queue) /\ c = Result(r, None, "none")
    OBVIOUS
  <1>1. inc[i] \in IncType /\ inc[i].queue \in Seq(Requests) /\ ActorOK(loc, i, inc[i])
    BY ActorFacts
  <1>2. r \in Here(loc, "queue", i) /\ Elements(q) = Here(loc, "queue", i) \ {r}
    <2>1. r \in Here(loc, "queue", i) /\ Lists(q, Here(loc, "queue", i) \ {r})
      BY <1>0, <1>1, ListsTail DEF ActorOK
    <2> QED BY <2>1, ListsElements
  <1>3. /\ inc'[i] = [inc[i] EXCEPT !.pc = "busy", !.queue = q, !.cur = c]
        /\ \A j \in Incs \ {i} : inc'[j] = inc[j]
        /\ pending' = pending - 1
    BY <1>0 DEF Dequeue, IInv, RecordsOK
  <1>4. inc'[i].queue = q
    BY <1>1, <1>3 DEF IncType
  <1>5. Here(loc, "queue", i) \subseteq Queued
    BY <1>1, ListsElements DEF Queued, ActorOK
  <1>6. Queued' = Queued \ {r} /\ r \in Queued
    <2>1. Queued' = (Queued \ Here(loc, "queue", i)) \cup (Here(loc, "queue", i) \ {r})
      BY ZenonT(40), <1>2, <1>3, <1>4, QueuedWithout
    <2> QED BY <1>2, <1>5, <2>1
  <1>7. IsFiniteSet(Queued) /\ pending = Cardinality(Queued)
    BY DEF Sizes
  <1> QED BY <1>3, <1>6, <1>7, FS_RemoveElement

LEMMA BacklogDrain ==
  ASSUME IInv, NEW loc, Placed(loc), Sizes, NEW i \in Incs, Drain(i)
  PROVE  IsFiniteSet(Queued') /\ pending' = Cardinality(Queued')
  <1>0. PICK R, q, none : R = Here(loc, "queue", i) /\ q = inc[i].queue /\ none = <<>>
    OBVIOUS
  <1>1. inc[i] \in IncType /\ q \in Seq(Requests) /\ Lists(q, R)
    BY <1>0, ActorFacts DEF ActorOK
  <1>2. /\ inc'[i] = [inc[i] EXCEPT !.list = q, !.queue = none, !.drain = "reply"]
        /\ \A j \in Incs \ {i} : inc'[j] = inc[j]
        /\ pending' = pending - Len(q)
    BY <1>0 DEF Drain, Drained, IInv, RecordsOK
  <1>3. inc'[i].queue = none /\ Elements(none) = {}
    <2>1. inc'[i].queue = none
      BY <1>1, <1>2 DEF IncType
    <2>2. DOMAIN none = {}
      BY SMT, <1>0
    <2> QED BY <2>1, <2>2 DEF Elements
  <1>4. R \subseteq Queued
    BY <1>0, <1>1, ListsElements DEF Queued
  <1>5. Queued' = Queued \ R /\ Queued \cap R = R
    <2>1. Queued' = (Queued \ R) \cup {}
      <3>1. \A j \in Incs \ {i} : inc'[j].queue = inc[j].queue
        BY <1>2
      <3>2. Queued' = (Queued \ Here(loc, "queue", i)) \cup Elements(inc'[i].queue)
        BY <3>1, QueuedWithout
      <3> QED BY <1>0, <1>3, <3>2
    <2> QED BY <1>4, <2>1
  <1>6. Cardinality(R) = Len(q)
    BY <1>1, ListsLength
  <1>7. IsFiniteSet(Queued) /\ pending = Cardinality(Queued)
    BY DEF Sizes
  <1>8. IsFiniteSet(Queued') /\ Cardinality(Queued') = Cardinality(Queued) - Cardinality(R)
    <2>1. IsFiniteSet(Queued \ R)
          /\ Cardinality(Queued \ R) = Cardinality(Queued) - Cardinality(Queued \cap R)
      BY <1>7, FS_Difference
    <2> QED BY <1>5, <2>1
  <1> QED BY <1>2, <1>6, <1>7, <1>8

\* All other steps leave the mailboxes as they are.
LEMMA BacklogKept ==
  ASSUME Sizes, pending' = pending, \A i \in Incs : inc'[i].queue = inc[i].queue
  PROVE  IsFiniteSet(Queued') /\ pending' = Cardinality(Queued')
  <1>1. {Elements(inc'[i].queue) : i \in Incs} = {Elements(inc[i].queue) : i \in Incs}
    OBVIOUS
  <1>2. Queued' = Queued
    BY <1>1 DEF Queued
  <1> QED BY <1>2 DEF Sizes

LEMMA StoppedQueue ==
  ASSUME IInv, NEW i \in Incs
  PROVE  /\ Stopped(i).queue = inc[i].queue
         /\ [Stopped(i) EXCEPT !.drain = "wait"].queue = inc[i].queue
  <1>1. inc[i] \in IncType
    BY DEF IInv, RecordsOK
  <1>2. PICK l : Stopped(i) = [inc[i] EXCEPT !.phase = l]
    BY DEF Stopped
  <1> QED BY <1>1, <1>2 DEF IncType

LEMMA StreamBacklog ==
  ASSUME IInv, MapInv, NEW loc, Placed(loc), Sizes, NEW s \in Streams,
         Receive(s) \/ StreamEnd(s) \/ StreamNext(s)
  PROVE  IsFiniteSet(Queued') /\ pending' = Cardinality(Queued')
  <1>1. inc \in [Incs -> IncType]
    BY DEF IInv, RecordsOK
  <1>2. CASE Put(s)
    BY <1>2, BacklogPut
  <1>3. CASE KillStop(s)
    <2>1. Act(s) \in Incs
      BY <1>3, MadeActor DEF KillStop
    <2>2. pending' = pending /\ inc' = [inc EXCEPT ![Act(s)] = [Stopped(Act(s)) EXCEPT !.drain = "wait"]]
      BY <1>3 DEF KillStop
    <2>3. \A i \in Incs : inc'[i].queue = inc[i].queue
      BY <1>1, <2>1, <2>2, StoppedQueue
    <2> QED BY <2>2, <2>3, BacklogKept
  <1>4. CASE Rehydrated(s)
    <2>1. made' \in Incs /\ made' > made
      BY SMT, <1>4, NodeAssumption DEF Rehydrated, IInv, RecordsOK, Incs
    <2>2. pending' = pending /\ inc' = [inc EXCEPT ![made'] = NewActor(Key(s))]
      BY <1>4 DEF Rehydrated
    <2>3. NewActor(Key(s)).queue = <<>>
      BY SMT DEF NewActor
    <2>4. inc[made'].queue = <<>>
      BY <2>1 DEF MapInv, Fresh
    <2>5. \A i \in Incs : inc'[i].queue = inc[i].queue
      BY <1>1, <2>1, <2>2, <2>3, <2>4
    <2> QED BY <2>2, <2>5, BacklogKept
  <1>5. CASE ~(Put(s) \/ KillStop(s) \/ Rehydrated(s))
    <2>1. UNCHANGED <<pending, inc>>
      BY <1>5 DEF StreamNext, Receive, StreamEnd, Check, Reply, Kill, Lookup, Create,
           RehydrateFailed, Route, Undo
    <2> QED BY <2>1, BacklogKept
  <1> QED BY <1>2, <1>3, <1>4, <1>5

LEMMA ActorBacklog ==
  ASSUME IInv, NEW loc, Placed(loc), Sizes, NEW i \in Incs, LoopNext(i) \/ Drain(i) \/ DrainReply(i)
  PROVE  IsFiniteSet(Queued') /\ pending' = Cardinality(Queued')
  <1>1. inc \in [Incs -> IncType] /\ inc[i] \in IncType
    BY DEF IInv, RecordsOK
  <1>2. CASE Dequeue(i) /\ inc[i].queue # <<>>
    BY <1>2, BacklogDequeue
  <1>3. CASE Drain(i)
    BY <1>3, BacklogDrain
  <1>4. CASE Dequeue(i) /\ inc[i].queue = <<>>
    <2>1. pending' = pending /\ inc' = [inc EXCEPT ![i].pc = "empty"]
      BY <1>4 DEF Dequeue, At
    <2>2. \A j \in Incs : inc'[j].queue = inc[j].queue
      BY <1>1, <2>1 DEF IncType
    <2> QED BY <2>1, <2>2, BacklogKept
  <1>5. CASE Handle(i)
    <2>1. \A j \in Incs : inc'[j].queue = inc[j].queue
      BY SMT, <1>1, <1>5 DEF Handle, IncType
    <2> QED BY <1>5, <2>1, BacklogKept DEF Handle
  <1>6. CASE Emit(i)
    <2>1. \A j \in Incs : inc'[j].queue = inc[j].queue
      BY SMT, <1>1, <1>6 DEF Emit, IncType
    <2> QED BY <1>6, <2>1, BacklogKept DEF Emit
  <1>7. CASE Empty(i)
    <2>1. \A j \in Incs : inc'[j].queue = inc[j].queue
      BY SMT, <1>1, <1>7 DEF Empty, IncType
    <2> QED BY <1>7, <2>1, BacklogKept DEF Empty
  <1>8. CASE Wake(i)
    <2>1. \A j \in Incs : inc'[j].queue = inc[j].queue
      BY SMT, <1>1, <1>8 DEF Wake, At, IncType
    <2> QED BY <1>8, <2>1, BacklogKept DEF Wake
  <1>9. CASE DrainReply(i)
    <2>1. PICK q : inc' = [inc EXCEPT ![i].list = q]
      BY <1>9 DEF DrainReply
    <2>2. \A j \in Incs : inc'[j].queue = inc[j].queue
      BY SMT, <1>1, <2>1 DEF IncType
    <2> QED BY <1>9, <2>2, BacklogKept DEF DrainReply
  <1> QED BY <1>2, <1>3, <1>4, <1>5, <1>6, <1>7, <1>8, <1>9 DEF LoopNext

\* resultCh and the aggregator's batch stay within their sizes.
LEMMA ChannelSizes ==
  ASSUME NEW loc, Placed(loc), Sizes, [Next]_vars
  PROVE  Len(resultCh') <= ChanSize /\ Len(agg'.batch) < MaxBatchSize
  <1>0. /\ resultCh \in Seq(Results) /\ agg \in AggType /\ agg.batch \in Seq(Results)
        /\ Len(resultCh) <= ChanSize /\ Len(agg.batch) < MaxBatchSize
        /\ ChanSize \in Nat /\ MaxBatchSize \in Nat \ {0}
    BY NodeAssumption DEF Placed, ChannelOK, Sizes
  <1>1. CASE UNCHANGED <<resultCh, agg>>
    BY <1>0, <1>1
  <1>2. ASSUME NEW z, Push(z), UNCHANGED agg PROVE Len(resultCh') <= ChanSize
    <2>1. Len(resultCh) < ChanSize /\ resultCh' = Append(resultCh, z)
      BY <1>2 DEF Push
    <2> QED BY SMT, <1>0, <2>1
  <1>3. \A b : Flushed(b).batch = <<>>
    BY SMT, <1>0 DEF Flushed, AggType
  <1>4. CASE Collect
    <2>1. Len(resultCh') <= ChanSize
      <3>1. resultCh # <<>> /\ resultCh' = Tail(resultCh)
        BY <1>4 DEF Collect
      <3> QED BY SMT, <1>0, <3>1
    <2>2. PICK b : /\ b = Append(agg.batch, Head(resultCh))
                   /\ agg' = IF FullBatch(b) THEN Flushed(b) ELSE [agg EXCEPT !.batch = b]
      BY <1>4 DEF Collect
    <2>3. Len(b) \in Nat
      BY SMT, <1>0, <2>2
    <2>4. CASE FullBatch(b)
      <3>1. agg'.batch = <<>>
        BY <1>3, <2>2, <2>4
      <3> QED BY SMT, <1>0, <2>1, <3>1
    <2>5. CASE ~FullBatch(b)
      <3>1. agg'.batch = b
        BY SMT, <1>0, <2>2, <2>5 DEF AggType
      <3> QED BY SMT, <1>0, <2>1, <2>3, <2>5, <3>1 DEF FullBatch
    <2> QED BY <2>4, <2>5
  <1>5. CASE Tick \/ AggregatorExit
    <2>1. resultCh' = resultCh /\ agg'.batch = <<>>
      <3>1. PICK g : g = Flushed(agg.batch)
        OBVIOUS
      <3>2. g \in [on: BOOLEAN, batch: {<<>>}, sent: {g.sent}]
        BY <1>0, <3>1 DEF Flushed, AggType
      <3>3. agg' = g \/ agg' = [g EXCEPT !.on = FALSE]
        BY <1>5, <3>1 DEF Tick, AggregatorExit
      <3> QED BY SMT, <1>5, <3>2, <3>3 DEF Tick, AggregatorExit
    <2> QED BY SMT, <1>0, <2>1
  <1>6. ASSUME NEW s \in Streams, Receive(s) \/ StreamEnd(s) \/ StreamNext(s)
        PROVE  UNCHANGED agg /\ (UNCHANGED resultCh \/ \E z : Push(z))
    BY <1>6 DEF StreamNext, Receive, StreamEnd, Check, Reply, Kill, KillStop, Lookup, Create,
         RehydrateFailed, Rehydrated, Route, Put, Undo
  <1>7. ASSUME NEW i \in Incs, LoopNext(i) \/ Drain(i) \/ DrainReply(i) \/ Passivate(i)
        PROVE  UNCHANGED agg /\ (UNCHANGED resultCh \/ \E z : Push(z))
    BY <1>7 DEF LoopNext, Dequeue, Handle, Emit, Empty, Wake, Drain, DrainReply, Passivate
  <1>8. CASE StopBegin \/ StopNext \/ Environment \/ UNCHANGED vars
    BY <1>1, <1>8 DEF StopBegin, StopNext, StopActor, StopClose, StopEnd,
           Environment, Move, Hold, Release, vars
  <1> QED BY <1>0, <1>1, <1>2, <1>4, <1>5, <1>6, <1>7, <1>8 DEF Next, Environment

\* The routing table and the state of Stop keep their types.
LEMMA OutsideTypes ==
  ASSUME IInv, Sizes, [Next]_vars
  PROVE  /\ env' \in EnvType
         /\ stop' \in [pc: {"run", "stopping", "waiting", "stopped"}, done: BOOLEAN,
                       awaited: SUBSET Incs]
  <1>0. /\ env \in EnvType
        /\ stop \in [pc: {"run", "stopping", "waiting", "stopped"}, done: BOOLEAN,
                     awaited: SUBSET Incs]
    BY DEF Sizes
  <1>1. CASE UNCHANGED <<env, stop>>
    BY <1>0, <1>1
  <1>2. ASSUME NEW i \in Incs, Passivate(i) PROVE env' \in EnvType
    <2>1. env' = [env EXCEPT !.changes = env.changes + 1, !.idles = env.idles + 1]
      BY <1>2 DEF Passivate
    <2>2. env.changes + 1 \in Nat /\ env.idles + 1 \in Nat
      BY SMT, <1>0 DEF EnvType
    <2> QED BY <1>0, <2>1, <2>2 DEF EnvType
  <1>3. ASSUME NEW k \in Keys, Move(k) PROVE env' \in EnvType
    <2>1. PICK S \in SUBSET Keys :
            env' = [env EXCEPT !.changes = env.changes + 1, !.owned = S]
      <3>1. (IF k \in env.owned THEN env.owned \ {k} ELSE env.owned \cup {k}) \in SUBSET Keys
        BY SMT, <1>0 DEF EnvType
      <3> QED BY <1>3, <3>1 DEF Environment, Move, Hold, Release
    <2>2. env.changes + 1 \in Nat
      BY SMT, <1>0 DEF EnvType
    <2> QED BY <1>0, <2>1, <2>2 DEF EnvType
  <1>10. ASSUME NEW x \in Streams \cup {None}, env' = [env EXCEPT !.held = x]
         PROVE  env' \in EnvType
    BY <1>0, <1>10 DEF EnvType
  <1>11. ASSUME NEW s \in Streams, Hold(s) PROVE env' \in EnvType
    BY <1>10, <1>11 DEF Hold
  <1>12. ASSUME Release PROVE env' \in EnvType
    BY <1>10, <1>12 DEF Release
  <1>13. ASSUME NEW s \in Streams, StreamEnd(s) PROVE env' \in EnvType
    <2>1. env.held \in Streams \cup {None}
      BY SMT, <1>0 DEF EnvType
    <2>2. PICK x \in Streams \cup {None} : x = IF env.held = s THEN None ELSE env.held
      BY <2>1
    <2> QED BY <1>10, <1>13, <2>2 DEF StreamEnd
  <1>4. ASSUME NEW k \in Keys, StopActor(k)
        PROVE  stop' \in [pc: {"run", "stopping", "waiting", "stopped"}, done: BOOLEAN,
                          awaited: SUBSET Incs]
    <2>1. actors[k] \in Incs
      BY <1>4 DEF StopActor, IInv, RecordsOK
    <2>2. stop' = [stop EXCEPT !.awaited = @ \cup {actors[k]}]
      BY <1>4 DEF StopActor
    <2> QED BY SMT, <1>0, <2>1, <2>2
  <1>5. CASE StopBegin \/ StopClose \/ StopEnd
    <2>1. \/ stop' = [stop EXCEPT !.pc = "stopping"]
          \/ stop' = [stop EXCEPT !.done = TRUE, !.pc = "waiting"]
          \/ stop' = [stop EXCEPT !.pc = "stopped"]
      BY <1>5 DEF StopBegin, StopClose, CloseDone, StopEnd
    <2>2. env' = env
      BY <1>5 DEF StopBegin, StopClose, StopEnd
    <2> QED BY <1>0, <2>1, <2>2
  <1>6. ASSUME NEW s \in Streams, Receive(s) \/ StreamNext(s)
        PROVE  UNCHANGED <<env, stop>>
    BY <1>6 DEF StreamNext, Receive, Check, Reply, Kill, KillStop, Lookup, Create,
         RehydrateFailed, Rehydrated, Route, Put, Undo
  <1>7. ASSUME NEW i \in Incs, LoopNext(i) \/ Drain(i) \/ DrainReply(i)
        PROVE  UNCHANGED <<env, stop>>
    BY <1>7 DEF LoopNext, Dequeue, Handle, Emit, Empty, Wake, Drain, DrainReply
  <1>8. CASE Collect \/ Tick \/ AggregatorExit \/ UNCHANGED vars
    BY <1>1, <1>8 DEF Collect, Tick, AggregatorExit, vars
  <1>9. /\ \A i \in Incs : Passivate(i) => stop' = stop
        /\ \A k \in Keys : Move(k) => stop' = stop
        /\ \A s \in Streams : Hold(s) \/ StreamEnd(s) => stop' = stop
        /\ Release => stop' = stop
        /\ \A k \in Keys : StopActor(k) => env' = env
    BY DEF Passivate, Move, Hold, Release, StreamEnd, StopActor
  <1> QED BY <1>0, <1>1, <1>2, <1>3, <1>4, <1>5, <1>6, <1>7, <1>8, <1>9, <1>11,
            <1>12, <1>13 DEF Next, StopNext

LEMMA BacklogStep ==
  ASSUME IInv, MapInv, NEW loc, Placed(loc), Sizes, [Next]_vars
  PROVE  IsFiniteSet(Queued') /\ pending' = Cardinality(Queued')
  <1>0. inc \in [Incs -> IncType]
    BY DEF IInv, RecordsOK
  <1>1. ASSUME NEW i \in Incs, inc' = [inc EXCEPT ![i] = Stopped(i)], pending' = pending
        PROVE  IsFiniteSet(Queued') /\ pending' = Cardinality(Queued')
    <2>1. \A j \in Incs : inc'[j].queue = inc[j].queue
      BY <1>0, <1>1, StoppedQueue
    <2> QED BY <1>1, <2>1, BacklogKept
  <1>2. ASSUME NEW i \in Incs, Passivate(i)
        PROVE  IsFiniteSet(Queued') /\ pending' = Cardinality(Queued')
    BY <1>1, <1>2 DEF Passivate
  <1>3. ASSUME NEW k \in Keys, StopActor(k)
        PROVE  IsFiniteSet(Queued') /\ pending' = Cardinality(Queued')
    <2>1. actors[k] \in Incs
      BY <1>3 DEF StopActor, IInv, RecordsOK
    <2> QED BY <1>1, <1>3, <2>1 DEF StopActor
  <1>4. CASE \/ Collect \/ Tick \/ AggregatorExit \/ StopBegin \/ StopClose \/ StopEnd
             \/ Environment \/ UNCHANGED vars
    <2>1. UNCHANGED <<inc, pending>>
      BY <1>4 DEF Collect, Tick, AggregatorExit, StopBegin, StopClose, StopEnd,
             Environment, Move, Hold, Release, vars
    <2> QED BY <2>1, BacklogKept
  <1> QED BY <1>2, <1>3, <1>4, StreamBacklog, ActorBacklog
         DEF Next, StopNext, Environment

LEMMA InitSizes ==
  ASSUME Init
  PROVE  Sizes
  <1>1. \A i \in Incs : inc[i].queue = <<>>
    BY DEF Init, NewActor
  <1>2. Queued = {}
    BY SMT, <1>1 DEF Queued, Elements
  <1>3. IsFiniteSet(Queued) /\ pending = Cardinality(Queued)
    BY <1>2, FS_EmptySet DEF Init
  <1>4. Len(resultCh) <= ChanSize /\ Len(agg.batch) < MaxBatchSize
    <2>1. resultCh = <<>> /\ agg.batch = <<>>
      BY DEF Init
    <2>2. ChanSize \in Nat /\ MaxBatchSize \in Nat \ {0}
      BY NodeAssumption
    <2> QED BY SMT, <2>1, <2>2
  <1>5. /\ env \in EnvType
        /\ stop \in [pc: {"run", "stopping", "waiting", "stopped"}, done: BOOLEAN,
                     awaited: SUBSET Incs]
    BY DEF Init, EnvType
  <1> QED BY <1>3, <1>4, <1>5 DEF Sizes

\* The mailbox count of the node is always the number of requests queued at its
\* actors, and the channel and the batch stay within their sizes.
THEOREM AlwaysSizes == Spec => []Sizes
  <1>1. PInv /\ Sizes /\ [Next]_vars => Sizes'
    <2> SUFFICES ASSUME PInv, Sizes, [Next]_vars PROVE Sizes'
      OBVIOUS
    <2>1. PICK loc : Placed(loc)
      BY DEF PInv, Places
    <2>2. IInv /\ MapInv
      BY DEF PInv
    <2> QED BY <2>1, <2>2, ChannelSizes, OutsideTypes, BacklogStep DEF Sizes
  <1>2. Init => Sizes
    BY InitSizes
  <1> QED BY <1>1, <1>2, AlwaysPlaced, PTL DEF Spec

\* Every variable of the node keeps its type: no counter goes below zero and no
\* buffer above its size, for any streams, requests, keys and bounds.
THEOREM NodeTypeCorrect == Spec => []TypeOK
  <1>1. PInv /\ Sizes => TypeOK
    <2> SUFFICES ASSUME PInv, Sizes PROVE TypeOK
      OBVIOUS
    <2>1. pending \in Nat
      BY FS_CardinalityType DEF Sizes
    <2>2. RecordsOK
      BY DEF PInv, IInv
    <2>3. /\ env.owned \subseteq Keys /\ env.held \in Streams \cup {None}
          /\ stop.awaited \subseteq Incs
      BY SMT DEF Sizes, EnvType
    <2> QED BY <2>1, <2>2, <2>3 DEF Sizes, TypeOK
  <1> QED BY <1>1, AlwaysPlaced, AlwaysSizes, PTL
-----------------------------------------------------------------------------
(***************************************************************************)
(* Node implements NodeService.                                            *)
(***************************************************************************)

\* The abstract state.
Open == {r \in Requests : agg.sent[r] = <<>> /\ Received(r)}
Ended == {s \in Streams : str[s].pc = "ended"}

LEMMA ServiceStutter ==
  ASSUME UNCHANGED <<Open, handled, Ended>>, agg'.sent = agg.sent
  PROVE  UNCHANGED Service!vars
  BY DEF Service!vars, Open, Ended

LEMMA ServiceInit == Init => Service!Init
  <1> SUFFICES ASSUME Init PROVE Service!Init
    OBVIOUS
  <1>1. ASSUME NEW r \in Requests PROVE ~Received(r)
    <2>1. PICK s \in Streams : s = StreamOf(r)
      BY StreamOfIs
    <2>2. PICK b \in DOMAIN Batches[s] : \E n \in DOMAIN Batches[s][b] : Batches[s][b][n] = r
      BY <2>1, StreamOfIs
    <2>3. In(r, Batches[s][b]) # {}
      BY <2>2 DEF In
    <2>4. str[s].left = Batches[s]
      BY DEF Init
    <2> QED BY <2>1, <2>3, <2>4 DEF Received
  <1>2. Open = {}
    BY <1>1 DEF Open
  <1>3. Ended = {}
    BY DEF Init, Ended
  <1> QED BY <1>2, <1>3 DEF Init, Service!Init, Open, Ended

\* A step that receives nothing, ends no stream, executes and answers nothing.
LEMMA Quiet ==
  ASSUME handled' = handled, agg'.sent = agg.sent,
         \A s \in Streams : /\ str'[s].left = str[s].left
                            /\ str'[s].pc = "ended" <=> str[s].pc = "ended"
  PROVE  UNCHANGED Service!vars
  <1>1. \A r \in Requests : Received(r)' <=> Received(r)
    BY StreamOfIs DEF Received
  <1>2. Open' = Open /\ Ended' = Ended
    BY <1>1 DEF Open, Ended
  <1> QED BY <1>2, ServiceStutter

\* HandleBatch neither receives nor ends its stream.
LEMMA StreamQuiet ==
  ASSUME IInv, NEW s \in Streams, StreamNext(s)
  PROVE  UNCHANGED Service!vars
  <1>0. str \in [Streams -> StrType] /\ str[s] \in StrType /\ str[s].pc # "ended"
    BY DEF IInv, RecordsOK, StreamNext, Check, Reply, Kill, KillStop, Lookup, Create,
       RehydrateFailed, Rehydrated, Route, Put, Undo
  <1>1. handled' = handled /\ agg' = agg
    BY DEF StreamNext, Check, Reply, Kill, KillStop, Lookup, Create, RehydrateFailed, Rehydrated,
       Route, Put, Undo
  <1>2. /\ str'[s].left = str[s].left /\ str'[s].pc # "ended"
        /\ \A t \in Streams \ {s} : str'[t] = str[t]
    <2>1. ASSUME NEW l, l # "ended", Goto(s, l)
          PROVE  /\ str'[s].left = str[s].left /\ str'[s].pc # "ended"
                 /\ \A t \in Streams \ {s} : str'[t] = str[t]
      BY <1>0, <2>1 DEF Goto, StrType
    <2>2. ASSUME NEW l, NEW m, l # "ended", str' = [str EXCEPT ![s].act = m, ![s].pc = l]
          PROVE  /\ str'[s].left = str[s].left /\ str'[s].pc # "ended"
                 /\ \A t \in Streams \ {s} : str'[t] = str[t]
      <3>1. str' = [str EXCEPT ![s] = [str[s] EXCEPT !.act = m, !.pc = l]] /\ l # "ended"
        BY <2>2
      <3> QED BY <1>0, <3>1 DEF StrType
    <2>3. CASE NextEnvelope(s)
      <3>1. /\ str'[s].left = str[s].left /\ str'[s].pc \in {"recv", "reply", "check"}
            /\ \A t \in Streams \ {s} : str'[t] = str[t]
        BY <1>0, <2>3 DEF NextEnvelope, StrType
      <3> QED BY <3>1
    <2>4. CASE Check(s)
      <3>1. PICK l : l # "ended" /\ Goto(s, l)
        BY <2>4 DEF Check
      <3> QED BY <2>1, <3>1
    <2>5. CASE KillStop(s) \/ RehydrateFailed(s) \/ Undo(s)
      BY <2>1, <2>5 DEF KillStop, RehydrateFailed, Undo
    <2>6. CASE Route(s)
      <3>1. PICK l : l # "ended" /\ Goto(s, l)
        BY <2>6 DEF Route
      <3> QED BY <2>1, <3>1
    <2>7. CASE Kill(s) \/ Lookup(s) \/ Create(s) \/ Rehydrated(s)
      <3>1. PICK l, m : l # "ended" /\ str' = [str EXCEPT ![s].act = m, ![s].pc = l]
        <4>1. CASE Kill(s)
          BY <4>1 DEF Kill, Find
        <4>2. CASE Lookup(s)
          BY <4>2 DEF Lookup, Find
        <4>3. CASE Create(s)
          BY <4>3 DEF Create, Find
        <4>4. CASE Rehydrated(s)
          BY <4>4 DEF Rehydrated
        <4> QED BY <2>7, <4>1, <4>2, <4>3, <4>4
      <3> QED BY <2>2, <3>1
    <2>8. CASE Reply(s) \/ Put(s)
      BY <2>3, <2>8 DEF Reply, Put
    <2> QED BY <2>4, <2>5, <2>6, <2>7, <2>8 DEF StreamNext
  <1>3. \A t \in Streams : str'[t].left = str[t].left /\ (str'[t].pc = "ended" <=> str[t].pc = "ended")
    BY <1>0, <1>2
  <1> QED BY <1>1, <1>3, Quiet

\* A request is open when it has left its stream's batches and no answer is sent.
LEMMA OpenIs ==
  ASSUME NEW loc, \A s \in Streams : StreamOK(loc, s, str[s]), SentOK(loc, agg.sent, handled),
         NEW r \in Requests
  PROVE  /\ agg.sent[r] = <<>> <=> r \notin Here(loc, "sent", None)
         /\ r \in Open <=> r \notin Here(loc, "left", StreamOf(r)) /\ r \notin Here(loc, "sent", None)
  <1>1. ASSUME r \in Here(loc, "sent", None) PROVE agg.sent[r] # <<>>
    <2>1. PICK q : agg.sent[r] = <<q>>
      BY <1>1 DEF SentOK
    <2> QED BY SMT, <2>1
  <1>2. r \notin Here(loc, "sent", None) => agg.sent[r] = <<>>
    BY DEF SentOK
  <1> QED BY <1>1, <1>2, ReceivedIs DEF Open

LEMMA ReceiveArrives ==
  ASSUME IInv, NEW loc, Placed(loc), NEW s \in Streams, Receive(s)
  PROVE  \E S \in SUBSET Requests : Service!ArriveAll(s, S)
  <1>0. PICK b, q, R : b = Head(str[s].left) /\ q = Tail(str[s].left) /\ R = Elements(b)
    OBVIOUS
  <1>1. /\ str[s].left \in Seq(Batch) /\ str[s].left # <<>> /\ str[s].pc = "recv"
        /\ StreamOK(loc, s, str[s])
    BY StreamFacts DEF Receive, StrType
  <1>2. b \in Seq(Requests)
    BY SMT, <1>0, <1>1 DEF Receive, Batch
  <1>3. R \subseteq Here(loc, "left", s) /\ ListsBatches(q, Here(loc, "left", s) \ R)
    BY <1>0, <1>1, <1>2, BatchesTail DEF StreamOK
  <1>4. /\ str'[s].left = q /\ str'[s].pc # "ended" /\ \A t \in Streams \ {s} : str'[t] = str[t]
        /\ handled' = handled /\ agg' = agg
    BY ZenonT(40), <1>0, <1>1, StreamFacts DEF Receive, StrType, IInv, RecordsOK
  <1>5. R \in SUBSET Requests /\ \A r \in R : StreamOf(r) = s
    BY <1>1, <1>3 DEF StreamOK, StreamPlaces, Here
  <1>6. (\A t \in Streams : StreamOK(loc, t, str[t])) /\ SentOK(loc, agg.sent, handled)
    BY DEF Placed
  <1>7. ASSUME NEW r \in R PROVE Home[r] = s /\ agg.sent[r] = <<>> /\ r \notin Open
    <2>1. r \in Requests /\ r \in Here(loc, "left", StreamOf(r)) /\ StreamOf(r) = s
      BY <1>3, <1>5
    <2>2. r \notin Here(loc, "sent", None)
      BY SMT, <2>1 DEF Here
    <2> QED BY <1>6, <2>1, <2>2, OpenIs DEF StreamOf
  <1>8. ASSUME NEW r \in Requests PROVE Received(r)' <=> Received(r) \/ r \in R
    <2>1. CASE StreamOf(r) = s
      <3>1. Received(r)' <=> \A c \in DOMAIN q : In(r, q[c]) = {}
        BY <1>4, <2>1 DEF Received
      <3>2. Received(r)' <=> r \notin Here(loc, "left", s) \ R
        <4>1. PICK S : S = Here(loc, "left", s) \ R /\ ListsBatches(q, S)
          BY <1>3
        <4>2. (\A c \in DOMAIN q : In(r, q[c]) = {}) <=> r \notin S
          BY SMT, <4>1, BatchesIn
        <4> QED BY <3>1, <4>1, <4>2
      <3>3. Received(r) <=> r \notin Here(loc, "left", s)
        BY <1>6, <2>1, ReceivedIs
      <3> QED BY <3>2, <3>3
    <2>2. CASE StreamOf(r) # s
      <3>1. str'[StreamOf(r)] = str[StreamOf(r)] /\ r \notin R
        BY <1>4, <1>5, <2>2, StreamOfIs
      <3> QED BY <3>1 DEF Received
    <2> QED BY <2>1, <2>2
  <1>9. Open' = Open \cup R
    <2>1. \A r \in Requests : agg'.sent[r] = agg.sent[r]
      BY <1>4
    <2>2. \A r \in Requests : r \in Open' <=> r \in Open \/ r \in R
      BY <1>7, <1>8, <2>1 DEF Open
    <2>3. Open' \subseteq Requests /\ Open \subseteq Requests
      BY DEF Open
    <2> QED BY <1>5, <2>2, <2>3
  <1>10. s \notin Ended /\ Ended' = Ended
    BY <1>1, <1>4 DEF Ended
  <1>11. Service!ArriveAll(s, R)
    BY <1>4, <1>7, <1>9, <1>10 DEF Service!ArriveAll, Open, Ended
  <1> QED BY <1>5, <1>11

LEMMA StreamEnds ==
  ASSUME IInv, NEW s \in Streams, StreamEnd(s)
  PROVE  Service!End(s)
  <1>1. str \in [Streams -> StrType] /\ str[s].pc = "recv"
    BY DEF StreamEnd, IInv, RecordsOK
  <1>2. /\ str'[s].left = str[s].left /\ str'[s].pc = "ended"
        /\ \A t \in Streams \ {s} : str'[t] = str[t]
    BY <1>1 DEF StreamEnd, Goto, StrType
  <1>3. \A r \in Requests : Received(r)' <=> Received(r)
    <2>1. \A t \in Streams : str'[t].left = str[t].left
      BY <1>2
    <2> QED BY <2>1, StreamOfIs DEF Received
  <1>4. handled' = handled /\ agg' = agg
    BY DEF StreamEnd
  <1>5. Open' = Open
    BY <1>3, <1>4 DEF Open
  <1>6. s \notin Ended /\ Ended' = Ended \cup {s}
    BY <1>1, <1>2 DEF Ended
  <1> QED BY <1>4, <1>5, <1>6 DEF Service!End, Open, Ended

\* What an actor is about to handle is open, and has not been executed.
LEMMA HandleExecutes ==
  ASSUME IInv, NEW loc, Placed(loc), NEW i \in Incs, Handle(i)
  PROVE  inc[i].cur.req \notin handled /\ \E r \in Requests : Service!Execute(r)
  <1>0. PICK r : r = inc[i].cur.req
    OBVIOUS
  <1>1. r \in Here(loc, "busy", i)
    BY <1>0, ActorFacts DEF Handle, ActorOK
  <1>2. r \in Requests /\ r \notin handled
    BY <1>1, RouteFound
  <1>3. r \notin Here(loc, "left", StreamOf(r)) /\ r \notin Here(loc, "sent", None)
    BY SMT, <1>1 DEF Here
  <1>4. r \in Open
    BY <1>2, <1>3, OpenIs DEF Placed
  <1>5. handled' = handled \cup {r} /\ UNCHANGED <<str, agg>>
    BY <1>0 DEF Handle
  <1>6. Open' = Open /\ Ended' = Ended
    BY <1>5 DEF Open, Ended, Received
  <1>7. Service!Execute(r)
    BY <1>2, <1>4, <1>5, <1>6 DEF Service!Execute, Open, Ended
  <1> QED BY <1>0, <1>2, <1>7

\* The response SendBatchResponse makes is the answer NodeService asks for.
LEMMA ResponseAnswers ==
  ASSUME NEW q \in Results, q.req \in Requests, q.to = StreamOf(q.req), Honest(q, handled)
  PROVE  SendBatchResponse(q) = Service!Answer(q.req)
  <1>1. PICK r, t, c : /\ r = q.req /\ c = IF r \in handled THEN "handled" ELSE "refused"
                       /\ t = IF StreamOf(r) \in Ended THEN None ELSE StreamOf(r)
    OBVIOUS
  <1>2. q.req = r /\ q.code = c /\ q.to = StreamOf(r)
    BY <1>1 DEF Honest
  <1>3. StreamOf(r) \in Ended <=> str[StreamOf(r)].pc = "ended"
    BY <1>1, StreamOfIs DEF Ended
  <1>4. SendBatchResponse(q) = [q EXCEPT !.to = t]
    BY <1>1, <1>2, <1>3 DEF SendBatchResponse
  <1>5. SendBatchResponse(q) = [req |-> r, to |-> t, code |-> c]
    BY SMT, <1>2, <1>4 DEF Results
  <1>6. Service!Answer(r) = [req |-> r, to |-> t, code |-> c]
    BY <1>1 DEF Service!Answer, StreamOf, Ended
  <1> QED BY <1>1, <1>5, <1>6

LEMMA FlushAnswers ==
  ASSUME NEW loc, Elsewhere(loc), NEW b, ChannelOK(loc, "batch", b, handled), agg \in AggType,
         SentOK(loc, agg.sent, handled), agg'.sent = Flushed(b).sent, UNCHANGED <<str, handled>>
  PROVE  \E S \in SUBSET Requests : Service!AnswerAll(S)
  <1>1. PICK S, f : S = Here(loc, "batch", None) /\ f = Flushed(b).sent
    OBVIOUS
  <1>2. /\ Flushed(b) \in AggType
        /\ \A r \in Requests :
             IF r \in S THEN \E n \in DOMAIN b : b[n].req = r /\ f[r] = <<SendBatchResponse(b[n])>>
             ELSE f[r] = agg.sent[r]
    <2>1. PICK to : to = Moved(loc, Here(loc, "batch", None), "sent", None)
      OBVIOUS
    <2>2. /\ Flushed(b) \in AggType
          /\ \A r \in Requests :
               IF r \in Here(loc, "batch", None)
               THEN \E n \in DOMAIN b : /\ b[n].req = r
                                       /\ Flushed(b).sent[r] = <<SendBatchResponse(b[n])>>
               ELSE Flushed(b).sent[r] = agg.sent[r]
      BY <2>1, FlushMoves
    <2> QED BY <1>1, <2>2
  <1>3. S \in SUBSET Requests
    BY <1>1 DEF Here
  <1>4. \A r \in S : r \in Open
    <2> SUFFICES ASSUME NEW r \in S PROVE r \in Open
      OBVIOUS
    <2>1. r \in Requests /\ r \notin Here(loc, "left", StreamOf(r)) /\ r \notin Here(loc, "sent", None)
      BY SMT, <1>1, <1>3 DEF Here
    <2> QED BY <2>1, OpenIs DEF Elsewhere
  <1>5. ASSUME NEW r \in S PROVE f[r] = <<Service!Answer(r)>>
    <2>1. PICK n \in DOMAIN b : b[n].req = r /\ f[r] = <<SendBatchResponse(b[n])>>
      BY <1>2, <1>3
    <2>2. b[n] \in Results
      BY SMT DEF ChannelOK
    <2>3. b[n].to = StreamOf(r) /\ Honest(b[n], handled) /\ r \in Requests
      BY <1>3, <2>1 DEF ChannelOK
    <2>4. SendBatchResponse(b[n]) = Service!Answer(r)
      BY <2>1, <2>2, <2>3, ResponseAnswers
    <2> QED BY <2>1, <2>4
  <1>6. f = [r \in Requests |-> IF r \in S THEN <<Service!Answer(r)>> ELSE agg.sent[r]]
    <2>1. f \in [Requests -> Seq(Results)]
      BY <1>1, <1>2 DEF AggType
    <2> QED BY <1>2, <1>5, <2>1
  <1>7. Open' = Open \ S
    <2>1. ASSUME NEW r \in S PROVE f[r] # <<>>
      <3>1. PICK x : f[r] = <<x>>
        BY <1>5, <2>1
      <3> QED BY SMT, <3>1
    <2>2. \A r \in Requests \ S : f[r] = agg.sent[r]
      BY <1>2
    <2>3. \A r \in Requests : Received(r)' <=> Received(r)
      BY DEF Received
    <2>4. agg'.sent = f
      BY <1>1
    <2>5. \A r \in Requests : r \in Open' <=> r \in Open \ S
      BY <2>1, <2>2, <2>3, <2>4 DEF Open
    <2>6. Open' \subseteq Requests /\ Open \subseteq Requests
      BY DEF Open
    <2> QED BY <2>5, <2>6
  <1>8. Ended' = Ended
    BY DEF Ended
  <1>9. S \subseteq Open /\ agg'.sent = f
    BY <1>1, <1>4
  <1>10. Service!AnswerAll(S)
    BY <1>6, <1>7, <1>8, <1>9 DEF Service!AnswerAll, Open, Ended
  <1> QED BY <1>3, <1>10

\* A step of the aggregator answers a batch, or only collects a result.
LEMMA AggregatorAnswers ==
  ASSUME NEW loc, Placed(loc), Collect \/ Tick \/ AggregatorExit
  PROVE  (\E S \in SUBSET Requests : Service!AnswerAll(S)) \/ UNCHANGED Service!vars
  <1>0. /\ Elsewhere(loc) /\ agg \in AggType /\ ChannelOK(loc, "ch", resultCh, handled)
        /\ ChannelOK(loc, "batch", agg.batch, handled) /\ SentOK(loc, agg.sent, handled)
    BY PlacedElsewhere
  <1>1. UNCHANGED <<str, handled>>
    BY DEF Collect, Tick, AggregatorExit
  <1>2. CASE Tick \/ AggregatorExit
    <2>1. PICK g : g = Flushed(agg.batch)
      OBVIOUS
    <2>2. g \in AggType
      BY <1>0, <2>1, FlushMoves
    <2>3. agg' = g \/ agg' = [g EXCEPT !.on = FALSE]
      BY <1>2, <2>1 DEF Tick, AggregatorExit
    <2>4. agg'.sent = g.sent
      BY <2>2, <2>3 DEF AggType
    <2> QED BY <1>0, <1>1, <2>1, <2>4, FlushAnswers
  <1>3. CASE Collect
    <2>1. PICK b : /\ b = Append(agg.batch, Head(resultCh))
                   /\ agg' = IF FullBatch(b) THEN Flushed(b) ELSE [agg EXCEPT !.batch = b]
      BY <1>3 DEF Collect
    <2>2. PICK mid : Elsewhere(mid) /\ ChannelOK(mid, "batch", b, handled)
                     /\ SentOK(mid, agg.sent, handled)
      BY <1>3, <2>1, Collected DEF Collect
    <2>3. CASE FullBatch(b)
      <3>1. agg'.sent = Flushed(b).sent
        BY <2>1, <2>3
      <3> QED BY <1>0, <1>1, <2>2, <3>1, FlushAnswers
    <2>4. CASE ~FullBatch(b)
      <3>1. agg'.sent = agg.sent
        BY <1>0, <2>1, <2>4 DEF AggType
      <3> QED BY <1>1, <3>1, Quiet
    <2> QED BY <2>3, <2>4
  <1> QED BY <1>2, <1>3

LEMMA ServiceStep == PInv /\ [Next]_vars => [Service!Next]_Service!vars
  <1> SUFFICES ASSUME PInv, [Next]_vars PROVE [Service!Next]_Service!vars
    OBVIOUS
  <1>0. IInv
    BY DEF PInv
  <1>1. PICK loc : Placed(loc)
    BY DEF PInv, Places
  <1>2. ASSUME NEW s \in Streams, Receive(s) PROVE Service!Next
    <2>1. \E S \in SUBSET Requests : Service!ArriveAll(s, S)
      BY <1>0, <1>1, <1>2, ReceiveArrives
    <2> QED BY <2>1 DEF Service!Next
  <1>3. ASSUME NEW s \in Streams, StreamEnd(s) PROVE Service!Next
    <2>1. Service!End(s)
      BY <1>0, <1>3, StreamEnds
    <2> QED BY <2>1 DEF Service!Next
  <1>4. ASSUME NEW s \in Streams, StreamNext(s) PROVE UNCHANGED Service!vars
    BY <1>0, <1>4, StreamQuiet
  <1>5. ASSUME NEW i \in Incs, Handle(i) PROVE Service!Next
    <2>1. \E r \in Requests : Service!Execute(r)
      BY <1>0, <1>1, <1>5, HandleExecutes
    <2> QED BY <2>1 DEF Service!Next
  <1>6. CASE Collect \/ Tick \/ AggregatorExit
    <2>1. (\E S \in SUBSET Requests : Service!AnswerAll(S)) \/ UNCHANGED Service!vars
      BY <1>1, <1>6, AggregatorAnswers
    <2>2. CASE \E S \in SUBSET Requests : Service!AnswerAll(S)
      <3>1. Service!Next
        BY <2>2 DEF Service!Next
      <3> QED BY <3>1
    <2> QED BY <2>1, <2>2
  <1>7. CASE UNCHANGED <<handled, agg, str>>
    BY <1>7, Quiet
  <1>8. ASSUME NEW i \in Incs, \/ Dequeue(i) \/ Emit(i) \/ Empty(i) \/ Wake(i)
                               \/ Drain(i) \/ DrainReply(i) \/ Passivate(i)
        PROVE  UNCHANGED <<handled, agg, str>>
    BY <1>8 DEF Dequeue, Emit, Empty, Wake, Drain, DrainReply, Passivate
  <1>9. CASE StopBegin \/ StopNext \/ Environment \/ UNCHANGED vars
    <2>1. UNCHANGED <<handled, agg, str>>
      BY <1>9 DEF StopBegin, StopNext, StopActor, StopClose, StopEnd,
             Environment, Move, Hold, Release, vars
    <2> QED BY <1>7, <2>1
  <1> QED BY <1>2, <1>3, <1>4, <1>5, <1>6, <1>7, <1>8, <1>9
         DEF Next, LoopNext, Environment

\* HandleBatch, the actors, the draining goroutines and the aggregator implement
\* NodeService: each of their steps is a step of it or is invisible there, for
\* any streams, requests, keys and bounds.
THEOREM NodeImplementsService == Spec => ImplementsService
  BY ServiceInit, ServiceStep, AlwaysPlaced, PTL DEF Spec, ImplementsService, Service!Spec

\* Retries, evictions and new actors never make the node execute a request a
\* second time.
THEOREM NeverHandledTwice == Spec => HandledOnce
  <1>1. PInv /\ [Next]_vars => [\A i \in Incs : Handle(i) => inc[i].cur.req \notin handled]_vars
    BY HandleExecutes DEF PInv, Places
  <1> QED BY <1>1, AlwaysPlaced, PTL DEF Spec, HandledOnce
=============================================================================
