----------------------------- MODULE NodePlaces -----------------------------
(***************************************************************************)
(* Proofs that a request is in one place of a Node from its arrival to its *)
(* answer, for any streams, requests, keys, batches and bounds.            *)
(*                                                                         *)
(* The proof keeps a function loc from requests to places and shows that   *)
(* every queue, channel and batch lists the requests that loc puts there,  *)
(* each once.  A step of the node moves one request, or all requests of a  *)
(* batch or of a mailbox, from one place to another.                       *)
(***************************************************************************)
EXTENDS NodeProofs, FiniteSetTheorems

\* The default prover; leaves with arithmetic, tuples or records name SMT.
USE Zenon

\* q lists the members of S, each once.
Lists(q, S) ==
  /\ \A n \in DOMAIN q : q[n] \in S
  /\ \A m, n \in DOMAIN q : q[m] = q[n] => m = n
  /\ \A r \in S : \E n \in DOMAIN q : q[n] = r

\* The requests of a sequence of results.
Reqs(q) == [n \in DOMAIN q |-> q[n].req]

\* The same for the requests of the batches a stream has still to receive.
ListsBatches(q, S) ==
  /\ \A b \in DOMAIN q : \A n \in DOMAIN q[b] : q[b][n] \in Requests => q[b][n] \in S
  /\ \A b, c \in DOMAIN q : \A m \in DOMAIN q[b], n \in DOMAIN q[c] :
       q[b][m] = q[c][n] /\ q[b][m] \in Requests => b = c /\ m = n
  /\ \A r \in S : \E b \in DOMAIN q : \E n \in DOMAIN q[b] : q[b][n] = r

LEMMA ListsGrow ==
  ASSUME NEW k \in Nat, NEW f, NEW g, NEW S, Lists(f, S), g[k + 1] \notin S,
         DOMAIN f = 1 .. k, DOMAIN g = 1 .. k + 1, \A n \in 1 .. k : g[n] = f[n]
  PROVE  Lists(g, S \cup {g[k + 1]})
  <1>1. /\ \A n \in 1 .. k + 1 : n \in 1 .. k \/ n = k + 1
        /\ \A n \in 1 .. k : n \in 1 .. k + 1
        /\ k + 1 \in 1 .. k + 1
    BY SMT
  <1>2. \A n \in DOMAIN g : g[n] \in S \cup {g[k + 1]}
    BY <1>1 DEF Lists
  <1>3. \A m, n \in DOMAIN g : g[m] = g[n] => m = n
    BY <1>1 DEF Lists
  <1>4. \A r \in S \cup {g[k + 1]} : \E n \in DOMAIN g : g[n] = r
    BY <1>1 DEF Lists
  <1> QED BY <1>2, <1>3, <1>4 DEF Lists

LEMMA ListsShrink ==
  ASSUME NEW k \in Nat, NEW f, NEW g, NEW S, Lists(f, S),
         DOMAIN f = 1 .. k + 1, DOMAIN g = 1 .. k, \A n \in 1 .. k : g[n] = f[n + 1]
  PROVE  f[1] \in S /\ Lists(g, S \ {f[1]})
  <1>1. /\ 1 \in 1 .. k + 1
        /\ \A n \in 1 .. k : n + 1 \in 1 .. k + 1 /\ n + 1 # 1
        /\ \A m, n \in 1 .. k : m + 1 = n + 1 => m = n
    BY SMT
  <1>2. \A n \in 1 .. k + 1 : n # 1 => \E m \in 1 .. k : n = m + 1
    <2> SUFFICES ASSUME NEW n \in 1 .. k + 1, n # 1 PROVE \E m \in 1 .. k : n = m + 1
      OBVIOUS
    <2>1. n - 1 \in 1 .. k /\ n = (n - 1) + 1
      BY SMT
    <2> QED BY <2>1
  <1>3. f[1] \in S
    BY <1>1 DEF Lists
  <1>4. \A n \in DOMAIN g : g[n] \in S \ {f[1]}
    BY SMT, <1>1 DEF Lists
  <1>5. \A m, n \in DOMAIN g : g[m] = g[n] => m = n
    BY SMTT(40), <1>1 DEF Lists
  <1>6. ASSUME NEW r \in S \ {f[1]} PROVE \E n \in DOMAIN g : g[n] = r
    <2>1. PICK n \in DOMAIN f : f[n] = r
      BY DEF Lists
    <2>2. PICK m \in 1 .. k : n = m + 1
      BY <1>2, <2>1
    <2> QED BY <2>1, <2>2
  <1> QED BY <1>3, <1>4, <1>5, <1>6 DEF Lists

LEMMA ListsNothing == \A S : Lists(<<>>, S) <=> S = {}
  BY SMT DEF Lists

LEMMA ListsAppend ==
  ASSUME NEW T, NEW q \in Seq(T), NEW S, NEW r \in T, r \notin S, Lists(q, S)
  PROVE  Append(q, r) \in Seq(T) /\ Lists(Append(q, r), S \cup {r})
  <1>1. /\ Append(q, r) \in Seq(T) /\ Len(q) \in Nat
        /\ DOMAIN q = 1 .. Len(q) /\ DOMAIN Append(q, r) = 1 .. Len(q) + 1
        /\ Append(q, r)[Len(q) + 1] = r
        /\ \A n \in 1 .. Len(q) : Append(q, r)[n] = q[n]
    BY SMT
  <1> QED BY <1>1, ListsGrow

LEMMA ListsTail ==
  ASSUME NEW T, NEW q \in Seq(T), NEW S, q # <<>>, Lists(q, S)
  PROVE  Tail(q) \in Seq(T) /\ Head(q) \in S /\ Lists(Tail(q), S \ {Head(q)})
  <1>1. PICK k \in Nat : Len(q) = k + 1
    <2>1. Len(q) - 1 \in Nat /\ Len(q) = (Len(q) - 1) + 1
      BY SMT
    <2> QED BY <2>1
  <1>2. /\ Tail(q) \in Seq(T) /\ Head(q) = q[1]
        /\ DOMAIN q = 1 .. k + 1 /\ DOMAIN Tail(q) = 1 .. k
        /\ \A n \in 1 .. k : Tail(q)[n] = q[n + 1]
    BY SMT, <1>1
  <1>3. q[1] \in S /\ Lists(Tail(q), S \ {q[1]})
    BY <1>2, ListsShrink
  <1> QED BY <1>2, <1>3

LEMMA ResultsAppend ==
  ASSUME NEW q \in Seq(Results), NEW S, NEW r \in Results, r.req \notin S, Lists(Reqs(q), S)
  PROVE  Append(q, r) \in Seq(Results) /\ Lists(Reqs(Append(q, r)), S \cup {r.req})
  <1>1. /\ Append(q, r) \in Seq(Results) /\ Len(q) \in Nat
        /\ DOMAIN q = 1 .. Len(q) /\ DOMAIN Append(q, r) = 1 .. Len(q) + 1
        /\ Append(q, r)[Len(q) + 1] = r
        /\ \A n \in 1 .. Len(q) : Append(q, r)[n] = q[n]
    BY SMT
  <1>2. PICK f, g : f = Reqs(q) /\ g = Reqs(Append(q, r))
    OBVIOUS
  <1>3. \A n \in 1 .. Len(q) : n \in 1 .. Len(q) + 1
    BY SMT
  <1>4. /\ DOMAIN f = 1 .. Len(q) /\ DOMAIN g = 1 .. Len(q) + 1
        /\ g[Len(q) + 1] = r.req /\ \A n \in 1 .. Len(q) : g[n] = f[n]
    BY SMT, <1>1, <1>2, <1>3 DEF Reqs
  <1> QED BY <1>1, <1>2, <1>4, ListsGrow

LEMMA ResultsTail ==
  ASSUME NEW q \in Seq(Results), NEW S, q # <<>>, Lists(Reqs(q), S)
  PROVE  /\ Tail(q) \in Seq(Results) /\ Head(q) \in Results /\ Head(q).req \in S
         /\ Lists(Reqs(Tail(q)), S \ {Head(q).req})
  <1>1. PICK k \in Nat : Len(q) = k + 1
    <2>1. Len(q) - 1 \in Nat /\ Len(q) = (Len(q) - 1) + 1
      BY SMT
    <2> QED BY <2>1
  <1>2. /\ Tail(q) \in Seq(Results) /\ Head(q) = q[1] /\ Head(q) \in Results
        /\ DOMAIN q = 1 .. k + 1 /\ DOMAIN Tail(q) = 1 .. k
        /\ \A n \in 1 .. k : Tail(q)[n] = q[n + 1]
    BY SMT, <1>1
  <1>3. PICK f, g : f = Reqs(q) /\ g = Reqs(Tail(q))
    OBVIOUS
  <1>4. 1 \in 1 .. k + 1 /\ \A n \in 1 .. k : n + 1 \in 1 .. k + 1
    BY SMT
  <1>5. /\ DOMAIN f = 1 .. k + 1 /\ DOMAIN g = 1 .. k
        /\ f[1] = Head(q).req /\ \A n \in 1 .. k : g[n] = f[n + 1]
    BY <1>2, <1>3, <1>4 DEF Reqs
  <1>6. f[1] \in S /\ Lists(g, S \ {f[1]})
    BY <1>3, <1>5, ListsShrink
  <1> QED BY <1>2, <1>3, <1>5, <1>6
-----------------------------------------------------------------------------
(* Places.                                                                 *)

StreamPlaces == {"left", "todo", "put"}
ActorPlaces == {"queue", "busy", "emit", "list"}
ResultPlaces == {"ch", "batch", "sent"}

Where ==
  (StreamPlaces \X Streams) \cup (ActorPlaces \X Incs) \cup (ResultPlaces \X {None})

Here(loc, l, x) == {r \in Requests : loc[r] = <<l, x>>}

\* put: the envelope HandleBatch is busy with, once its route is stored.
StreamOK(loc, s, x) ==
  /\ ListsBatches(x.left, Here(loc, "left", s))
  /\ Lists(x.todo, Here(loc, "todo", s) \cup Here(loc, "put", s))
  /\ Here(loc, "put", s) = IF x.pc \in {"put", "undo"} THEN {Head(x.todo)} ELSE {}
  /\ x.pc \in {"recv", "ended"} => x.todo = <<>>
  /\ \A l \in StreamPlaces : \A r \in Here(loc, l, s) : StreamOf(r) = s

ActorOK(loc, i, x) ==
  /\ Lists(x.queue, Here(loc, "queue", i))
  /\ Lists(x.list, Here(loc, "list", i))
  /\ Here(loc, "busy", i) = IF x.pc = "busy" THEN {x.cur.req} ELSE {}
  /\ Here(loc, "emit", i) = IF x.pc = "emit" THEN {x.cur.req} ELSE {}
  /\ x.pc = "emit" => x.cur.code = "handled" /\ x.cur.to = StreamOf(x.cur.req)
  /\ x.drain # "reply" => x.list = <<>>

\* The code of a result tells whether an actor has executed the request.
Honest(q, done) == q.code = IF q.req \in done THEN "handled" ELSE "refused"

ChannelOK(loc, l, q, done) ==
  /\ q \in Seq(Results)
  /\ Lists(Reqs(q), Here(loc, l, None))
  /\ \A n \in DOMAIN q : q[n].to = StreamOf(q[n].req) /\ Honest(q[n], done)

SentOK(loc, sent, done) ==
  \A r \in Requests :
    IF r \in Here(loc, "sent", None)
    THEN \E q \in Results : /\ sent[r] = <<q>> /\ q.req = r
                            /\ q.to \in {StreamOf(r), None} /\ Honest(q, done)
    ELSE sent[r] = <<>>

RoutedPlaces == {"put", "queue", "busy", "list"}
AnsweredPlaces == {"emit", "ch", "batch", "sent"}

RoutesFit(loc, rt) ==
  /\ DOMAIN rt = {r \in Requests : loc[r][1] \in RoutedPlaces}
  /\ \A r \in DOMAIN rt : rt[r] = StreamOf(r)

HandledFit(loc, done) == done \subseteq {r \in Requests : loc[r][1] \in AnsweredPlaces}

AggType == [on: BOOLEAN, batch: Seq(Results), sent: [Requests -> Seq(Results)]]

Placed(loc) ==
  /\ loc \in [Requests -> Where]
  /\ \A s \in Streams : StreamOK(loc, s, str[s])
  /\ \A i \in Incs : ActorOK(loc, i, inc[i])
  /\ agg \in AggType
  /\ ChannelOK(loc, "ch", resultCh, handled)
  /\ ChannelOK(loc, "batch", agg.batch, handled)
  /\ SentOK(loc, agg.sent, handled)
  /\ RoutesFit(loc, routes)
  /\ HandledFit(loc, handled)

Places == \E loc \in [Requests -> Where] : Placed(loc)

\* The requests R go to the place b of y.
Moved(loc, R, b, y) == [r \in Requests |-> IF r \in R THEN <<b, y>> ELSE loc[r]]

\* A move changes the two places only.
LEMMA MovedHere ==
  ASSUME NEW loc \in [Requests -> Where], NEW a, NEW x, NEW b, NEW y, <<b, y>> \in Where,
         a # b \/ x # y, NEW R, R \subseteq Here(loc, a, x)
  PROVE  /\ Moved(loc, R, b, y) \in [Requests -> Where]
         /\ Here(Moved(loc, R, b, y), b, y) = Here(loc, b, y) \cup R
         /\ Here(Moved(loc, R, b, y), a, x) = Here(loc, a, x) \ R
         /\ \A l, z : (l # a \/ z # x) /\ (l # b \/ z # y) =>
              Here(Moved(loc, R, b, y), l, z) = Here(loc, l, z)
  <1>1. PICK to : to = Moved(loc, R, b, y)
    OBVIOUS
  <1>2. to \in [Requests -> Where]
    BY <1>1 DEF Moved
  <1>3. \A r \in Requests : to[r] = IF r \in R THEN <<b, y>> ELSE loc[r]
    BY <1>1 DEF Moved
  <1>4. R \subseteq Requests /\ \A r \in R : loc[r] = <<a, x>>
    BY DEF Here
  <1>5. Here(to, b, y) = Here(loc, b, y) \cup R
    BY <1>3, <1>4 DEF Here
  <1>6. Here(to, a, x) = Here(loc, a, x) \ R
    BY SMT, <1>3, <1>4 DEF Here
  <1>7. ASSUME NEW l, NEW z, l # a \/ z # x, l # b \/ z # y PROVE Here(to, l, z) = Here(loc, l, z)
    BY SMT, <1>3, <1>4, <1>7 DEF Here
  <1> QED BY <1>1, <1>2, <1>5, <1>6, <1>7

LEMMA MoveKeeps ==
  ASSUME NEW loc, Placed(loc), NEW a, NEW x, NEW b, NEW y, <<b, y>> \in Where,
         a # b \/ x # y, NEW R, R \subseteq Here(loc, a, x),
         NEW to, to = Moved(loc, R, b, y)
  PROVE  /\ to \in [Requests -> Where]
         /\ \A s \in Streams :
              (a \in StreamPlaces => x # s) /\ (b \in StreamPlaces => y # s)
                => StreamOK(to, s, str[s])
         /\ \A i \in Incs :
              (a \in ActorPlaces => x # i) /\ (b \in ActorPlaces => y # i)
                => ActorOK(to, i, inc[i])
         /\ \A l \in ResultPlaces : \A q, done :
              l # a /\ l # b /\ ChannelOK(loc, l, q, done) => ChannelOK(to, l, q, done)
         /\ "sent" \notin {a, b} => SentOK(to, agg.sent, handled)
         /\ (a \in RoutedPlaces <=> b \in RoutedPlaces) => RoutesFit(to, routes)
         /\ (a \in AnsweredPlaces => b \in AnsweredPlaces) => HandledFit(to, handled)
  <1>0. loc \in [Requests -> Where] /\ R \subseteq Requests
    BY DEF Placed, Here
  <1>1. /\ to \in [Requests -> Where]
        /\ \A l, z : (l # a \/ z # x) /\ (l # b \/ z # y) => Here(to, l, z) = Here(loc, l, z)
    BY SMT, <1>0, MovedHere
  <1>2. \A r \in Requests : IF r \in R THEN to[r] = <<b, y>> /\ loc[r] = <<a, x>>
                            ELSE to[r] = loc[r]
    BY DEF Moved, Here
  <1>3. ASSUME NEW s \in Streams, a \in StreamPlaces => x # s, b \in StreamPlaces => y # s
        PROVE  StreamOK(to, s, str[s])
    <2>1. \A l \in StreamPlaces : Here(to, l, s) = Here(loc, l, s)
      BY <1>1, <1>3
    <2>2. StreamOK(loc, s, str[s])
      BY DEF Placed
    <2> QED BY <2>1, <2>2 DEF StreamOK, StreamPlaces
  <1>4. ASSUME NEW i \in Incs, a \in ActorPlaces => x # i, b \in ActorPlaces => y # i
        PROVE  ActorOK(to, i, inc[i])
    <2>1. \A l \in ActorPlaces : Here(to, l, i) = Here(loc, l, i)
      BY <1>1, <1>4
    <2>2. ActorOK(loc, i, inc[i])
      BY DEF Placed
    <2> QED BY <2>1, <2>2 DEF ActorOK, ActorPlaces
  <1>5. ASSUME NEW l \in ResultPlaces, NEW q, NEW done, l # a, l # b, ChannelOK(loc, l, q, done)
        PROVE  ChannelOK(to, l, q, done)
    BY <1>1, <1>5 DEF ChannelOK
  <1>6. ASSUME "sent" \notin {a, b} PROVE SentOK(to, agg.sent, handled)
    <2>1. Here(to, "sent", None) = Here(loc, "sent", None)
      BY <1>1, <1>6
    <2> QED BY <2>1 DEF Placed, SentOK
  <1>7. ASSUME a \in RoutedPlaces <=> b \in RoutedPlaces PROVE RoutesFit(to, routes)
    <2>1. \A r \in Requests : to[r][1] \in RoutedPlaces <=> loc[r][1] \in RoutedPlaces
      BY SMT, <1>2, <1>7
    <2> QED BY <2>1 DEF Placed, RoutesFit
  <1>8. ASSUME a \in AnsweredPlaces => b \in AnsweredPlaces PROVE HandledFit(to, handled)
    <2>1. \A r \in Requests : loc[r][1] \in AnsweredPlaces => to[r][1] \in AnsweredPlaces
      BY SMT, <1>2, <1>8
    <2> QED BY <2>1 DEF Placed, HandledFit
  <1> QED BY <1>1, <1>3, <1>4, <1>5, <1>6, <1>7, <1>8
-----------------------------------------------------------------------------
(* StreamMessages and HandleBatch move a request.                          *)

\* The first batch is received.
LEMMA BatchesTail ==
  ASSUME NEW q \in Seq(Batch), NEW S, q # <<>>, Head(q) \in Seq(Requests), ListsBatches(q, S),
         NEW R, R = Elements(Head(q))
  PROVE  /\ R \subseteq S /\ Lists(Head(q), R)
         /\ Tail(q) \in Seq(Batch) /\ ListsBatches(Tail(q), S \ R)
  <1>1. PICK k \in Nat : Len(q) = k + 1
    <2>1. Len(q) - 1 \in Nat /\ Len(q) = (Len(q) - 1) + 1
      BY SMT
    <2> QED BY <2>1
  <1>2. /\ Tail(q) \in Seq(Batch) /\ Head(q) = q[1]
        /\ DOMAIN q = 1 .. k + 1 /\ DOMAIN Tail(q) = 1 .. k
        /\ \A n \in 1 .. k : Tail(q)[n] = q[n + 1]
    BY SMT, <1>1
  <1>3. PICK p, f : p = Tail(q) /\ f = Head(q)
    OBVIOUS
  <1>4. /\ 1 \in DOMAIN q /\ f = q[1] /\ DOMAIN p = 1 .. k
        /\ \A n \in 1 .. k : n + 1 \in DOMAIN q /\ n + 1 # 1 /\ p[n] = q[n + 1]
        /\ \A m, n \in 1 .. k : m + 1 = n + 1 => m = n
    BY SMT, <1>2, <1>3
  <1>5. \A n \in DOMAIN f : f[n] \in Requests
    BY SMT, <1>3
  <1>6. \A n \in DOMAIN q : n # 1 => \E m \in 1 .. k : n = m + 1
    <2> SUFFICES ASSUME NEW n \in DOMAIN q, n # 1 PROVE \E m \in 1 .. k : n = m + 1
      OBVIOUS
    <2>1. n - 1 \in 1 .. k /\ n = (n - 1) + 1
      BY SMT, <1>2
    <2> QED BY <2>1
  <1>7. R \subseteq S /\ Lists(f, R)
    BY SMT, <1>3, <1>4, <1>5 DEF ListsBatches, Lists, Elements
  <1>8. ListsBatches(p, S \ R)
    <2>1. ASSUME NEW b \in DOMAIN p, NEW n \in DOMAIN p[b], p[b][n] \in Requests
          PROVE  p[b][n] \in S \ R
      <3>1. p[b][n] \in S
        BY <1>4, <2>1 DEF ListsBatches
      <3>2. ASSUME p[b][n] \in R PROVE FALSE
        <4>1. PICK m \in DOMAIN f : f[m] = p[b][n]
          BY <1>3, <3>2 DEF Elements
        <4> QED BY SMT, <1>4, <2>1, <4>1 DEF ListsBatches
      <3> QED BY <3>1, <3>2
    <2>2. ASSUME NEW b \in DOMAIN p, NEW c \in DOMAIN p, NEW m \in DOMAIN p[b], NEW n \in DOMAIN p[c],
                 p[b][m] = p[c][n], p[b][m] \in Requests
          PROVE  b = c /\ m = n
      <3>1. b + 1 = c + 1 /\ m = n
        BY SMT, <1>4, <2>2 DEF ListsBatches
      <3> QED BY <1>4, <3>1
    <2>3. ASSUME NEW r \in S \ R PROVE \E b \in DOMAIN p : \E n \in DOMAIN p[b] : p[b][n] = r
      <3>1. PICK b \in DOMAIN q : \E n \in DOMAIN q[b] : q[b][n] = r
        BY DEF ListsBatches
      <3>2. b # 1
        BY SMT, <1>3, <1>4, <3>1 DEF Elements
      <3>3. PICK m \in 1 .. k : b = m + 1
        BY <1>6, <3>2
      <3>4. m \in DOMAIN p /\ p[m] = q[b]
        BY <1>4, <3>3
      <3> QED BY <3>1, <3>4
    <2> QED BY SMT, <2>1, <2>2, <2>3 DEF ListsBatches
  <1> QED BY <1>2, <1>3, <1>7, <1>8

\* What is known of one stream.
LEMMA StreamFacts ==
  ASSUME IInv, NEW loc, Placed(loc), NEW s \in Streams
  PROVE  /\ str[s] \in StrType /\ str[s].todo \in Seq(Requests) /\ str[s].left \in Seq(Batch)
         /\ StreamOK(loc, s, str[s]) /\ loc \in [Requests -> Where]
         /\ str[s].pc \notin {"recv", "ended"} => str[s].todo # <<>>
  BY DEF IInv, RecordsOK, StrType, Placed, StreamKnows

\* A request moves within its stream.
LEMMA WithinStream ==
  ASSUME NEW loc, Placed(loc), NEW s \in Streams, NEW a \in StreamPlaces, NEW b \in StreamPlaces,
         a # b, NEW R, R \subseteq Here(loc, a, s), NEW to, to = Moved(loc, R, b, s),
         StreamOK(to, s, str'[s]), RoutesFit(to, routes'),
         \A t \in Streams \ {s} : str'[t] = str[t],
         UNCHANGED <<inc, resultCh, agg, handled>>
  PROVE  Places'
  <1>1. <<b, s>> \in Where
    BY DEF Where
  <1>2. /\ a \notin ActorPlaces /\ b \notin ActorPlaces
        /\ \A l \in ResultPlaces : l # a /\ l # b
        /\ a \notin AnsweredPlaces
    BY DEF StreamPlaces, ActorPlaces, ResultPlaces, AnsweredPlaces
  <1>3. /\ to \in [Requests -> Where]
        /\ \A t \in Streams \ {s} : StreamOK(to, t, str[t])
        /\ \A i \in Incs : ActorOK(to, i, inc[i])
        /\ \A l \in ResultPlaces : \A q, done : ChannelOK(loc, l, q, done) => ChannelOK(to, l, q, done)
        /\ SentOK(to, agg.sent, handled) /\ HandledFit(to, handled)
    BY SMT, <1>1, <1>2, MoveKeeps DEF ResultPlaces
  <1>4. ChannelOK(to, "ch", resultCh, handled) /\ ChannelOK(to, "batch", agg.batch, handled)
        /\ agg \in AggType
    BY <1>3 DEF Placed, ResultPlaces
  <1>5. Placed(to)'
    BY <1>3, <1>4 DEF Placed
  <1> QED BY <1>3, <1>5 DEF Places

LEMMA ReceiveMoves ==
  ASSUME IInv, NEW loc, Placed(loc), NEW s \in Streams, Receive(s)
  PROVE  Places'
  <1>0. PICK b : b = Head(str[s].left)
    OBVIOUS
  <1>1. /\ str[s] \in StrType /\ str[s].left \in Seq(Batch) /\ loc \in [Requests -> Where]
        /\ StreamOK(loc, s, str[s]) /\ str[s].todo = <<>> /\ str[s].left # <<>>
    BY StreamFacts DEF Receive, StreamOK
  <1>2. b \in Seq(Requests)
    BY SMT, <1>0, <1>1 DEF Receive, Batch
  <1>3. PICK R : R = Elements(b)
    OBVIOUS
  <1>4. /\ R \subseteq Here(loc, "left", s) /\ Lists(b, R)
        /\ ListsBatches(Tail(str[s].left), Here(loc, "left", s) \ R)
    BY <1>0, <1>1, <1>2, <1>3, BatchesTail DEF StreamOK
  <1>5. <<"todo", s>> \in Where
    BY DEF Where, StreamPlaces
  <1>6. PICK to : to = Moved(loc, R, "todo", s)
    OBVIOUS
  <1>7. /\ Here(to, "todo", s) = Here(loc, "todo", s) \cup R
        /\ Here(to, "left", s) = Here(loc, "left", s) \ R
        /\ Here(to, "put", s) = Here(loc, "put", s)
    BY SMTT(40), <1>1, <1>4, <1>5, <1>6, MovedHere
  <1>8. Here(loc, "todo", s) = {} /\ Here(loc, "put", s) = {}
    <2>1. Lists(<<>>, Here(loc, "todo", s) \cup Here(loc, "put", s))
      BY <1>1 DEF StreamOK
    <2> QED BY <2>1, ListsNothing
  <1>9. /\ str'[s].left = Tail(str[s].left) /\ str'[s].todo = b
        /\ str'[s].pc \in {"reply", "check"}
        /\ \A t \in Streams \ {s} : str'[t] = str[t]
    BY <1>0, <1>1 DEF Receive, StrType, IInv, RecordsOK
  <1>10. StreamOK(to, s, str'[s])
    <2>1. \A l \in StreamPlaces : \A r \in Here(to, l, s) : StreamOf(r) = s
      BY <1>1, <1>4, <1>7, <1>8 DEF StreamOK, StreamPlaces
    <2>2. Here(to, "todo", s) \cup Here(to, "put", s) = R
      BY <1>7, <1>8
    <2> QED BY <1>4, <1>7, <1>8, <1>9, <2>1, <2>2 DEF StreamOK
  <1>11. UNCHANGED <<inc, resultCh, agg, routes, handled>>
    BY DEF Receive
  <1>12. RoutesFit(to, routes')
    BY SMT, <1>4, <1>5, <1>6, <1>11, MoveKeeps DEF RoutedPlaces
  <1> QED BY <1>4, <1>6, <1>9, <1>10, <1>11, <1>12, WithinStream DEF StreamPlaces

\* The route is stored.
LEMMA RouteMoves ==
  ASSUME IInv, NEW loc, Placed(loc), NEW s \in Streams, Route(s)
  PROVE  Places'
  <1>0. PICK r : r = Head(str[s].todo)
    OBVIOUS
  <1>1. /\ str[s] \in StrType /\ loc \in [Requests -> Where] /\ StreamOK(loc, s, str[s])
        /\ str[s].todo # <<>> /\ str[s].todo \in Seq(Requests) /\ str[s].pc = "route"
    BY StreamFacts DEF Route
  <1>2. Here(loc, "put", s) = {} /\ r \in Here(loc, "todo", s) /\ r \in Requests
    <2>1. Here(loc, "put", s) = {} /\ Lists(str[s].todo, Here(loc, "todo", s) \cup Here(loc, "put", s))
      BY <1>1 DEF StreamOK
    <2>2. r \in Here(loc, "todo", s) \cup Here(loc, "put", s)
      BY <1>0, <1>1, <2>1, ListsTail
    <2> QED BY <2>1, <2>2 DEF Here
  <1>3. PICK to : to = Moved(loc, {r}, "put", s)
    OBVIOUS
  <1>4. <<"put", s>> \in Where
    BY DEF Where, StreamPlaces
  <1>5. /\ Here(to, "put", s) = Here(loc, "put", s) \cup {r}
        /\ Here(to, "todo", s) = Here(loc, "todo", s) \ {r}
        /\ Here(to, "left", s) = Here(loc, "left", s)
    BY SMT, <1>1, <1>2, <1>3, <1>4, MovedHere
  <1>6. /\ str'[s].left = str[s].left /\ str'[s].todo = str[s].todo /\ str'[s].pc \in {"put", "undo"}
        /\ \A t \in Streams \ {s} : str'[t] = str[t]
    BY <1>1 DEF Route, Goto, StrType, IInv, RecordsOK
  <1>7. StreamOK(to, s, str'[s])
    <2>1. \A l \in StreamPlaces : \A x \in Here(to, l, s) : StreamOf(x) = s
      BY <1>1, <1>2, <1>5 DEF StreamOK, StreamPlaces
    <2>2. Here(to, "todo", s) \cup Here(to, "put", s) = Here(loc, "todo", s) \cup Here(loc, "put", s)
      BY <1>2, <1>5
    <2>3. Here(to, "put", s) = {Head(str'[s].todo)}
      BY <1>0, <1>2, <1>5, <1>6
    <2> QED BY <1>1, <1>5, <1>6, <2>1, <2>2, <2>3 DEF StreamOK
  <1>8. RoutesFit(to, routes')
    <2>1. \A x \in Requests : to[x][1] = IF x = r THEN "put" ELSE loc[x][1]
      BY <1>3 DEF Moved
    <2>2. StreamOf(r) = s
      BY <1>1, <1>2 DEF StreamOK, StreamPlaces
    <2>3. routes' = [x \in DOMAIN routes \cup {r} |-> IF x = r THEN s ELSE routes[x]]
      BY <1>0 DEF Route, Req
    <2>4. DOMAIN routes = {x \in Requests : loc[x][1] \in RoutedPlaces}
          /\ \A x \in DOMAIN routes : routes[x] = StreamOf(x)
      BY DEF Placed, RoutesFit
    <2> QED BY SMT, <1>2, <2>1, <2>2, <2>3, <2>4 DEF RoutesFit, RoutedPlaces
  <1> QED BY <1>2, <1>3, <1>6, <1>7, <1>8, WithinStream DEF StreamPlaces, Route

\* The route is forgotten after a failed Send.
LEMMA UndoMoves ==
  ASSUME IInv, NEW loc, Placed(loc), NEW s \in Streams, Undo(s)
  PROVE  Places'
  <1>0. PICK r : r = Head(str[s].todo)
    OBVIOUS
  <1>1. /\ str[s] \in StrType /\ loc \in [Requests -> Where] /\ StreamOK(loc, s, str[s])
        /\ str[s].todo # <<>> /\ str[s].todo \in Seq(Requests) /\ str[s].pc = "undo"
    BY StreamFacts DEF Undo
  <1>2. Here(loc, "put", s) = {r} /\ r \in Requests
    <2>1. Here(loc, "put", s) = {r}
      BY <1>0, <1>1 DEF StreamOK
    <2> QED BY <2>1 DEF Here
  <1>3. PICK to : to = Moved(loc, {r}, "todo", s)
    OBVIOUS
  <1>4. <<"todo", s>> \in Where
    BY DEF Where, StreamPlaces
  <1>5. /\ Here(to, "todo", s) = Here(loc, "todo", s) \cup {r}
        /\ Here(to, "put", s) = Here(loc, "put", s) \ {r}
        /\ Here(to, "left", s) = Here(loc, "left", s)
    BY SMT, <1>1, <1>2, <1>3, <1>4, MovedHere
  <1>6. /\ str'[s].left = str[s].left /\ str'[s].todo = str[s].todo /\ str'[s].pc = "lookup"
        /\ \A t \in Streams \ {s} : str'[t] = str[t]
    BY <1>1 DEF Undo, Goto, StrType, IInv, RecordsOK
  <1>7. StreamOK(to, s, str'[s])
    <2>1. \A l \in StreamPlaces : \A x \in Here(to, l, s) : StreamOf(x) = s
      BY <1>1, <1>2, <1>5 DEF StreamOK, StreamPlaces
    <2>2. Here(to, "todo", s) \cup Here(to, "put", s) = Here(loc, "todo", s) \cup Here(loc, "put", s)
      BY <1>2, <1>5
    <2>3. Here(to, "put", s) = {}
      BY <1>2, <1>5
    <2> QED BY <1>1, <1>5, <1>6, <2>1, <2>2, <2>3 DEF StreamOK
  <1>8. RoutesFit(to, routes')
    <2>1. \A x \in Requests : to[x][1] = IF x = r THEN "todo" ELSE loc[x][1]
      BY <1>3 DEF Moved
    <2>2. routes' = [x \in DOMAIN routes \ {r} |-> routes[x]]
      BY <1>0 DEF Undo, Req, RoutesAfterUndo, Without
    <2>3. DOMAIN routes = {x \in Requests : loc[x][1] \in RoutedPlaces}
          /\ \A x \in DOMAIN routes : routes[x] = StreamOf(x)
      BY DEF Placed, RoutesFit
    <2> QED BY <1>2, <2>1, <2>2, <2>3 DEF RoutesFit, RoutedPlaces
  <1> QED BY <1>2, <1>3, <1>6, <1>7, <1>8, WithinStream DEF StreamPlaces, Undo

\* HandleBatch is done with an envelope, whose request is not with it any more.
LEMMA EnvelopeDone ==
  ASSUME IInv, NEW loc, Placed(loc), NEW s \in Streams, NextEnvelope(s),
         str[s].pc \notin {"recv", "ended"}, NEW to,
         Here(to, "left", s) = Here(loc, "left", s), Here(to, "put", s) = {},
         Here(to, "todo", s) =
           (Here(loc, "todo", s) \cup Here(loc, "put", s)) \ {Head(str[s].todo)}
  PROVE  StreamOK(to, s, str'[s]) /\ \A t \in Streams \ {s} : str'[t] = str[t]
  <1>1. /\ str[s] \in StrType /\ StreamOK(loc, s, str[s])
        /\ str[s].todo # <<>> /\ str[s].todo \in Seq(Requests)
    BY StreamFacts
  <1>2. PICK rest : rest = Tail(str[s].todo)
    OBVIOUS
  <1>3. /\ str'[s].left = str[s].left /\ str'[s].todo = rest
        /\ str'[s].pc \in {"recv", "reply", "check"} /\ (str'[s].pc = "recv" => rest = <<>>)
        /\ \A t \in Streams \ {s} : str'[t] = str[t]
    <2>1. str' = [str EXCEPT ![s] = str'[s]]
      BY DEF NextEnvelope, IInv, RecordsOK
    <2> QED BY <1>1, <1>2, <2>1 DEF NextEnvelope, StrType, IInv, RecordsOK
  <1>4. Lists(rest, Here(to, "todo", s) \cup Here(to, "put", s))
    <2>1. Lists(rest, (Here(loc, "todo", s) \cup Here(loc, "put", s)) \ {Head(str[s].todo)})
      BY <1>1, <1>2, ListsTail DEF StreamOK
    <2> QED BY <2>1
  <1>5. \A l \in StreamPlaces : \A x \in Here(to, l, s) : StreamOf(x) = s
    BY <1>1 DEF StreamOK, StreamPlaces
  <1> QED BY <1>1, <1>3, <1>4, <1>5 DEF StreamOK

\* A result is added to the channel or to the batch.
LEMMA ResultIn ==
  ASSUME NEW loc, NEW l, NEW q, NEW done, ChannelOK(loc, l, q, done), NEW z \in Results,
         z.req \notin Here(loc, l, None), z.to = StreamOf(z.req), Honest(z, done),
         NEW to, Here(to, l, None) = Here(loc, l, None) \cup {z.req}
  PROVE  ChannelOK(to, l, Append(q, z), done)
  <1>1. /\ q \in Seq(Results) /\ Lists(Reqs(q), Here(loc, l, None))
        /\ \A n \in DOMAIN q : q[n].to = StreamOf(q[n].req) /\ Honest(q[n], done)
    BY DEF ChannelOK
  <1>2. Append(q, z) \in Seq(Results) /\ Lists(Reqs(Append(q, z)), Here(to, l, None))
    BY SMT, <1>1, ResultsAppend
  <1>3. \A n \in DOMAIN Append(q, z) : (n \in DOMAIN q /\ Append(q, z)[n] = q[n]) \/ Append(q, z)[n] = z
    BY SMT, <1>1
  <1> QED BY <1>1, <1>2, <1>3 DEF ChannelOK

\* HandleBatch refuses a request itself.
LEMMA ReplyMoves ==
  ASSUME IInv, NEW loc, Placed(loc), NEW s \in Streams, Reply(s)
  PROVE  Places'
  <1>0. PICK r, z : r = Head(str[s].todo) /\ z = Result(r, s, "refused")
    OBVIOUS
  <1>1. /\ str[s] \in StrType /\ loc \in [Requests -> Where] /\ StreamOK(loc, s, str[s])
        /\ str[s].todo # <<>> /\ str[s].todo \in Seq(Requests) /\ str[s].pc = "reply"
    BY StreamFacts DEF Reply
  <1>2. Here(loc, "put", s) = {} /\ r \in Here(loc, "todo", s) /\ r \in Requests
    <2>1. Here(loc, "put", s) = {} /\ Lists(str[s].todo, Here(loc, "todo", s) \cup Here(loc, "put", s))
      BY <1>1 DEF StreamOK
    <2>2. r \in Here(loc, "todo", s) \cup Here(loc, "put", s)
      BY <1>0, <1>1, <2>1, ListsTail
    <2> QED BY <2>1, <2>2 DEF Here
  <1>3. PICK to : to = Moved(loc, {r}, "ch", None)
    OBVIOUS
  <1>4. <<"ch", None>> \in Where
    BY DEF Where, ResultPlaces
  <1>5. /\ Here(to, "ch", None) = Here(loc, "ch", None) \cup {r}
        /\ Here(to, "todo", s) = Here(loc, "todo", s) \ {r}
        /\ Here(to, "left", s) = Here(loc, "left", s)
        /\ Here(to, "put", s) = Here(loc, "put", s)
    BY SMT, <1>1, <1>2, <1>3, <1>4, MovedHere
  <1>6. StreamOK(to, s, str'[s]) /\ \A t \in Streams \ {s} : str'[t] = str[t]
    BY SMT, <1>0, <1>1, <1>2, <1>5, EnvelopeDone DEF Reply
  <1>7. ChannelOK(to, "ch", resultCh', handled)
    <2>1. z \in Results /\ z.req = r /\ z.to = s /\ z.code = "refused"
      BY <1>0, <1>2 DEF Result, Results
    <2>2. StreamOf(r) = s /\ loc[r] = <<"todo", s>>
      BY <1>1, <1>2 DEF StreamOK, StreamPlaces, Here
    <2>3. r \notin handled /\ r \notin Here(loc, "ch", None)
      BY SMT, <2>2 DEF Placed, HandledFit, AnsweredPlaces, Here
    <2>4. resultCh' = Append(resultCh, z)
      BY <1>0 DEF Reply, Push, Req
    <2> QED BY <1>5, <2>1, <2>2, <2>3, <2>4, ResultIn DEF Placed, Honest
  <1>8. /\ to \in [Requests -> Where]
        /\ \A t \in Streams \ {s} : StreamOK(to, t, str[t])
        /\ \A i \in Incs : ActorOK(to, i, inc[i])
        /\ ChannelOK(to, "batch", agg.batch, handled)
        /\ SentOK(to, agg.sent, handled) /\ RoutesFit(to, routes) /\ HandledFit(to, handled)
        /\ agg \in AggType
    BY SMTT(40), <1>2, <1>3, <1>4, MoveKeeps
       DEF StreamPlaces, ActorPlaces, ResultPlaces, RoutedPlaces, AnsweredPlaces, Placed
  <1>9. UNCHANGED <<inc, agg, routes, handled>>
    BY DEF Reply
  <1>10. Placed(to)'
    BY <1>6, <1>7, <1>8, <1>9 DEF Placed
  <1> QED BY <1>8, <1>10 DEF Places

\* What is known of one actor.
LEMMA ActorFacts ==
  ASSUME IInv, NEW loc, Placed(loc), NEW i \in Incs
  PROVE  /\ inc[i] \in IncType /\ inc[i].queue \in Seq(Requests) /\ inc[i].list \in Seq(Requests)
         /\ inc[i].cur \in Results /\ ActorOK(loc, i, inc[i]) /\ loc \in [Requests -> Where]
  BY DEF IInv, RecordsOK, IncType, Placed

\* Send queues the request.
LEMMA PutMoves ==
  ASSUME IInv, NEW loc, Placed(loc), NEW s \in Streams, Put(s)
  PROVE  Places'
  <1>0. PICK r, i : r = Head(str[s].todo) /\ i = Act(s)
    OBVIOUS
  <1>1. /\ str[s] \in StrType /\ loc \in [Requests -> Where] /\ StreamOK(loc, s, str[s])
        /\ str[s].todo # <<>> /\ str[s].todo \in Seq(Requests) /\ str[s].pc = "put"
    BY StreamFacts DEF Put
  <1>2. i \in Incs
    BY <1>0, <1>1, NodeAssumption, SMTT(40) DEF IInv, RecordsOK, StreamKnows, Incs
  <1>3. Here(loc, "put", s) = {r} /\ r \in Requests /\ loc[r] = <<"put", s>>
    <2>1. Here(loc, "put", s) = {r}
      BY <1>0, <1>1 DEF StreamOK
    <2> QED BY <2>1 DEF Here
  <1>4. PICK to : to = Moved(loc, {r}, "queue", i)
    OBVIOUS
  <1>5. <<"queue", i>> \in Where
    BY <1>2 DEF Where, ActorPlaces
  <1>6. /\ Here(to, "queue", i) = Here(loc, "queue", i) \cup {r}
        /\ Here(to, "put", s) = Here(loc, "put", s) \ {r}
        /\ Here(to, "todo", s) = Here(loc, "todo", s)
        /\ Here(to, "left", s) = Here(loc, "left", s)
        /\ \A l \in {"busy", "emit", "list"} : Here(to, l, i) = Here(loc, l, i)
    BY SMTT(40), <1>1, <1>3, <1>4, <1>5, MovedHere
  <1>7. StreamOK(to, s, str'[s]) /\ \A t \in Streams \ {s} : str'[t] = str[t]
    <2>1. r \notin Here(loc, "todo", s)
      BY SMT, <1>3 DEF Here
    <2>2. Here(to, "put", s) = {}
          /\ Here(to, "todo", s) = (Here(loc, "todo", s) \cup Here(loc, "put", s)) \ {r}
      BY <1>3, <1>6, <2>1
    <2> QED BY SMT, <1>0, <1>1, <1>6, <2>2, EnvelopeDone DEF Put
  <1>8. ActorOK(to, i, inc'[i]) /\ \A j \in Incs \ {i} : inc'[j] = inc[j]
    <2>1. /\ inc[i] \in IncType /\ inc[i].queue \in Seq(Requests) /\ ActorOK(loc, i, inc[i])
      BY <1>2, ActorFacts
    <2>2. PICK q : q = Append(inc[i].queue, r)
      OBVIOUS
    <2>3. /\ inc'[i] = [inc[i] EXCEPT !.queue = q]
          /\ \A j \in Incs \ {i} : inc'[j] = inc[j]
      BY <1>0, <1>2, <2>2 DEF Put, Req, IInv, RecordsOK
    <2>4. /\ inc'[i].queue = q /\ inc'[i].list = inc[i].list /\ inc'[i].pc = inc[i].pc
          /\ inc'[i].cur = inc[i].cur /\ inc'[i].drain = inc[i].drain
      BY <2>1, <2>3 DEF IncType
    <2>5. Lists(q, Here(to, "queue", i))
      <3>1. r \notin Here(loc, "queue", i) /\ Lists(inc[i].queue, Here(loc, "queue", i))
        BY SMT, <1>3, <2>1 DEF Here, ActorOK
      <3> QED BY SMT, <1>3, <1>6, <2>1, <2>2, <3>1, ListsAppend
    <2> QED BY <1>6, <2>1, <2>3, <2>4, <2>5 DEF ActorOK
  <1>9. /\ to \in [Requests -> Where]
        /\ \A t \in Streams \ {s} : StreamOK(to, t, str[t])
        /\ \A j \in Incs \ {i} : ActorOK(to, j, inc[j])
        /\ ChannelOK(to, "ch", resultCh, handled) /\ ChannelOK(to, "batch", agg.batch, handled)
        /\ SentOK(to, agg.sent, handled) /\ RoutesFit(to, routes) /\ HandledFit(to, handled)
        /\ agg \in AggType
    BY SMTT(40), <1>3, <1>4, <1>5, MoveKeeps
       DEF StreamPlaces, ActorPlaces, ResultPlaces, RoutedPlaces, AnsweredPlaces, Placed
  <1>10. UNCHANGED <<resultCh, agg, routes, handled>>
    BY DEF Put
  <1>11. Placed(to)'
    BY <1>7, <1>8, <1>9, <1>10 DEF Placed
  <1> QED BY <1>9, <1>11 DEF Places
-----------------------------------------------------------------------------
(* Actors and the goroutines that drain them move requests.                *)

\* More requests are executed: the results of others stay honest.
LEMMA MoreHandled ==
  ASSUME NEW loc, Placed(loc), NEW done, handled \subseteq done,
         \A r \in done \ handled : loc[r][1] \notin ResultPlaces
  PROVE  /\ ChannelOK(loc, "ch", resultCh, done) /\ ChannelOK(loc, "batch", agg.batch, done)
         /\ SentOK(loc, agg.sent, done)
  <1>1. \A l \in ResultPlaces : \A r \in Here(loc, l, None) : r \in done <=> r \in handled
    BY SMT DEF Here
  <1>2. ASSUME NEW l \in ResultPlaces, NEW q, ChannelOK(loc, l, q, handled)
        PROVE  ChannelOK(loc, l, q, done)
    <2>1. \A n \in DOMAIN q : q[n].req \in Here(loc, l, None)
      BY <1>2 DEF ChannelOK, Lists, Reqs
    <2> QED BY <1>1, <1>2, <2>1 DEF ChannelOK, Honest
  <1>3. SentOK(loc, agg.sent, done)
    <2>1. "sent" \in ResultPlaces /\ SentOK(loc, agg.sent, handled)
      BY DEF ResultPlaces, Placed
    <2> QED BY <1>1, <2>1 DEF SentOK, Honest
  <1> QED BY <1>2, <1>3 DEF Placed, ResultPlaces

\* A request moves within its actor.
LEMMA WithinActor ==
  ASSUME NEW loc, Placed(loc), NEW i \in Incs, NEW a \in ActorPlaces, NEW b \in ActorPlaces,
         a # b, NEW R, R \subseteq Here(loc, a, i), NEW to, to = Moved(loc, R, b, i),
         ActorOK(to, i, inc'[i]), \A j \in Incs \ {i} : inc'[j] = inc[j],
         RoutesFit(to, routes'), HandledFit(to, handled'), handled \subseteq handled', handled' \ handled \subseteq R,
         UNCHANGED <<str, resultCh, agg>>
  PROVE  Places'
  <1>1. <<b, i>> \in Where
    BY DEF Where
  <1>2. /\ a \notin StreamPlaces /\ b \notin StreamPlaces
        /\ \A l \in ResultPlaces : l # a /\ l # b
    BY DEF StreamPlaces, ActorPlaces, ResultPlaces
  <1>3. /\ to \in [Requests -> Where]
        /\ \A s \in Streams : StreamOK(to, s, str[s])
        /\ \A j \in Incs \ {i} : ActorOK(to, j, inc[j])
        /\ \A l \in ResultPlaces : \A q, done : ChannelOK(loc, l, q, done) => ChannelOK(to, l, q, done)
    BY SMTT(40), <1>1, <1>2, MoveKeeps
  <1>4. /\ ChannelOK(loc, "ch", resultCh, handled') /\ ChannelOK(loc, "batch", agg.batch, handled')
        /\ SentOK(loc, agg.sent, handled')
    <2>1. \A r \in handled' \ handled : loc[r][1] \notin ResultPlaces
      BY SMT, <1>2 DEF Here
    <2> QED BY SMTT(40), <2>1, MoreHandled
  <1>5. SentOK(to, agg.sent, handled')
    <2>1. loc \in [Requests -> Where] /\ "sent" \in ResultPlaces
      BY DEF Placed, ResultPlaces
    <2>2. Here(to, "sent", None) = Here(loc, "sent", None)
      BY SMT, <1>1, <1>2, <2>1, MovedHere
    <2> QED BY <1>4, <2>2 DEF SentOK
  <1>6. ChannelOK(to, "ch", resultCh, handled') /\ ChannelOK(to, "batch", agg.batch, handled')
        /\ agg \in AggType
    BY <1>3, <1>4 DEF Placed, ResultPlaces
  <1>7. Placed(to)'
    BY <1>3, <1>5, <1>6 DEF Placed
  <1> QED BY <1>3, <1>7 DEF Places

\* The actor takes its next message, or finds its mailbox empty.
LEMMA DequeueMoves ==
  ASSUME IInv, NEW loc, Placed(loc), NEW i \in Incs, Dequeue(i), inc[i].queue # <<>>
  PROVE  Places'
  <1>0. PICK r, q : r = Head(inc[i].queue) /\ q = Tail(inc[i].queue)
    OBVIOUS
  <1>1. /\ inc[i] \in IncType /\ inc[i].queue \in Seq(Requests) /\ ActorOK(loc, i, inc[i])
        /\ loc \in [Requests -> Where] /\ inc[i].pc = "loop"
    BY ActorFacts DEF Dequeue
  <1>2. r \in Here(loc, "queue", i) /\ Lists(q, Here(loc, "queue", i) \ {r})
    BY <1>0, <1>1, ListsTail DEF ActorOK
  <1>3. PICK to : to = Moved(loc, {r}, "busy", i)
    OBVIOUS
  <1>4. <<"busy", i>> \in Where
    BY DEF Where, ActorPlaces
  <1>5. /\ Here(to, "busy", i) = Here(loc, "busy", i) \cup {r}
        /\ Here(to, "queue", i) = Here(loc, "queue", i) \ {r}
        /\ \A l \in {"emit", "list"} : Here(to, l, i) = Here(loc, l, i)
    BY SMT, <1>1, <1>2, <1>3, <1>4, MovedHere
  <1>6. PICK c : c = Result(r, None, "none")
    OBVIOUS
  <1>7. /\ inc'[i] = [inc[i] EXCEPT !.pc = "busy", !.queue = q, !.cur = c]
        /\ \A j \in Incs \ {i} : inc'[j] = inc[j]
    BY <1>0, <1>6 DEF Dequeue, IInv, RecordsOK
  <1>8. /\ inc'[i].queue = q /\ inc'[i].list = inc[i].list /\ inc'[i].pc = "busy"
        /\ inc'[i].cur.req = r /\ inc'[i].drain = inc[i].drain
    BY SMT, <1>1, <1>6, <1>7 DEF IncType, Result
  <1>9. ActorOK(to, i, inc'[i])
    <2>1. Here(to, "busy", i) = {r} /\ Here(to, "emit", i) = {}
      BY <1>1, <1>5 DEF ActorOK
    <2> QED BY <1>1, <1>2, <1>5, <1>8, <2>1 DEF ActorOK
  <1>10. UNCHANGED <<str, resultCh, agg, routes, handled>>
    BY DEF Dequeue
  <1>11. RoutesFit(to, routes') /\ HandledFit(to, handled')
    BY SMTT(40), <1>2, <1>3, <1>4, <1>10, MoveKeeps DEF RoutedPlaces, AnsweredPlaces
  <1> QED BY SMT, <1>2, <1>3, <1>7, <1>9, <1>10, <1>11, WithinActor DEF ActorPlaces

\* The route of a request is there when Emit or the drain looks for it.
LEMMA RouteFound ==
  ASSUME NEW loc, Placed(loc), NEW i \in Incs, NEW a \in {"queue", "busy", "list"},
         NEW r \in Here(loc, a, i)
  PROVE  r \in Requests /\ r \in DOMAIN routes /\ routes[r] = StreamOf(r) /\ r \notin handled
  <1>1. r \in Requests /\ loc[r] = <<a, i>>
    BY DEF Here
  <1>2. loc[r][1] \in RoutedPlaces /\ loc[r][1] \notin AnsweredPlaces
    BY SMT, <1>1 DEF RoutedPlaces, AnsweredPlaces
  <1> QED BY <1>1, <1>2 DEF Placed, RoutesFit, HandledFit

\* The route goes when the request leaves the places that have one.
LEMMA RouteTaken ==
  ASSUME NEW loc, Placed(loc), NEW r \in Requests, loc[r][1] \in RoutedPlaces,
         NEW b, b \notin RoutedPlaces, NEW y, NEW to, to = Moved(loc, {r}, b, y)
  PROVE  RoutesFit(to, Without(routes, r))
  <1>1. \A x \in Requests : to[x][1] = IF x = r THEN b ELSE loc[x][1]
    BY SMT DEF Moved
  <1>2. DOMAIN routes = {x \in Requests : loc[x][1] \in RoutedPlaces}
        /\ \A x \in DOMAIN routes : routes[x] = StreamOf(x)
    BY DEF Placed, RoutesFit
  <1>3. PICK rt : rt = Without(routes, r)
    OBVIOUS
  <1>4. DOMAIN rt = DOMAIN routes \ {r} /\ \A x \in DOMAIN rt : rt[x] = routes[x]
    BY <1>3 DEF Without
  <1>5. DOMAIN rt = {x \in Requests : to[x][1] \in RoutedPlaces}
    BY <1>1, <1>2, <1>4
  <1> QED BY <1>2, <1>3, <1>4, <1>5 DEF RoutesFit

\* The actor has executed its message and takes the route.
LEMMA HandleMoves ==
  ASSUME IInv, NEW loc, Placed(loc), NEW i \in Incs, Handle(i)
  PROVE  Places'
  <1>0. PICK r : r = inc[i].cur.req
    OBVIOUS
  <1>1. /\ inc[i] \in IncType /\ ActorOK(loc, i, inc[i])
        /\ loc \in [Requests -> Where] /\ inc[i].pc = "busy"
    BY ActorFacts DEF Handle
  <1>2. Here(loc, "busy", i) = {r} /\ Here(loc, "emit", i) = {}
    BY <1>0, <1>1 DEF ActorOK
  <1>3. r \in Requests /\ r \in DOMAIN routes /\ routes[r] = StreamOf(r) /\ loc[r][1] = "busy"
    <2>1. r \in Here(loc, "busy", i)
      BY <1>2
    <2> QED BY SMT, <2>1, RouteFound DEF Here
  <1>4. PICK to : to = Moved(loc, {r}, "emit", i)
    OBVIOUS
  <1>5. <<"emit", i>> \in Where
    BY DEF Where, ActorPlaces
  <1>6. /\ Here(to, "emit", i) = Here(loc, "emit", i) \cup {r}
        /\ Here(to, "busy", i) = Here(loc, "busy", i) \ {r}
        /\ \A l \in {"queue", "list"} : Here(to, l, i) = Here(loc, l, i)
    BY SMT, <1>1, <1>2, <1>4, <1>5, MovedHere
  <1>7. PICK c : c = Result(r, routes[r], "handled")
    OBVIOUS
  <1>8. /\ inc'[i] = [inc[i] EXCEPT !.pc = "emit", !.cur = c]
        /\ \A j \in Incs \ {i} : inc'[j] = inc[j]
        /\ handled' = handled \cup {r} /\ routes' = Without(routes, r)
        /\ UNCHANGED <<str, resultCh, agg>>
    BY <1>0, <1>3, <1>7 DEF Handle, IInv, RecordsOK
  <1>9. /\ inc'[i].queue = inc[i].queue /\ inc'[i].list = inc[i].list /\ inc'[i].pc = "emit"
        /\ inc'[i].cur = c /\ inc'[i].drain = inc[i].drain
        /\ c.req = r /\ c.to = StreamOf(r) /\ c.code = "handled"
    BY SMT, <1>1, <1>3, <1>7, <1>8 DEF IncType, Result
  <1>10. ActorOK(to, i, inc'[i])
    <2>1. Here(to, "busy", i) = {} /\ Here(to, "emit", i) = {r}
      BY <1>2, <1>6
    <2> QED BY <1>1, <1>6, <1>9, <2>1 DEF ActorOK
  <1>11. RoutesFit(to, routes')
    BY SMT, <1>3, <1>4, <1>8, RouteTaken DEF RoutedPlaces
  <1>12. HandledFit(to, handled')
    <2>1. \A x \in Requests : to[x][1] = IF x = r THEN "emit" ELSE loc[x][1]
      BY <1>4 DEF Moved
    <2> QED BY SMT, <1>3, <1>8, <2>1 DEF Placed, HandledFit, AnsweredPlaces
  <1>13. /\ handled \subseteq handled' /\ handled' \ handled \subseteq {r}
         /\ {r} \subseteq Here(loc, "busy", i) /\ "busy" \in ActorPlaces /\ "emit" \in ActorPlaces
    BY <1>2, <1>8 DEF ActorPlaces
  <1> QED BY SMT, <1>4, <1>8, <1>10, <1>11, <1>12, <1>13, WithinActor

\* The dead actor's mailbox is taken over by the goroutine that drains it.
LEMMA DrainMoves ==
  ASSUME IInv, NEW loc, Placed(loc), NEW i \in Incs, Drain(i)
  PROVE  Places'
  <1>1. /\ inc[i] \in IncType /\ inc[i].queue \in Seq(Requests) /\ ActorOK(loc, i, inc[i])
        /\ loc \in [Requests -> Where] /\ inc[i].drain = "wait"
    BY ActorFacts DEF Drain
  <1>2. PICK R : R = Here(loc, "queue", i)
    OBVIOUS
  <1>3. PICK to : to = Moved(loc, R, "list", i)
    OBVIOUS
  <1>4. <<"list", i>> \in Where
    BY DEF Where, ActorPlaces
  <1>5. /\ Here(to, "list", i) = Here(loc, "list", i) \cup R
        /\ Here(to, "queue", i) = Here(loc, "queue", i) \ R
        /\ \A l \in {"busy", "emit"} : Here(to, l, i) = Here(loc, l, i)
    BY SMT, <1>1, <1>2, <1>3, <1>4, MovedHere
  <1>6. Here(loc, "list", i) = {}
    <2>1. Lists(<<>>, Here(loc, "list", i))
      BY <1>1 DEF ActorOK
    <2> QED BY <2>1, ListsNothing
  <1>7. PICK q, none : q = inc[i].queue /\ none = <<>>
    OBVIOUS
  <1>8. /\ inc'[i] = [inc[i] EXCEPT !.list = q, !.queue = none, !.drain = "reply"]
        /\ \A j \in Incs \ {i} : inc'[j] = inc[j]
        /\ UNCHANGED <<str, resultCh, agg, routes, handled>>
    BY <1>7 DEF Drain, Drained, IInv, RecordsOK
  <1>9. /\ inc'[i].queue = none /\ inc'[i].list = q /\ inc'[i].pc = inc[i].pc
        /\ inc'[i].cur = inc[i].cur /\ inc'[i].drain = "reply"
    BY <1>1, <1>8 DEF IncType
  <1>10. ActorOK(to, i, inc'[i])
    <2>1. Here(to, "queue", i) = {} /\ Here(to, "list", i) = R
      BY <1>2, <1>5, <1>6
    <2>2. Lists(none, {})
      BY SMT, <1>7 DEF Lists
    <2>3. Lists(q, R)
      BY <1>1, <1>2, <1>7 DEF ActorOK
    <2> QED BY <1>1, <1>5, <1>9, <2>1, <2>2, <2>3 DEF ActorOK
  <1>11. RoutesFit(to, routes') /\ HandledFit(to, handled')
    BY SMT, <1>2, <1>3, <1>4, <1>8, MoveKeeps DEF RoutedPlaces, AnsweredPlaces
  <1> QED BY SMT, <1>2, <1>3, <1>8, <1>10, <1>11, WithinActor DEF ActorPlaces

\* A result of actor i goes to the channel.
LEMMA ActorAnswers ==
  ASSUME NEW loc, Placed(loc), NEW i \in Incs, NEW a \in ActorPlaces, NEW r \in Here(loc, a, i),
         NEW to, to = Moved(loc, {r}, "ch", None), ActorOK(to, i, inc'[i]),
         \A j \in Incs \ {i} : inc'[j] = inc[j],
         NEW z \in Results, z.req = r, z.to = StreamOf(r), Honest(z, handled),
         resultCh' = Append(resultCh, z), RoutesFit(to, routes'), HandledFit(to, handled),
         UNCHANGED <<str, agg, handled>>
  PROVE  Places'
  <1>1. <<"ch", None>> \in Where /\ {r} \subseteq Here(loc, a, i) /\ loc \in [Requests -> Where]
    BY DEF Where, ResultPlaces, Placed
  <1>2. /\ a \notin StreamPlaces /\ a \notin ResultPlaces
        /\ "ch" \notin StreamPlaces /\ "ch" \notin ActorPlaces
        /\ "ch" \in ResultPlaces /\ "batch" \in ResultPlaces /\ "sent" \in ResultPlaces
    BY DEF StreamPlaces, ActorPlaces, ResultPlaces
  <1>3. a # "ch" /\ a # "batch" /\ a # "sent"
    BY <1>2
  <1>4. Here(to, "ch", None) = Here(loc, "ch", None) \cup {r}
    BY SMT, <1>1, <1>3, MovedHere
  <1>5. r \notin Here(loc, "ch", None)
    BY SMT, <1>3 DEF Here
  <1>6. ChannelOK(to, "ch", resultCh', handled)
    BY <1>4, <1>5, ResultIn DEF Placed
  <1>7. /\ to \in [Requests -> Where]
        /\ \A s \in Streams : StreamOK(to, s, str[s])
        /\ \A j \in Incs \ {i} : ActorOK(to, j, inc[j])
        /\ ChannelOK(loc, "batch", agg.batch, handled) => ChannelOK(to, "batch", agg.batch, handled)
        /\ SentOK(to, agg.sent, handled)
    BY SMTT(40), <1>1, <1>2, <1>3, MoveKeeps
  <1>8. ChannelOK(to, "batch", agg.batch, handled) /\ agg \in AggType
    BY <1>7 DEF Placed
  <1>9. Placed(to)'
    BY <1>6, <1>7, <1>8 DEF Placed
  <1> QED BY <1>7, <1>9 DEF Places

\* An actor emits the result of what it has executed.
Executed == \A i \in Incs : inc[i].pc = "emit" => inc[i].cur.req \in handled

LEMMA EmitMoves ==
  ASSUME IInv, Executed, NEW loc, Placed(loc), NEW i \in Incs, Emit(i)
  PROVE  Places'
  <1>0. PICK z, r : z = inc[i].cur /\ r = z.req
    OBVIOUS
  <1>1. /\ inc[i] \in IncType /\ z \in Results /\ ActorOK(loc, i, inc[i])
        /\ loc \in [Requests -> Where] /\ inc[i].pc = "emit"
    BY <1>0, ActorFacts DEF Emit
  <1>2. /\ Here(loc, "emit", i) = {r} /\ Here(loc, "busy", i) = {}
        /\ z.code = "handled" /\ z.to = StreamOf(r)
    BY <1>0, <1>1 DEF ActorOK
  <1>3. PICK to : to = Moved(loc, {r}, "ch", None)
    OBVIOUS
  <1>4. <<"ch", None>> \in Where
    BY DEF Where, ResultPlaces
  <1>5. /\ Here(to, "emit", i) = Here(loc, "emit", i) \ {r}
        /\ \A l \in {"queue", "list", "busy"} : Here(to, l, i) = Here(loc, l, i)
    BY SMTT(40), <1>1, <1>2, <1>3, <1>4, MovedHere
  <1>6. /\ inc'[i] = [inc[i] EXCEPT !.pc = "loop", !.cur = NoResult]
        /\ \A j \in Incs \ {i} : inc'[j] = inc[j]
        /\ resultCh' = Append(resultCh, z) /\ UNCHANGED <<str, routes, agg, handled>>
    BY <1>0 DEF Emit, Push, IInv, RecordsOK
  <1>7. /\ inc'[i].queue = inc[i].queue /\ inc'[i].list = inc[i].list /\ inc'[i].pc = "loop"
        /\ inc'[i].drain = inc[i].drain
    BY <1>1, <1>6 DEF IncType
  <1>8. ActorOK(to, i, inc'[i])
    <2>1. Here(to, "emit", i) = {}
      BY <1>2, <1>5
    <2> QED BY <1>1, <1>2, <1>5, <1>7, <2>1 DEF ActorOK
  <1>9. RoutesFit(to, routes') /\ HandledFit(to, handled)
    BY SMTT(40), <1>2, <1>3, <1>4, <1>6, MoveKeeps DEF RoutedPlaces, AnsweredPlaces
  <1>10. Honest(z, handled) /\ r \in Here(loc, "emit", i) /\ "emit" \in ActorPlaces
    <2>1. z.req \in handled
      BY <1>0, <1>1 DEF Executed
    <2> QED BY <1>2, <2>1 DEF Honest, ActorPlaces
  <1>11. z.req = r /\ z \in Results /\ z.to = StreamOf(r) /\ UNCHANGED <<str, agg, handled>>
    BY <1>0, <1>1, <1>2, <1>6
  <1> QED BY ZenonT(40), <1>3, <1>6, <1>8, <1>9, <1>10, <1>11, ActorAnswers

\* The drain refuses a message nobody has executed.
LEMMA DrainReplyMoves ==
  ASSUME IInv, NEW loc, Placed(loc), NEW i \in Incs, DrainReply(i)
  PROVE  Places'
  <1>0. PICK r, q, z : r = Head(inc[i].list) /\ q = Tail(inc[i].list)
                       /\ z = Result(r, StreamOf(r), "refused")
    OBVIOUS
  <1>1. /\ inc[i] \in IncType /\ inc[i].list \in Seq(Requests) /\ ActorOK(loc, i, inc[i])
        /\ loc \in [Requests -> Where] /\ inc[i].drain = "reply" /\ inc[i].list # <<>>
    BY ActorFacts DEF DrainReply
  <1>2. r \in Here(loc, "list", i) /\ Lists(q, Here(loc, "list", i) \ {r})
    BY <1>0, <1>1, ListsTail DEF ActorOK
  <1>3. r \in Requests /\ r \in DOMAIN routes /\ routes[r] = StreamOf(r) /\ r \notin handled
    BY <1>2, RouteFound
  <1>4. PICK to : to = Moved(loc, {r}, "ch", None)
    OBVIOUS
  <1>5. <<"ch", None>> \in Where
    BY DEF Where, ResultPlaces
  <1>6. /\ Here(to, "list", i) = Here(loc, "list", i) \ {r}
        /\ \A l \in {"queue", "emit", "busy"} : Here(to, l, i) = Here(loc, l, i)
    BY SMTT(40), <1>1, <1>2, <1>4, <1>5, MovedHere
  <1>7. /\ inc'[i] = [inc[i] EXCEPT !.list = q]
        /\ \A j \in Incs \ {i} : inc'[j] = inc[j]
    BY <1>0 DEF DrainReply, IInv, RecordsOK
  <1>8. /\ resultCh' = Append(resultCh, z) /\ routes' = Without(routes, r)
        /\ UNCHANGED <<str, agg, handled>>
    BY <1>0, <1>3 DEF DrainReply, Push
  <1>9. /\ inc'[i].queue = inc[i].queue /\ inc'[i].list = q /\ inc'[i].pc = inc[i].pc
        /\ inc'[i].cur = inc[i].cur /\ inc'[i].drain = "reply"
    BY <1>1, <1>7 DEF IncType
  <1>10. ActorOK(to, i, inc'[i])
    BY <1>1, <1>2, <1>6, <1>9 DEF ActorOK
  <1>11. /\ z \in Results /\ z.req = r /\ z.to = StreamOf(r) /\ Honest(z, handled)
    <2>1. StreamOf(r) \in Streams
      BY <1>3 DEF IInv, RecordsOK
    <2>2. z \in Results /\ z.req = r /\ z.to = StreamOf(r) /\ z.code = "refused"
      BY <1>0, <1>3, <2>1 DEF Result, Results
    <2> QED BY <1>3, <2>2 DEF Honest
  <1>12. loc[r][1] = "list"
    BY SMT, <1>2 DEF Here
  <1>13. RoutesFit(to, routes')
    BY SMTT(40), <1>3, <1>4, <1>8, <1>12, RouteTaken DEF RoutedPlaces
  <1>14. HandledFit(to, handled) /\ "list" \in ActorPlaces
    BY SMTT(40), <1>2, <1>4, <1>5, MoveKeeps DEF AnsweredPlaces, ActorPlaces
  <1> QED BY ZenonT(40), <1>2, <1>4, <1>7, <1>8, <1>10, <1>11, <1>13, <1>14, ActorAnswers
-----------------------------------------------------------------------------
(* The aggregator moves results.                                           *)

\* What a move of results leaves alone.
Elsewhere(loc) ==
  /\ loc \in [Requests -> Where]
  /\ \A s \in Streams : StreamOK(loc, s, str[s])
  /\ \A i \in Incs : ActorOK(loc, i, inc[i])
  /\ RoutesFit(loc, routes)
  /\ HandledFit(loc, handled)

LEMMA ResultsMove ==
  ASSUME NEW loc, Elsewhere(loc), NEW a \in ResultPlaces, NEW b \in ResultPlaces, a # b,
         NEW R, R \subseteq Here(loc, a, None), NEW to, to = Moved(loc, R, b, None)
  PROVE  /\ Elsewhere(to)
         /\ Here(to, b, None) = Here(loc, b, None) \cup R
         /\ Here(to, a, None) = Here(loc, a, None) \ R
         /\ \A l \in ResultPlaces \ {a, b} : Here(to, l, None) = Here(loc, l, None)
  <1>1. <<b, None>> \in Where /\ loc \in [Requests -> Where]
    BY DEF Where, Elsewhere
  <1>2. /\ to \in [Requests -> Where]
        /\ Here(to, b, None) = Here(loc, b, None) \cup R
        /\ Here(to, a, None) = Here(loc, a, None) \ R
        /\ \A l, z : l # a /\ l # b => Here(to, l, z) = Here(loc, l, z)
    BY SMT, <1>1, MovedHere
  <1>3. \A l \in StreamPlaces \cup ActorPlaces : l # a /\ l # b
    BY DEF StreamPlaces, ActorPlaces, ResultPlaces
  <1>4. \A l \in StreamPlaces \cup ActorPlaces : \A z : Here(to, l, z) = Here(loc, l, z)
    BY <1>2, <1>3
  <1>5. ASSUME NEW s \in Streams PROVE StreamOK(to, s, str[s])
    <2>1. \A l \in StreamPlaces : Here(to, l, s) = Here(loc, l, s)
      BY <1>4
    <2>2. StreamOK(loc, s, str[s])
      BY DEF Elsewhere
    <2> QED BY <2>1, <2>2 DEF StreamOK, StreamPlaces
  <1>6. ASSUME NEW i \in Incs PROVE ActorOK(to, i, inc[i])
    <2>1. \A l \in ActorPlaces : Here(to, l, i) = Here(loc, l, i)
      BY <1>4
    <2>2. ActorOK(loc, i, inc[i])
      BY DEF Elsewhere
    <2> QED BY <2>1, <2>2 DEF ActorOK, ActorPlaces
  <1>7. /\ a \notin RoutedPlaces /\ b \notin RoutedPlaces
        /\ a \in AnsweredPlaces /\ b \in AnsweredPlaces
    BY DEF ResultPlaces, RoutedPlaces, AnsweredPlaces
  <1>8. \A r \in Requests : to[r][1] = loc[r][1] \/ (to[r][1] = b /\ loc[r][1] = a)
    <2>1. \A r \in Requests : IF r \in R THEN to[r] = <<b, None>> /\ loc[r] = <<a, None>>
                              ELSE to[r] = loc[r]
      BY DEF Moved, Here
    <2> QED BY SMT, <2>1
  <1>9. RoutesFit(to, routes)
    <2>1. \A r \in Requests : to[r][1] \in RoutedPlaces <=> loc[r][1] \in RoutedPlaces
      BY <1>7, <1>8
    <2> QED BY <2>1 DEF Elsewhere, RoutesFit
  <1>10. HandledFit(to, handled)
    <2>1. \A r \in Requests : loc[r][1] \in AnsweredPlaces => to[r][1] \in AnsweredPlaces
      BY <1>7, <1>8
    <2> QED BY <2>1 DEF Elsewhere, HandledFit
  <1> QED BY <1>2, <1>5, <1>6, <1>9, <1>10 DEF Elsewhere

\* flush appends nothing to the results of a request that is not in the batch, ...
LEMMA ForNone ==
  ASSUME NEW r, NEW b, InResults(r, b) = {}
  PROVE  DOMAIN For(r, b) = {}
  <1>1. Cardinality(InResults(r, b)) = 0
    BY SMT, FS_EmptySet
  <1>2. PICK S, k : S = InResults(r, b) /\ k = Cardinality(S)
    OBVIOUS
  <1>3. 1 .. k = {}
    BY SMT, <1>1, <1>2
  <1>4. \E e \in [1 .. k -> S] : \A m, n \in DOMAIN e : m < n => e[m] < e[n]
    <2>1. PICK e : e = [m \in 1 .. k |-> None]
      OBVIOUS
    <2>2. e \in [1 .. k -> S] /\ DOMAIN e = {}
      BY <1>3, <2>1
    <2> QED BY <2>2
  <1>5. For(r, b) \in [1 .. k -> S]
    BY <1>2, <1>4 DEF For
  <1> QED BY <1>3, <1>5

\* ... and the one result of a request that is.
LEMMA ForOne ==
  ASSUME NEW r, NEW b, NEW n, InResults(r, b) = {n}
  PROVE  DOMAIN For(r, b) = {1} /\ For(r, b)[1] = n
  <1>1. Cardinality(InResults(r, b)) = 1
    BY SMT, FS_Singleton
  <1>2. PICK S, k : S = InResults(r, b) /\ k = Cardinality(S)
    OBVIOUS
  <1>3. 1 .. k = {1} /\ ~(1 < 1)
    BY SMT, <1>1, <1>2
  <1>4. \E e \in [1 .. k -> S] : \A l, m \in DOMAIN e : l < m => e[l] < e[m]
    <2>1. PICK e : e = [m \in 1 .. k |-> n]
      OBVIOUS
    <2>2. e \in [1 .. k -> S] /\ DOMAIN e = {1}
      BY <1>2, <1>3, <2>1
    <2> QED BY <1>3, <2>2
  <1>5. For(r, b) \in [1 .. k -> S]
    BY <1>2, <1>4 DEF For
  <1> QED BY <1>2, <1>3, <1>5

\* The result as it is handed to its stream.
LEMMA ResponseIs ==
  ASSUME NEW q \in Results
  PROVE  /\ SendBatchResponse(q) \in Results /\ SendBatchResponse(q).req = q.req
         /\ SendBatchResponse(q).code = q.code /\ SendBatchResponse(q).to \in {q.to, None}
  <1>1. PICK t \in {q.to, None} : SendBatchResponse(q) = [q EXCEPT !.to = t]
    BY DEF SendBatchResponse
  <1>2. t \in Streams \cup {None}
    BY <1>1 DEF Results
  <1> QED BY SMT, <1>1, <1>2 DEF Results

\* All results of the batch are handed over, each once.
LEMMA FlushMoves ==
  ASSUME NEW loc, Elsewhere(loc), NEW b, ChannelOK(loc, "batch", b, handled),
         agg \in AggType, SentOK(loc, agg.sent, handled),
         NEW to, to = Moved(loc, Here(loc, "batch", None), "sent", None)
  PROVE  /\ Elsewhere(to) /\ ChannelOK(to, "batch", <<>>, handled)
         /\ Here(to, "ch", None) = Here(loc, "ch", None)
         /\ Flushed(b) \in AggType /\ Flushed(b).batch = <<>> /\ Flushed(b).on = agg.on
         /\ SentOK(to, Flushed(b).sent, handled)
         /\ \A r \in Requests :
              IF r \in Here(loc, "batch", None)
              THEN \E n \in DOMAIN b : /\ b[n].req = r
                                      /\ Flushed(b).sent[r] = <<SendBatchResponse(b[n])>>
              ELSE Flushed(b).sent[r] = agg.sent[r]
  <1>1. PICK R, f : R = Here(loc, "batch", None)
                    /\ f = [r \in Requests |->
                              agg.sent[r] \o [n \in DOMAIN For(r, b) |-> SendBatchResponse(b[For(r, b)[n]])]]
    OBVIOUS
  <1>2. /\ Elsewhere(to) /\ Here(to, "ch", None) = Here(loc, "ch", None)
        /\ Here(to, "batch", None) = R \ R /\ Here(to, "sent", None) = Here(loc, "sent", None) \cup R
    BY SMT, <1>1, ResultsMove DEF ResultPlaces
  <1>3. /\ b \in Seq(Results) /\ Lists(Reqs(b), R)
        /\ \A n \in DOMAIN b : b[n].to = StreamOf(b[n].req) /\ Honest(b[n], handled)
        /\ \A n \in DOMAIN b : b[n] \in Results
    BY SMT, <1>1 DEF ChannelOK
  <1>4. R \subseteq Requests /\ \A r \in R : r \notin Here(loc, "sent", None)
    BY SMT, <1>1 DEF Here
  <1>5. ASSUME NEW r \in Requests
        PROVE  /\ r \notin R => f[r] = agg.sent[r]
               /\ r \in R => \E q \in Results : /\ f[r] = <<q>> /\ q.req = r
                                                /\ q.to \in {StreamOf(r), None} /\ Honest(q, handled)
               /\ r \in R => \E n \in DOMAIN b : /\ b[n].req = r
                                                /\ f[r] = <<SendBatchResponse(b[n])>>
    <2>0. PICK e, p : e = For(r, b) /\ p = [n \in DOMAIN e |-> SendBatchResponse(b[e[n]])]
      OBVIOUS
    <2>1. f[r] = agg.sent[r] \o p /\ agg.sent[r] \in Seq(Results)
      BY <1>1, <2>0 DEF AggType
    <2>2. CASE r \notin R
      <3>1. \A n \in DOMAIN b : b[n].req \in R
        BY <1>3 DEF Lists, Reqs
      <3>2. InResults(r, b) = {}
        BY <2>2, <3>1 DEF InResults
      <3>3. DOMAIN e = {}
        BY <2>0, <3>2, ForNone
      <3>4. p = <<>>
        BY SMT, <2>0, <3>3
      <3> QED BY SMT, <2>1, <2>2, <3>4
    <2>3. CASE r \in R
      <3>1. PICK n \in DOMAIN b : b[n].req = r
        BY <1>3, <2>3 DEF Lists, Reqs
      <3>2. InResults(r, b) = {n}
        BY ZenonT(40), <1>3, <3>1 DEF InResults, Lists, Reqs
      <3>3. DOMAIN e = {1} /\ e[1] = n
        BY <2>0, <3>2, ForOne
      <3>4. PICK q : q = SendBatchResponse(b[n])
        OBVIOUS
      <3>5. DOMAIN p = {1} /\ p[1] = q
        BY <2>0, <3>3, <3>4
      <3>6. p = <<q>>
        <4>1. p = [m \in {1} |-> q]
          BY <2>0, <3>3, <3>4
        <4> QED BY SMT, <4>1
      <3>7. agg.sent[r] = <<>>
        BY <1>4, <2>3 DEF SentOK
      <3>8. /\ q \in Results /\ q.req = r /\ q.code = b[n].code /\ q.to \in {b[n].to, None}
        BY <1>3, <3>1, <3>4, ResponseIs
      <3>9. f[r] = <<q>>
        BY SMT, <2>1, <3>6, <3>7, <3>8
      <3>10. b[n].to = StreamOf(r) /\ Honest(b[n], handled)
        BY <1>3, <3>1
      <3>11. Honest(q, handled)
        BY <3>1, <3>8, <3>10 DEF Honest
      <3>12. \E m \in DOMAIN b : b[m].req = r /\ f[r] = <<SendBatchResponse(b[m])>>
        BY <3>1, <3>4, <3>9
      <3> QED BY <2>3, <3>8, <3>9, <3>10, <3>11, <3>12
    <2> QED BY <2>2, <2>3
  <1>6. \A r \in Requests : f[r] \in Seq(Results)
    <2> SUFFICES ASSUME NEW r \in Requests PROVE f[r] \in Seq(Results)
      OBVIOUS
    <2>1. agg.sent[r] \in Seq(Results)
      BY DEF AggType
    <2>2. \A q \in Results : <<q>> \in Seq(Results)
      BY SMT
    <2> QED BY <1>5, <2>1, <2>2
  <1>7. /\ Flushed(b) \in AggType /\ Flushed(b).batch = <<>> /\ Flushed(b).on = agg.on
        /\ Flushed(b).sent = f
    <2>1. f \in [Requests -> Seq(Results)] /\ <<>> \in Seq(Results)
      BY SMT, <1>1, <1>6
    <2>2. PICK none : none = <<>>
      OBVIOUS
    <2>3. Flushed(b) = [agg EXCEPT !.batch = none, !.sent = f]
      BY <1>1, <2>2 DEF Flushed
    <2> QED BY <2>1, <2>2, <2>3 DEF AggType
  <1>8. SentOK(to, f, handled)
    BY <1>2, <1>5 DEF SentOK
  <1>9. ChannelOK(to, "batch", <<>>, handled)
    <2>1. DOMAIN Reqs(<<>>) = {} /\ <<>> \in Seq(Results) /\ DOMAIN <<>> = {}
      BY SMT DEF Reqs
    <2>2. Here(to, "batch", None) = {}
      BY <1>2
    <2> QED BY <2>1, <2>2 DEF ChannelOK, Lists
  <1>10. \A r \in Requests :
           IF r \in R THEN \E n \in DOMAIN b : b[n].req = r /\ f[r] = <<SendBatchResponse(b[n])>>
           ELSE f[r] = agg.sent[r]
    BY <1>5
  <1>11. Flushed(b).sent = f
    BY <1>7
  <1> QED BY <1>1, <1>2, <1>7, <1>8, <1>9, <1>10, <1>11

\* The places after a step of the aggregator.
LEMMA AggregatorMoves ==
  ASSUME NEW to, Elsewhere(to), UNCHANGED <<str, inc, routes, handled>>, agg' \in AggType,
         ChannelOK(to, "ch", resultCh', handled), ChannelOK(to, "batch", agg'.batch, handled),
         SentOK(to, agg'.sent, handled)
  PROVE  Places'
  <1>1. Placed(to)'
    BY DEF Elsewhere, Placed
  <1> QED BY <1>1 DEF Elsewhere, Places

LEMMA PlacedElsewhere ==
  ASSUME NEW loc, Placed(loc)
  PROVE  /\ Elsewhere(loc) /\ agg \in AggType
         /\ ChannelOK(loc, "ch", resultCh, handled) /\ ChannelOK(loc, "batch", agg.batch, handled)
         /\ SentOK(loc, agg.sent, handled)
  BY DEF Placed, Elsewhere

\* A channel depends on what loc puts there only.
LEMMA ChannelSame ==
  ASSUME NEW loc, NEW l, NEW q, NEW done, ChannelOK(loc, l, q, done),
         NEW to, Here(to, l, None) = Here(loc, l, None)
  PROVE  ChannelOK(to, l, q, done)
  BY DEF ChannelOK

\* The tick flushes, and so does the end of the aggregator.
LEMMA TickMoves ==
  ASSUME NEW loc, Placed(loc), Tick \/ AggregatorExit
  PROVE  Places'
  <1>1. PICK to : to = Moved(loc, Here(loc, "batch", None), "sent", None)
    OBVIOUS
  <1>2. PICK g : g = Flushed(agg.batch)
    OBVIOUS
  <1>3. /\ Elsewhere(to) /\ ChannelOK(to, "batch", <<>>, handled)
        /\ Here(to, "ch", None) = Here(loc, "ch", None)
        /\ g \in AggType /\ g.batch = <<>> /\ SentOK(to, g.sent, handled)
    BY <1>1, <1>2, PlacedElsewhere, FlushMoves
  <1>4. ChannelOK(to, "ch", resultCh, handled)
    BY <1>3, PlacedElsewhere, ChannelSame
  <1>5. /\ UNCHANGED <<str, inc, routes, handled, resultCh>>
        /\ agg' = g \/ agg' = [g EXCEPT !.on = FALSE]
    BY <1>2 DEF Tick, AggregatorExit
  <1>6. agg' \in AggType /\ agg'.batch = g.batch /\ agg'.sent = g.sent
    BY <1>3, <1>5 DEF AggType
  <1>7. ChannelOK(to, "batch", agg'.batch, handled) /\ SentOK(to, agg'.sent, handled)
    BY <1>3, <1>6
  <1>8. ChannelOK(to, "ch", resultCh', handled)
    BY <1>4, <1>5
  <1> QED BY <1>3, <1>5, <1>6, <1>7, <1>8, AggregatorMoves

\* The aggregator takes a result from the channel.
LEMMA Collected ==
  ASSUME NEW loc, Placed(loc), resultCh # <<>>
  PROVE  \E mid : /\ Elsewhere(mid) /\ ChannelOK(mid, "ch", Tail(resultCh), handled)
                  /\ ChannelOK(mid, "batch", Append(agg.batch, Head(resultCh)), handled)
                  /\ SentOK(mid, agg.sent, handled)
  <1>0. PICK z, q, b : z = Head(resultCh) /\ q = Tail(resultCh) /\ b = Append(agg.batch, z)
    OBVIOUS
  <1>1. /\ Elsewhere(loc) /\ agg \in AggType
        /\ ChannelOK(loc, "ch", resultCh, handled) /\ ChannelOK(loc, "batch", agg.batch, handled)
        /\ SentOK(loc, agg.sent, handled)
    BY PlacedElsewhere
  <1>2. /\ q \in Seq(Results) /\ z \in Results /\ z.req \in Here(loc, "ch", None)
        /\ Lists(Reqs(q), Here(loc, "ch", None) \ {z.req})
    BY <1>0, <1>1, ResultsTail DEF ChannelOK
  <1>3. /\ \A n \in DOMAIN q : \E m \in DOMAIN resultCh : q[n] = resultCh[m]
        /\ \E m \in DOMAIN resultCh : z = resultCh[m]
    BY SMT, <1>0, <1>1 DEF ChannelOK
  <1>4. /\ z.to = StreamOf(z.req) /\ Honest(z, handled)
        /\ \A n \in DOMAIN q : q[n].to = StreamOf(q[n].req) /\ Honest(q[n], handled)
    BY <1>1, <1>3 DEF ChannelOK
  <1>5. PICK mid : mid = Moved(loc, {z.req}, "batch", None)
    OBVIOUS
  <1>6. /\ Elsewhere(mid)
        /\ Here(mid, "batch", None) = Here(loc, "batch", None) \cup {z.req}
        /\ Here(mid, "ch", None) = Here(loc, "ch", None) \ {z.req}
        /\ Here(mid, "sent", None) = Here(loc, "sent", None)
    BY SMTT(40), <1>1, <1>2, <1>5, ResultsMove DEF ResultPlaces
  <1>7. ChannelOK(mid, "ch", q, handled)
    BY <1>2, <1>4, <1>6 DEF ChannelOK
  <1>8. ChannelOK(mid, "batch", b, handled)
    <2>1. z.req \notin Here(loc, "batch", None)
      BY SMT, <1>2 DEF Here
    <2> QED BY <1>0, <1>1, <1>2, <1>4, <1>6, <2>1, ResultIn
  <1>9. SentOK(mid, agg.sent, handled)
    BY <1>1, <1>6 DEF SentOK
  <1> QED BY <1>0, <1>6, <1>7, <1>8, <1>9

\* It flushes a full batch.
LEMMA CollectMoves ==
  ASSUME NEW loc, Placed(loc), Collect
  PROVE  Places'
  <1>0. PICK z, q, b : z = Head(resultCh) /\ q = Tail(resultCh) /\ b = Append(agg.batch, z)
    OBVIOUS
  <1>1. agg \in AggType
    BY DEF Placed
  <1>2. PICK mid : /\ Elsewhere(mid) /\ ChannelOK(mid, "ch", q, handled)
                   /\ ChannelOK(mid, "batch", b, handled) /\ SentOK(mid, agg.sent, handled)
    BY <1>0, Collected DEF Collect
  <1>3. /\ UNCHANGED <<str, inc, routes, handled>> /\ resultCh' = q
        /\ agg' = IF FullBatch(b) THEN Flushed(b) ELSE [agg EXCEPT !.batch = b]
    BY <1>0 DEF Collect
  <1>4. CASE ~FullBatch(b)
    <2>1. b \in Seq(Results)
      BY <1>2 DEF ChannelOK
    <2>2. agg' \in AggType /\ agg'.batch = b /\ agg'.sent = agg.sent
      BY <1>1, <1>3, <1>4, <2>1 DEF AggType
    <2>3. /\ ChannelOK(mid, "batch", agg'.batch, handled) /\ SentOK(mid, agg'.sent, handled)
          /\ ChannelOK(mid, "ch", resultCh', handled)
      BY <1>2, <1>3, <2>2
    <2> QED BY <1>2, <1>3, <2>2, <2>3, AggregatorMoves
  <1>5. CASE FullBatch(b)
    <2>1. PICK to : to = Moved(mid, Here(mid, "batch", None), "sent", None)
      OBVIOUS
    <2>2. agg' = Flushed(b)
      BY <1>3, <1>5
    <2>3. /\ Elsewhere(to) /\ ChannelOK(to, "batch", <<>>, handled)
          /\ Here(to, "ch", None) = Here(mid, "ch", None)
          /\ agg' \in AggType /\ agg'.batch = <<>> /\ SentOK(to, agg'.sent, handled)
      BY <1>1, <1>2, <2>1, <2>2, FlushMoves
    <2>4. ChannelOK(to, "ch", resultCh', handled) /\ ChannelOK(to, "batch", agg'.batch, handled)
      BY <1>2, <1>3, <2>3, ChannelSame
    <2> QED BY <1>3, <2>3, <2>4, AggregatorMoves
  <1> QED BY <1>4, <1>5
-----------------------------------------------------------------------------
(* Actors that are new, in a map, or being evicted.                        *)

\* An actor not yet made has nothing.
Fresh(i) ==
  i > made => /\ inc[i].queue = <<>> /\ inc[i].list = <<>>
              /\ inc[i].pc = "none" /\ inc[i].drain = "none"

\* An actor is evicted once: nobody drains an actor of a map, or one that is
\* about to be stopped by the one stream that took it out of its map.
Evicting ==
  /\ \A k \in Keys : actors[k] # None => inc[actors[k]].drain = "none"
  /\ \A s \in Streams : str[s].pc = "killStop" =>
       inc[Act(s)].drain = "none" /\ \A k \in Keys : actors[k] # Act(s)
  /\ \A s, t \in Streams :
       str[s].pc = "killStop" /\ str[t].pc = "killStop" /\ Act(s) = Act(t) => s = t

MapInv == (\A i \in Incs : Fresh(i)) /\ Evicting

\* The actor that a stream, a map or a step names has been made.
LEMMA MadeActor ==
  ASSUME IInv
  PROVE  /\ \A s \in Streams : str[s].pc \in {"killStop", "route", "put", "undo"} =>
              Act(s) \in Incs /\ ~(Act(s) > made)
         /\ \A k \in Keys : actors[k] # None => actors[k] \in Incs /\ ~(actors[k] > made)
  <1>1. made \in Nat /\ made <= MaxActors /\ MaxActors \in Nat
    BY SMT, NodeAssumption DEF IInv, RecordsOK
  <1>2. \A n \in 1 .. made : n \in Incs /\ ~(n > made)
    BY SMT, <1>1 DEF Incs
  <1>3. \A s \in Streams : str[s].pc \in {"killStop", "route", "put", "undo"} => Act(s) \in 1 .. made
    BY DEF IInv, StreamKnows
  <1>4. \A k \in Keys : actors[k] # None => actors[k] \in Incs /\ actors[k] <= made
    BY DEF IInv, RecordsOK, EntryOK
  <1>5. \A n \in Incs : n <= made => ~(n > made)
    BY SMT, <1>1 DEF Incs
  <1> QED BY <1>2, <1>3, <1>4, <1>5

\* Steps that start, drain and evict no actor.
LEMMA MapKept ==
  ASSUME MapInv, IInv, made' = made,
         \A i \in Incs : i > made => inc'[i] = inc[i],
         \A i \in Incs : inc[i].drain = "none" => inc'[i].drain = "none",
         \A k \in Keys : actors'[k] = actors[k] \/ actors'[k] = None,
         \A s \in Streams : str'[s].pc = "killStop" =>
           str[s].pc = "killStop" /\ str'[s].act = str[s].act
  PROVE  MapInv'
  <1>1. ASSUME NEW i \in Incs PROVE Fresh(i)'
    BY DEF MapInv, Fresh
  <1>2. ASSUME NEW k \in Keys, actors'[k] # None PROVE inc'[actors'[k]].drain = "none"
    <2>1. actors'[k] = actors[k] /\ actors[k] \in Incs
      BY <1>2, MadeActor
    <2>2. inc[actors[k]].drain = "none"
      BY <1>2, <2>1 DEF MapInv, Evicting
    <2> QED BY <2>1, <2>2
  <1>3. ASSUME NEW s \in Streams, str'[s].pc = "killStop"
        PROVE  Act(s)' = Act(s) /\ inc'[Act(s)].drain = "none" /\ \A k \in Keys : actors'[k] # Act(s)
    <2>1. str[s].pc = "killStop" /\ Act(s)' = Act(s)
      BY <1>3 DEF Act
    <2>2. Act(s) \in Incs /\ inc[Act(s)].drain = "none" /\ \A k \in Keys : actors[k] # Act(s)
      BY <2>1, MadeActor DEF MapInv, Evicting
    <2>3. Act(s) # None
      BY SMT, <2>2 DEF Incs, None
    <2> QED BY <2>1, <2>2, <2>3
  <1>4. ASSUME NEW s \in Streams, NEW t \in Streams, str'[s].pc = "killStop", str'[t].pc = "killStop",
               Act(s)' = Act(t)'
        PROVE  s = t
    <2>1. str[s].pc = "killStop" /\ str[t].pc = "killStop" /\ Act(s) = Act(t)
      BY <1>3, <1>4
    <2> QED BY <2>1 DEF MapInv, Evicting
  <1>5. Evicting'
    BY <1>2, <1>3, <1>4 DEF Evicting
  <1> QED BY <1>1, <1>5 DEF MapInv

\* forceKillLocalActor takes the actor out of the one map entry it has.
LEMMA KillEvicts ==
  ASSUME MapInv, IInv, NEW s \in Streams, Kill(s)
  PROVE  MapInv'
  <1>0. PICK i : i = actors[Key(s)]
    OBVIOUS
  <1>1. str[s] \in StrType /\ Key(s) \in Keys /\ str[s].pc = "kill"
    BY Envelope DEF Kill
  <1>2. /\ made' = made /\ inc' = inc
        /\ str'[s].act = i /\ str'[s].pc = IF i = None THEN "reply" ELSE "killStop"
        /\ \A t \in Streams \ {s} : str'[t] = str[t] /\ Act(t)' = Act(t)
        /\ actors'[Key(s)] = None
        /\ \A k \in Keys \ {Key(s)} : actors'[k] = actors[k]
    BY <1>0, <1>1 DEF Kill, Find, IInv, RecordsOK, StrType, Act
  <1>3. CASE i = None
    <2>1. \A k \in Keys : actors'[k] = actors[k] \/ actors'[k] = None
      BY <1>2
    <2>2. \A t \in Streams : str'[t].pc = "killStop" =>
            str[t].pc = "killStop" /\ str'[t].act = str[t].act
      BY <1>2, <1>3
    <2> QED BY <1>2, <2>1, <2>2, MapKept
  <1>4. CASE i # None
    <2>1. Act(s)' = i /\ inc'[i].drain = "none" /\ str'[s].pc = "killStop"
      BY ZenonT(40), <1>0, <1>1, <1>2, <1>4 DEF MapInv, Evicting, Act
    <2>2. ASSUME NEW k \in Keys PROVE actors'[k] # i
      <3>1. actors[k] = i => k = Key(s)
        BY <1>0, <1>1, <1>4 DEF IInv, EntryOK
      <3> QED BY <1>2, <1>4, <3>1
    <2>3. ASSUME NEW t \in Streams \ {s}, str'[t].pc = "killStop"
          PROVE  Act(t)' # i /\ inc'[Act(t)'].drain = "none" /\ \A k \in Keys : actors'[k] # Act(t)'
      <3>1. Act(t)' = Act(t) /\ str[t].pc = "killStop"
        BY <1>2, <2>3
      <3>2. inc[Act(t)].drain = "none" /\ \A k \in Keys : actors[k] # Act(t)
        BY <3>1 DEF MapInv, Evicting
      <3>3. Act(t) # None
        BY SMT, <3>1, MadeActor DEF Incs, None
      <3> QED BY <1>0, <1>1, <1>2, <3>1, <3>2, <3>3
    <2>4. ASSUME NEW k \in Keys, actors'[k] # None PROVE inc'[actors'[k]].drain = "none"
      BY <1>2, <2>4 DEF MapInv, Evicting
    <2>5. ASSUME NEW t \in Streams \ {s}, NEW u \in Streams \ {s}, str'[t].pc = "killStop",
                 str'[u].pc = "killStop", Act(t)' = Act(u)'
          PROVE  t = u
      <3>1. str[t].pc = "killStop" /\ str[u].pc = "killStop" /\ Act(t) = Act(u)
        BY SMT, <1>2, <2>5
      <3> QED BY <3>1 DEF MapInv, Evicting
    <2>6. Evicting'
      BY SMT, <2>1, <2>2, <2>3, <2>4, <2>5 DEF Evicting
    <2> QED BY <1>2, <2>6 DEF MapInv, Fresh
  <1> QED BY <1>3, <1>4

\* The evicted actor is stopped, and a goroutine will drain it.
LEMMA KillStopEvicts ==
  ASSUME MapInv, IInv, NEW s \in Streams, KillStop(s)
  PROVE  MapInv'
  <1>0. PICK i : i = Act(s)
    OBVIOUS
  <1>1. str[s] \in StrType /\ str[s].pc = "killStop"
    BY DEF KillStop, IInv, RecordsOK
  <1>2. i \in Incs /\ ~(i > made) /\ i # None
    BY SMT, <1>0, <1>1, MadeActor DEF Incs, None
  <1>3. \A k \in Keys : actors[k] # i
    BY <1>0, <1>1 DEF MapInv, Evicting
  <1>4. /\ made' = made /\ actors' = actors /\ str'[s].pc = "reply"
        /\ \A j \in Incs \ {i} : inc'[j] = inc[j]
        /\ \A t \in Streams \ {s} : str'[t] = str[t] /\ Act(t)' = Act(t)
    BY <1>0, <1>1 DEF KillStop, Goto, IInv, RecordsOK, StrType, Act
  <1>5. ASSUME NEW t \in Streams, str'[t].pc = "killStop"
        PROVE  str[t].pc = "killStop" /\ Act(t)' = Act(t) /\ t # s /\ Act(t) \in Incs \ {i}
    <2>1. t # s
      BY SMT, <1>4, <1>5
    <2>2. str[t].pc = "killStop" /\ Act(t)' = Act(t)
      BY <1>4, <1>5, <2>1
    <2> QED BY <1>0, <1>1, <2>1, <2>2, MadeActor DEF MapInv, Evicting
  <1>6. ASSUME NEW t \in Streams, str'[t].pc = "killStop"
        PROVE  inc'[Act(t)'].drain = "none" /\ \A k \in Keys : actors'[k] # Act(t)'
    <2>1. str[t].pc = "killStop" /\ Act(t)' = Act(t) /\ inc'[Act(t)] = inc[Act(t)]
      BY <1>4, <1>5, <1>6
    <2>2. inc[Act(t)].drain = "none" /\ \A k \in Keys : actors[k] # Act(t)
      BY <2>1 DEF MapInv, Evicting
    <2> QED BY SMT, <1>4, <2>1, <2>2
  <1>7. ASSUME NEW k \in Keys, actors'[k] # None PROVE inc'[actors'[k]].drain = "none"
    <2>1. actors'[k] = actors[k] /\ actors[k] \in Incs \ {i}
      BY <1>3, <1>4, <1>7, MadeActor
    <2>2. inc'[actors[k]] = inc[actors[k]] /\ inc[actors[k]].drain = "none"
      BY <1>4, <1>7, <2>1 DEF MapInv, Evicting
    <2> QED BY <2>1, <2>2
  <1>8. ASSUME NEW t \in Streams, NEW u \in Streams, str'[t].pc = "killStop",
               str'[u].pc = "killStop", Act(t)' = Act(u)'
        PROVE  t = u
    <2>1. str[t].pc = "killStop" /\ str[u].pc = "killStop" /\ Act(t) = Act(u)
      BY <1>5, <1>8
    <2> QED BY <2>1 DEF MapInv, Evicting
  <1>9. Evicting'
    BY <1>6, <1>7, <1>8 DEF Evicting
  <1>10. ASSUME NEW j \in Incs PROVE Fresh(j)'
    BY <1>2, <1>4 DEF MapInv, Fresh
  <1> QED BY <1>9, <1>10 DEF MapInv

\* A new actor has nothing and nobody evicts it.
LEMMA RehydratedEvicts ==
  ASSUME MapInv, IInv, NEW s \in Streams, Rehydrated(s)
  PROVE  MapInv'
  <1>0. PICK i : i = made'
    OBVIOUS
  <1>1. str[s] \in StrType /\ Key(s) \in Keys /\ str[s].pc = "rehydrate"
    BY Envelope DEF Rehydrated
  <1>2. i \in Incs /\ i > made /\ \A j \in Incs : j > i => j > made /\ j # i
    BY SMT, <1>0, NodeAssumption DEF Rehydrated, IInv, RecordsOK, Incs
  <1>3. /\ inc'[i] = NewActor(Key(s)) /\ str'[s].pc = "route" /\ actors'[Key(s)] = i
        /\ \A k \in Keys \ {Key(s)} : actors'[k] = actors[k]
        /\ \A j \in Incs \ {i} : inc'[j] = inc[j]
        /\ \A t \in Streams \ {s} : str'[t] = str[t] /\ Act(t)' = Act(t)
    BY <1>0, <1>1, <1>2 DEF Rehydrated, IInv, RecordsOK, StrType, Act
  <1>4. inc'[i].drain = "none"
    BY SMT, <1>3 DEF NewActor
  <1>5. ASSUME NEW t \in Streams, str'[t].pc = "killStop"
        PROVE  str[t].pc = "killStop" /\ Act(t)' = Act(t) /\ t # s /\ Act(t) \in Incs \ {i}
    <2>1. t # s
      BY SMT, <1>3, <1>5
    <2>2. str[t].pc = "killStop" /\ Act(t)' = Act(t)
      BY <1>3, <1>5, <2>1
    <2> QED BY <1>2, <2>1, <2>2, MadeActor
  <1>6. ASSUME NEW t \in Streams, str'[t].pc = "killStop"
        PROVE  inc'[Act(t)'].drain = "none" /\ \A k \in Keys : actors'[k] # Act(t)'
    <2>1. str[t].pc = "killStop" /\ Act(t)' = Act(t) /\ inc'[Act(t)] = inc[Act(t)] /\ Act(t) # i
      BY <1>3, <1>5, <1>6
    <2>2. inc[Act(t)].drain = "none" /\ \A k \in Keys : actors[k] # Act(t)
      BY <2>1 DEF MapInv, Evicting
    <2> QED BY SMT, <1>3, <2>1, <2>2
  <1>7. ASSUME NEW k \in Keys, actors'[k] # None PROVE inc'[actors'[k]].drain = "none"
    <2>1. CASE k = Key(s)
      BY <1>3, <1>4, <2>1
    <2>2. CASE k # Key(s)
      <3>1. actors'[k] = actors[k] /\ actors[k] \in Incs /\ actors[k] # i
        BY <1>2, <1>3, <1>7, <2>2, MadeActor
      <3>2. inc'[actors[k]] = inc[actors[k]] /\ inc[actors[k]].drain = "none"
        BY <1>3, <1>7, <3>1 DEF MapInv, Evicting
      <3> QED BY <3>1, <3>2
    <2> QED BY <2>1, <2>2
  <1>8. ASSUME NEW t \in Streams, NEW u \in Streams, str'[t].pc = "killStop",
               str'[u].pc = "killStop", Act(t)' = Act(u)'
        PROVE  t = u
    <2>1. str[t].pc = "killStop" /\ str[u].pc = "killStop" /\ Act(t) = Act(u)
      BY <1>5, <1>8
    <2> QED BY <2>1 DEF MapInv, Evicting
  <1>9. Evicting'
    BY <1>6, <1>7, <1>8 DEF Evicting
  <1>10. ASSUME NEW j \in Incs PROVE Fresh(j)'
    <2> SUFFICES ASSUME j > i PROVE Fresh(j)'
      BY <1>0 DEF Fresh
    <2>1. inc'[j] = inc[j] /\ j > made
      BY <1>2, <1>3
    <2> QED BY <2>1 DEF MapInv, Fresh
  <1> QED BY <1>9, <1>10 DEF MapInv
-----------------------------------------------------------------------------
(* Steps that move no request.                                             *)

LEMMA StreamStill ==
  ASSUME NEW loc, NEW s, NEW x, NEW y, StreamOK(loc, s, x), y.left = x.left, y.todo = x.todo,
         x.pc \notin {"put", "undo"}, y.pc \notin {"put", "undo", "recv"},
         y.pc = "ended" => x.pc = "recv"
  PROVE  StreamOK(loc, s, y)
  BY DEF StreamOK

LEMMA ActorStill ==
  ASSUME NEW loc, NEW i, NEW x, NEW y, ActorOK(loc, i, x), y.queue = x.queue, y.list = x.list,
         y.cur = x.cur,
         y.pc = x.pc \/ (x.pc \notin {"busy", "emit"} /\ y.pc \notin {"busy", "emit"}),
         y.drain = x.drain \/ x.drain = "none"
  PROVE  ActorOK(loc, i, y)
  <1>1. /\ y.pc = "busy" <=> x.pc = "busy"
        /\ y.pc = "emit" <=> x.pc = "emit"
    OBVIOUS
  <1>2. y.drain # "reply" => y.list = <<>>
    BY DEF ActorOK
  <1> QED BY <1>1, <1>2 DEF ActorOK

LEMMA Still ==
  ASSUME NEW loc, Placed(loc), UNCHANGED <<resultCh, agg, routes, handled>>,
         \A s \in Streams : str'[s] = str[s] \/ StreamOK(loc, s, str'[s]),
         \A i \in Incs : inc'[i] = inc[i] \/ ActorOK(loc, i, inc'[i])
  PROVE  Places'
  <1>1. Placed(loc)'
    BY DEF Placed
  <1> QED BY <1>1 DEF Places, Placed

\* The streams' steps before an envelope has a route.
LEMMA StreamSteps ==
  ASSUME IInv, NEW loc, Placed(loc), NEW s \in Streams,
         \/ StreamEnd(s) \/ Check(s) \/ Kill(s) \/ Lookup(s) \/ Create(s) \/ RehydrateFailed(s)
  PROVE  Places'
  <1>1. str[s] \in StrType /\ StreamOK(loc, s, str[s])
    BY StreamFacts
  <1>2. UNCHANGED <<inc, resultCh, agg, routes, handled>>
    BY DEF StreamEnd, Check, Kill, Lookup, Create, RehydrateFailed
  <1>3. str[s].pc \notin {"put", "undo"}
    BY DEF StreamEnd, Check, Kill, Lookup, Create, RehydrateFailed
  <1>4. PICK l \in {"ended", "reply", "kill", "killStop", "lookup", "create", "rehydrate", "route"} :
          /\ \/ str' = [str EXCEPT ![s].pc = l]
             \/ \E m : str' = [str EXCEPT ![s].act = m, ![s].pc = l]
          /\ l = "ended" => str[s].pc = "recv"
    <2>1. CASE StreamEnd(s)
      BY <2>1 DEF StreamEnd, Goto
    <2>2. CASE Check(s)
      BY <2>2 DEF Check, Goto
    <2>3. CASE Kill(s)
      BY <2>3 DEF Kill, Find
    <2>4. CASE Lookup(s)
      BY <2>4 DEF Lookup, Find
    <2>5. CASE Create(s)
      BY <2>5 DEF Create, Find
    <2>6. CASE RehydrateFailed(s)
      BY <2>6 DEF RehydrateFailed, Goto
    <2> QED BY <2>1, <2>2, <2>3, <2>4, <2>5, <2>6
  <1>5. /\ str'[s].left = str[s].left /\ str'[s].todo = str[s].todo /\ str'[s].pc = l
        /\ \A t \in Streams \ {s} : str'[t] = str[t]
    <2>1. CASE str' = [str EXCEPT ![s].pc = l]
      BY <1>1, <2>1 DEF IInv, RecordsOK, StrType
    <2>2. CASE \E m : str' = [str EXCEPT ![s].act = m, ![s].pc = l]
      <3>1. PICK m : str' = [str EXCEPT ![s] = [str[s] EXCEPT !.act = m, !.pc = l]]
        BY <2>2
      <3> QED BY <1>1, <3>1 DEF IInv, RecordsOK, StrType
    <2> QED BY <1>4, <2>1, <2>2
  <1>6. StreamOK(loc, s, str'[s])
    BY SMT, <1>1, <1>3, <1>4, <1>5, StreamStill
  <1> QED BY <1>2, <1>5, <1>6, Still

\* Stop changes the phase of an actor only.
LEMMA StoppedStill ==
  ASSUME IInv, NEW loc, Placed(loc), NEW i \in Incs
  PROVE  /\ ActorOK(loc, i, Stopped(i)) /\ Stopped(i).drain = inc[i].drain
         /\ inc[i].drain = "none" => ActorOK(loc, i, [Stopped(i) EXCEPT !.drain = "wait"])
  <1>1. inc[i] \in IncType /\ ActorOK(loc, i, inc[i])
    BY ActorFacts
  <1>2. PICK l, y : y = [inc[i] EXCEPT !.phase = l] /\ Stopped(i) = y
    BY DEF Stopped
  <1>3. /\ y.queue = inc[i].queue /\ y.list = inc[i].list /\ y.cur = inc[i].cur
        /\ y.pc = inc[i].pc /\ y.drain = inc[i].drain
    BY <1>1, <1>2 DEF IncType
  <1>4. PICK z : z = [y EXCEPT !.drain = "wait"]
    OBVIOUS
  <1>5. /\ z.queue = inc[i].queue /\ z.list = inc[i].list /\ z.cur = inc[i].cur
        /\ z.pc = inc[i].pc
    BY <1>1, <1>2, <1>4 DEF IncType
  <1>6. ActorOK(loc, i, y)
    BY <1>1, <1>3, ActorStill
  <1>7. inc[i].drain = "none" => ActorOK(loc, i, z)
    BY <1>1, <1>5, ActorStill
  <1> QED BY <1>2, <1>3, <1>4, <1>6, <1>7

LEMMA KillStopStill ==
  ASSUME IInv, MapInv, NEW loc, Placed(loc), NEW s \in Streams, KillStop(s)
  PROVE  Places'
  <1>0. PICK i : i = Act(s)
    OBVIOUS
  <1>1. str[s] \in StrType /\ StreamOK(loc, s, str[s]) /\ str[s].pc = "killStop"
    BY StreamFacts DEF KillStop
  <1>2. i \in Incs /\ inc[i].drain = "none"
    BY <1>0, <1>1, MadeActor DEF MapInv, Evicting
  <1>3. /\ str'[s].left = str[s].left /\ str'[s].todo = str[s].todo /\ str'[s].pc = "reply"
        /\ \A t \in Streams \ {s} : str'[t] = str[t]
    BY <1>1 DEF KillStop, Goto, IInv, RecordsOK, StrType
  <1>4. StreamOK(loc, s, str'[s])
    BY SMT, <1>1, <1>3, StreamStill
  <1>5. /\ inc'[i] = [Stopped(i) EXCEPT !.drain = "wait"]
        /\ \A j \in Incs \ {i} : inc'[j] = inc[j]
        /\ UNCHANGED <<resultCh, agg, routes, handled>>
    BY <1>0, <1>2 DEF KillStop, IInv, RecordsOK
  <1>6. ActorOK(loc, i, inc'[i])
    BY ZenonT(40), <1>2, <1>5, StoppedStill
  <1> QED BY <1>3, <1>4, <1>5, <1>6, Still

LEMMA RehydratedStill ==
  ASSUME IInv, MapInv, NEW loc, Placed(loc), NEW s \in Streams, Rehydrated(s)
  PROVE  Places'
  <1>0. PICK i, y : i = made' /\ y = NewActor(Key(s))
    OBVIOUS
  <1>1. str[s] \in StrType /\ StreamOK(loc, s, str[s]) /\ str[s].pc = "rehydrate"
    BY StreamFacts DEF Rehydrated
  <1>2. i \in Incs /\ i > made
    BY SMT, <1>0, NodeAssumption DEF Rehydrated, IInv, RecordsOK, Incs
  <1>3. /\ str'[s].left = str[s].left /\ str'[s].todo = str[s].todo /\ str'[s].pc = "route"
        /\ \A t \in Streams \ {s} : str'[t] = str[t]
    <2>1. str' = [str EXCEPT ![s] = [str[s] EXCEPT !.act = i, !.pc = "route"]]
      BY <1>0 DEF Rehydrated
    <2> QED BY <1>1, <2>1 DEF IInv, RecordsOK, StrType
  <1>4. StreamOK(loc, s, str'[s])
    BY SMT, <1>1, <1>3, StreamStill
  <1>5. /\ inc'[i] = y /\ \A j \in Incs \ {i} : inc'[j] = inc[j]
        /\ UNCHANGED <<resultCh, agg, routes, handled>>
    BY <1>0, <1>2 DEF Rehydrated, IInv, RecordsOK
  <1>6. /\ inc[i].queue = <<>> /\ inc[i].list = <<>> /\ inc[i].pc = "none"
        /\ ActorOK(loc, i, inc[i])
    BY <1>2, ActorFacts DEF MapInv, Fresh
  <1>7. y.queue = <<>> /\ y.list = <<>> /\ y.pc = "loop"
    BY SMT, <1>0 DEF NewActor
  <1>8. ActorOK(loc, i, y)
    BY SMT, <1>6, <1>7 DEF ActorOK
  <1> QED BY <1>3, <1>4, <1>5, <1>8, Still

LEMMA LoopStill ==
  ASSUME IInv, NEW loc, Placed(loc), NEW i \in Incs,
         (Dequeue(i) /\ inc[i].queue = <<>>) \/ Empty(i) \/ Wake(i)
  PROVE  Places'
  <1>1. inc[i] \in IncType /\ ActorOK(loc, i, inc[i]) /\ inc[i].pc \notin {"busy", "emit"}
    BY ActorFacts DEF Dequeue, Empty, Wake
  <1>2. PICK l \in {"empty", "end", "wait", "loop"} :
          \/ inc' = [inc EXCEPT ![i].pc = l]
          \/ \E m : inc' = [inc EXCEPT ![i].pc = l, ![i].phase = m]
    <2>1. CASE Dequeue(i) /\ inc[i].queue = <<>>
      BY <2>1 DEF Dequeue, At
    <2>2. CASE Empty(i)
      BY <2>2 DEF Empty
    <2>3. CASE Wake(i)
      BY <2>3 DEF Wake, At
    <2> QED BY <2>1, <2>2, <2>3
  <1>3. /\ inc'[i].queue = inc[i].queue /\ inc'[i].list = inc[i].list /\ inc'[i].cur = inc[i].cur
        /\ inc'[i].drain = inc[i].drain /\ inc'[i].pc = l
        /\ \A j \in Incs \ {i} : inc'[j] = inc[j]
    <2>1. CASE inc' = [inc EXCEPT ![i].pc = l]
      BY <1>1, <2>1 DEF IInv, RecordsOK, IncType
    <2>2. CASE \E m : inc' = [inc EXCEPT ![i].pc = l, ![i].phase = m]
      <3>1. PICK m : inc' = [inc EXCEPT ![i] = [inc[i] EXCEPT !.pc = l, !.phase = m]]
        BY <2>2
      <3> QED BY <1>1, <3>1 DEF IInv, RecordsOK, IncType
    <2> QED BY <1>2, <2>1, <2>2
  <1>4. ActorOK(loc, i, inc'[i])
    BY SMTT(40), <1>1, <1>3, ActorStill
  <1>5. UNCHANGED <<str, resultCh, agg, routes, handled>>
    BY DEF Dequeue, Empty, Wake
  <1> QED BY <1>3, <1>4, <1>5, Still

\* Passivation and Stop.
LEMMA RetireStill ==
  ASSUME IInv, NEW loc, Placed(loc), NEW i \in Incs, inc' = [inc EXCEPT ![i] = Stopped(i)],
         UNCHANGED <<str, resultCh, agg, routes, handled>>
  PROVE  Places'
  <1>1. inc'[i] = Stopped(i) /\ \A j \in Incs \ {i} : inc'[j] = inc[j]
    BY DEF IInv, RecordsOK
  <1>2. ActorOK(loc, i, inc'[i])
    BY <1>1, StoppedStill
  <1> QED BY <1>1, <1>2, Still

LEMMA RetireEvicts ==
  ASSUME IInv, MapInv, NEW k \in Keys, NEW i \in Incs, actors[k] = i,
         inc' = [inc EXCEPT ![i] = Stopped(i)], actors' = [actors EXCEPT ![k] = None],
         UNCHANGED <<made, str>>
  PROVE  MapInv'
  <1>1. inc'[i] = Stopped(i) /\ \A j \in Incs \ {i} : inc'[j] = inc[j]
    BY DEF IInv, RecordsOK
  <1>2. Stopped(i).drain = inc[i].drain
    <2>1. inc[i] \in IncType
      BY DEF IInv, RecordsOK
    <2>2. PICK l : Stopped(i) = [inc[i] EXCEPT !.phase = l]
      BY DEF Stopped
    <2> QED BY <2>1, <2>2 DEF IncType
  <1>3. ~(i > made)
    <2>1. actors[k] # None
      BY SMT DEF Incs, None
    <2> QED BY <2>1, MadeActor
  <1>4. \A j \in Keys : actors'[j] = actors[j] \/ actors'[j] = None
    BY DEF IInv, RecordsOK
  <1>5. /\ \A j \in Incs : j > made => inc'[j] = inc[j]
        /\ \A j \in Incs : inc[j].drain = "none" => inc'[j].drain = "none"
    BY <1>1, <1>2, <1>3
  <1> QED BY <1>4, <1>5, MapKept

\* The streams' steps that evict nobody.
LEMMA StreamEvicts ==
  ASSUME IInv, MapInv, NEW s \in Streams,
         \/ Receive(s) \/ StreamEnd(s) \/ Check(s) \/ Reply(s) \/ Lookup(s) \/ Create(s)
         \/ RehydrateFailed(s) \/ Route(s) \/ Put(s) \/ Undo(s)
  PROVE  MapInv'
  <1>1. str \in [Streams -> StrType] /\ str[s] \in StrType
    BY DEF IInv, RecordsOK
  <1>2. (\A t \in Streams \ {s} : str'[t] = str[t]) /\ str'[s].pc # "killStop"
    <2>1. CASE Receive(s)
      BY SMT, <1>1, <2>1 DEF Receive, StrType
    <2>2. CASE StreamEnd(s) \/ Check(s) \/ RehydrateFailed(s) \/ Route(s) \/ Undo(s)
      <3>1. PICK l : Goto(s, l) /\ l # "killStop"
        BY SMTT(40), <2>2 DEF StreamEnd, Check, RehydrateFailed, Route, Undo
      <3> QED BY <1>1, <3>1 DEF Goto, StrType
    <2>3. CASE Lookup(s) \/ Create(s)
      BY SMT, <1>1, <2>3 DEF Lookup, Create, Find, StrType
    <2>4. CASE Reply(s) \/ Put(s)
      <3>1. NextEnvelope(s) /\ str[s].pc \notin {"recv", "ended"}
        BY SMT, <2>4 DEF Reply, Put
      <3>2. PICK x \in StrType : str' = [str EXCEPT ![s] = x] /\ x.pc \in {"recv", "reply", "check"}
        BY <3>1, NextEnvelopeIs
      <3> QED BY SMT, <1>1, <3>2
    <2> QED BY <2>1, <2>2, <2>3, <2>4
  <1>3. made' = made
    BY DEF Receive, StreamEnd, Check, Reply, Lookup, Create, RehydrateFailed, Route, Put, Undo
  <1>4. /\ \A i \in Incs : i > made => inc'[i] = inc[i]
        /\ \A i \in Incs : inc[i].drain = "none" => inc'[i].drain = "none"
    <2>1. CASE Put(s)
      <3>1. Act(s) \in Incs /\ ~(Act(s) > made)
        BY <2>1, MadeActor DEF Put
      <3>2. PICK q : inc' = [inc EXCEPT ![Act(s)].queue = q]
        BY <2>1 DEF Put
      <3>3. /\ \A j \in Incs \ {Act(s)} : inc'[j] = inc[j]
            /\ inc'[Act(s)] = [inc[Act(s)] EXCEPT !.queue = q]
        BY <3>1, <3>2 DEF IInv, RecordsOK
      <3>4. inc[Act(s)] \in IncType
        BY <3>1 DEF IInv, RecordsOK
      <3>5. inc'[Act(s)].drain = inc[Act(s)].drain
        BY <3>3, <3>4 DEF IncType
      <3> QED BY <3>1, <3>3, <3>5
    <2>2. CASE ~Put(s)
      BY <2>2 DEF Receive, StreamEnd, Check, Reply, Lookup, Create, RehydrateFailed, Route, Undo
    <2> QED BY <2>1, <2>2
  <1>5. \A k \in Keys : actors'[k] = actors[k] \/ actors'[k] = None
    <2>1. CASE Undo(s)
      BY SMTT(40), <2>1 DEF Undo, Evict, IInv, RecordsOK
    <2>2. CASE ~Undo(s)
      BY <2>2 DEF Receive, StreamEnd, Check, Reply, Lookup, Create, RehydrateFailed, Route, Put
    <2> QED BY <2>1, <2>2
  <1>6. \A t \in Streams : str'[t].pc = "killStop" =>
          str[t].pc = "killStop" /\ str'[t].act = str[t].act
    BY <1>2
  <1> QED BY <1>3, <1>4, <1>5, <1>6, MapKept

\* The steps of actors and of the goroutines that drain them.
LEMMA ActorEvicts ==
  ASSUME IInv, MapInv, NEW i \in Incs, LoopNext(i) \/ Drain(i) \/ DrainReply(i)
  PROVE  MapInv'
  <1>1. inc \in [Incs -> IncType] /\ inc[i] \in IncType
    BY DEF IInv, RecordsOK
  <1>2. UNCHANGED <<made, actors, str>>
    BY DEF LoopNext, Dequeue, Handle, Emit, Empty, Wake, Drain, DrainReply
  <1>3. ~(i > made)
    <2> SUFFICES ASSUME i > made PROVE FALSE
      OBVIOUS
    <2>1. inc[i].pc = "none" /\ inc[i].drain = "none"
      BY DEF MapInv, Fresh
    <2> QED BY SMT, <2>1 DEF LoopNext, Dequeue, Handle, Emit, Empty, Wake, Drain, DrainReply
  <1>4. /\ \A j \in Incs \ {i} : inc'[j] = inc[j]
        /\ inc[i].drain = "none" => inc'[i].drain = "none"
    <2>1. CASE Dequeue(i)
      BY SMT, <1>1, <2>1 DEF Dequeue, At, IncType
    <2>2. CASE Handle(i)
      BY SMT, <1>1, <2>2 DEF Handle, IncType
    <2>3. CASE Emit(i)
      BY <1>1, <2>3 DEF Emit, IncType
    <2>4. CASE Empty(i)
      BY SMT, <1>1, <2>4 DEF Empty, IncType
    <2>5. CASE Wake(i)
      BY <1>1, <2>5 DEF Wake, At, IncType
    <2>6. CASE Drain(i)
      <3>1. inc[i].drain # "none" /\ inc' = [inc EXCEPT ![i] = Drained(i)]
        BY SMT, <2>6 DEF Drain
      <3> QED BY <1>1, <3>1
    <2>7. CASE DrainReply(i)
      BY <1>1, <2>7 DEF DrainReply, IncType
    <2> QED BY <2>1, <2>2, <2>3, <2>4, <2>5, <2>6, <2>7 DEF LoopNext
  <1> QED BY <1>2, <1>3, <1>4, MapKept

\* Handle is what makes a result ready to be emitted.
LEMMA ExecutedStep == IInv /\ Executed /\ [Next]_vars => Executed'
  <1> SUFFICES ASSUME IInv, Executed, [Next]_vars PROVE Executed'
    OBVIOUS
  <1>0. inc \in [Incs -> IncType]
    BY DEF IInv, RecordsOK
  <1>1. ASSUME NEW i \in Incs, \A j \in Incs \ {i} : inc'[j] = inc[j], handled \subseteq handled',
               inc'[i].pc = "emit" =>
                 \/ inc[i].pc = "emit" /\ inc'[i].cur = inc[i].cur
                 \/ inc'[i].cur.req \in handled'
        PROVE  Executed'
    BY <1>1 DEF Executed
  <1>2. ASSUME NEW i \in Incs, NEW y, handled' = handled, inc' = [inc EXCEPT ![i] = y],
               y = Stopped(i) \/ y = [Stopped(i) EXCEPT !.drain = "wait"]
        PROVE  Executed'
    <2>1. PICK l, z : z = [inc[i] EXCEPT !.phase = l] /\ Stopped(i) = z
      BY DEF Stopped
    <2>2. z.pc = inc[i].pc /\ z.cur = inc[i].cur
      BY ZenonT(40), <1>0, <2>1 DEF IncType
    <2>3. PICK w : w = [z EXCEPT !.drain = "wait"]
      OBVIOUS
    <2>4. w.pc = inc[i].pc /\ w.cur = inc[i].cur
      BY ZenonT(40), <1>0, <2>1, <2>3 DEF IncType
    <2>5. y.pc = inc[i].pc /\ y.cur = inc[i].cur
      BY <1>2, <2>1, <2>2, <2>3, <2>4
    <2>6. /\ inc'[i].pc = inc[i].pc /\ inc'[i].cur = inc[i].cur
          /\ \A j \in Incs \ {i} : inc'[j] = inc[j]
      BY <1>0, <1>2, <2>5
    <2>7. handled \subseteq handled'
      BY <1>2
    <2> QED BY <1>1, <2>6, <2>7
  <1>3. ASSUME NEW s \in Streams, Receive(s) \/ StreamEnd(s) \/ StreamNext(s)
        PROVE  Executed'
    <2>1. CASE KillStop(s)
      <3>1. Act(s) \in Incs
        BY <2>1, MadeActor DEF KillStop
      <3> QED BY <1>2, <2>1, <3>1 DEF KillStop
    <2>2. CASE Rehydrated(s)
      <3>1. made' \in Incs
        BY SMT, <2>2, NodeAssumption DEF Rehydrated, IInv, RecordsOK, Incs
      <3>2. NewActor(Key(s)).pc # "emit"
        BY DEF NewActor
      <3>3. inc'[made'] = NewActor(Key(s)) /\ \A j \in Incs \ {made'} : inc'[j] = inc[j]
        BY <1>0, <2>2, <3>1 DEF Rehydrated
      <3> QED BY <1>1, <2>2, <3>1, <3>2, <3>3 DEF Rehydrated
    <2>3. CASE Put(s)
      <3>1. Act(s) \in Incs
        BY <2>3, MadeActor DEF Put
      <3>2. /\ inc'[Act(s)].pc = inc[Act(s)].pc /\ inc'[Act(s)].cur = inc[Act(s)].cur
            /\ \A j \in Incs \ {Act(s)} : inc'[j] = inc[j]
        BY <1>0, <2>3, <3>1 DEF Put, IncType
      <3> QED BY <1>1, <2>3, <3>1, <3>2 DEF Put
    <2>4. CASE UNCHANGED <<inc, handled>>
      BY <2>4 DEF Executed
    <2> QED BY <1>3, <2>1, <2>2, <2>3, <2>4 DEF StreamNext, Receive, StreamEnd, Check, Reply, Kill,
              Lookup, Create, RehydrateFailed, Route, Undo
  <1>4. ASSUME NEW i \in Incs, Handle(i) PROVE Executed'
    <2>1. PICK r : r = inc[i].cur.req /\ handled' = handled \cup {r}
      BY <1>4 DEF Handle
    <2>2. /\ inc'[i].pc = "emit" => inc'[i].cur.req = r
          /\ \A j \in Incs \ {i} : inc'[j] = inc[j]
      BY SMT, <1>0, <1>4, <2>1 DEF Handle, IncType, Result
    <2> QED BY <1>1, <2>1, <2>2
  <1>5. ASSUME NEW i \in Incs, Dequeue(i) \/ Emit(i) \/ Empty(i) \/ Wake(i)
        PROVE  Executed'
    <2>1. inc'[i].pc # "emit" /\ \A j \in Incs \ {i} : inc'[j] = inc[j]
      <3>1. CASE Dequeue(i)
        BY SMT, <1>0, <3>1 DEF Dequeue, At, IncType
      <3>2. CASE Emit(i)
        BY SMT, <1>0, <3>2 DEF Emit, IncType
      <3>3. CASE Empty(i)
        BY SMT, <1>0, <3>3 DEF Empty, IncType
      <3>4. CASE Wake(i)
        BY SMT, <1>0, <3>4 DEF Wake, At, IncType
      <3> QED BY <1>5, <3>1, <3>2, <3>3, <3>4
    <2>2. handled' = handled
      BY <1>5 DEF Dequeue, Emit, Empty, Wake
    <2> QED BY <1>1, <2>1, <2>2
  <1>6. ASSUME NEW i \in Incs, Drain(i) \/ DrainReply(i) PROVE Executed'
    <2>1. /\ inc'[i].pc = inc[i].pc /\ inc'[i].cur = inc[i].cur
          /\ \A j \in Incs \ {i} : inc'[j] = inc[j]
      <3>1. CASE Drain(i)
        BY <1>0, <3>1 DEF Drain, Drained, IncType
      <3>2. CASE DrainReply(i)
        BY <1>0, <3>2 DEF DrainReply, IncType
      <3> QED BY <1>6, <3>1, <3>2
    <2>2. handled' = handled
      BY <1>6 DEF Drain, DrainReply
    <2> QED BY <1>1, <2>1, <2>2
  <1>7. ASSUME NEW i \in Incs, Passivate(i) PROVE Executed'
    BY <1>2, <1>7 DEF Passivate
  <1>8. ASSUME NEW k \in Keys, StopActor(k) PROVE Executed'
    <2>1. actors[k] \in Incs
      BY <1>8 DEF StopActor, IInv, RecordsOK
    <2> QED BY <1>2, <1>8, <2>1 DEF StopActor
  <1>9. CASE \/ Collect \/ Tick \/ AggregatorExit \/ StopBegin \/ StopClose \/ StopEnd
             \/ Environment \/ UNCHANGED vars
    <2>1. UNCHANGED <<inc, handled>>
      BY <1>9 DEF Collect, Tick, AggregatorExit, StopBegin, StopClose, StopEnd,
             Environment, Move, Hold, Release, vars
    <2> QED BY <2>1 DEF Executed
  <1> QED BY <1>3, <1>4, <1>5, <1>6, <1>7, <1>8, <1>9
        DEF Next, StopNext, LoopNext, Environment
-----------------------------------------------------------------------------
(* The invariant.                                                          *)

PInv == IInv /\ MapInv /\ Executed /\ Places

\* A request has one stream.
LEMMA StreamOfIs ==
  ASSUME NEW r \in Requests
  PROVE  /\ StreamOf(r) \in Streams
         /\ \E b \in DOMAIN Batches[StreamOf(r)] :
              \E n \in DOMAIN Batches[StreamOf(r)][b] : Batches[StreamOf(r)][b][n] = r
         /\ \A s \in Streams : \A b \in DOMAIN Batches[s] : \A n \in DOMAIN Batches[s][b] :
              Batches[s][b][n] = r => StreamOf(r) = s
  <1>1. PICK t \in Streams : \E b \in DOMAIN Batches[t] : \E n \in DOMAIN Batches[t][b] :
          Batches[t][b][n] = r
    BY DistinctRequests
  <1>2. \E s \in Streams : \E b \in DOMAIN Batches[s] : In(r, Batches[s][b]) # {}
    BY <1>1 DEF In
  <1>3. StreamOf(r) \in Streams /\ \E b \in DOMAIN Batches[StreamOf(r)] :
          In(r, Batches[StreamOf(r)][b]) # {}
    BY <1>2 DEF StreamOf, Home
  <1>4. \E b \in DOMAIN Batches[StreamOf(r)] :
          \E n \in DOMAIN Batches[StreamOf(r)][b] : Batches[StreamOf(r)][b][n] = r
    BY <1>3 DEF In
  <1>5. r # None
    BY NodeAssumption
  <1>6. ASSUME NEW s \in Streams, NEW b \in DOMAIN Batches[s], NEW n \in DOMAIN Batches[s][b],
               Batches[s][b][n] = r
        PROVE  StreamOf(r) = s
    <2>1. PICK u : u = StreamOf(r)
      OBVIOUS
    <2>2. PICK c \in DOMAIN Batches[u] : \E m \in DOMAIN Batches[u][c] : Batches[u][c][m] = r
      BY <1>4, <2>1
    <2>3. PICK m \in DOMAIN Batches[u][c] : Batches[u][c][m] = r
      BY <2>2
    <2>4. u \in Streams
      BY <1>3, <2>1
    <2>5. u = s
      BY SMT, <1>5, <1>6, <2>3, <2>4, DistinctRequests
    <2> QED BY <2>1, <2>5
  <1> QED BY <1>3, <1>4, <1>6

LEMMA InitPlaces == Init => MapInv /\ Places
  <1> SUFFICES ASSUME Init PROVE MapInv /\ Places
    OBVIOUS
  <1>1. PICK loc : loc = [r \in Requests |-> <<"left", StreamOf(r)>>]
    OBVIOUS
  <1>2. loc \in [Requests -> Where]
    BY <1>1, StreamOfIs DEF Where, StreamPlaces
  <1>3. /\ \A s : Here(loc, "left", s) = {r \in Requests : StreamOf(r) = s}
        /\ \A l, x : l # "left" => Here(loc, l, x) = {}
    BY SMT, <1>1 DEF Here
  <1>4. \A S : S = {} => Lists(<<>>, S)
    BY SMT DEF Lists
  <1>5. ASSUME NEW s \in Streams PROVE StreamOK(loc, s, str[s])
    <2>1. str[s].pc = "recv" /\ str[s].todo = <<>> /\ str[s].left = Batches[s]
      BY DEF Init
    <2>2. ListsBatches(Batches[s], Here(loc, "left", s))
      <3>1. \A b \in DOMAIN Batches[s] : \A n \in DOMAIN Batches[s][b] :
              Batches[s][b][n] \in Requests => Batches[s][b][n] \in Here(loc, "left", s)
        <4> SUFFICES ASSUME NEW b \in DOMAIN Batches[s], NEW n \in DOMAIN Batches[s][b],
                            Batches[s][b][n] \in Requests
                     PROVE  Batches[s][b][n] \in Here(loc, "left", s)
          OBVIOUS
        <4>1. StreamOf(Batches[s][b][n]) = s
          BY StreamOfIs
        <4> QED BY SMT, <1>3, <4>1
      <3>2. \A b, c \in DOMAIN Batches[s] :
              \A m \in DOMAIN Batches[s][b], n \in DOMAIN Batches[s][c] :
                Batches[s][b][m] = Batches[s][c][n] /\ Batches[s][b][m] \in Requests => b = c /\ m = n
        <4>1. \A r \in Requests : r # None
          BY NodeAssumption
        <4> QED BY SMT, <4>1, DistinctRequests
      <3>3. \A r \in Here(loc, "left", s) : \E b \in DOMAIN Batches[s] :
              \E n \in DOMAIN Batches[s][b] : Batches[s][b][n] = r
        <4> SUFFICES ASSUME NEW r \in Here(loc, "left", s)
                     PROVE  \E b \in DOMAIN Batches[s] : \E n \in DOMAIN Batches[s][b] :
                              Batches[s][b][n] = r
          OBVIOUS
        <4>1. r \in Requests /\ StreamOf(r) = s
          BY SMT, <1>3
        <4> QED BY <4>1, StreamOfIs
      <3> QED BY <3>1, <3>2, <3>3 DEF ListsBatches
    <2>3. Here(loc, "todo", s) = {} /\ Here(loc, "put", s) = {}
      BY SMT, <1>3
    <2>4. \A l \in StreamPlaces : \A r \in Here(loc, l, s) : StreamOf(r) = s
      BY SMT, <1>3
    <2>5. Lists(str[s].todo, Here(loc, "todo", s) \cup Here(loc, "put", s))
      BY <1>4, <2>1, <2>3
    <2>6. str[s].pc \notin {"put", "undo"}
      BY SMT, <2>1
    <2> QED BY <2>1, <2>2, <2>3, <2>4, <2>5, <2>6 DEF StreamOK
  <1>6. ASSUME NEW i \in Incs
        PROVE  inc[i].queue = <<>> /\ inc[i].list = <<>> /\ inc[i].pc = "none" /\ inc[i].drain = "none"
    <2>1. PICK y : y = NewActor(CHOOSE k \in Keys : TRUE)
      OBVIOUS
    <2>2. inc[i] = [y EXCEPT !.phase = "none", !.pc = "none"]
      BY <2>1 DEF Init
    <2> QED BY SMT, <2>1, <2>2 DEF NewActor
  <1>7. ASSUME NEW i \in Incs PROVE ActorOK(loc, i, inc[i])
    BY SMT, <1>3, <1>4, <1>6 DEF ActorOK
  <1>8. /\ agg.on = TRUE /\ agg.batch = <<>> /\ agg.sent = [r \in Requests |-> <<>>]
        /\ agg \in AggType
    <2>1. <<>> \in Seq(Results)
      BY SMT
    <2>2. PICK none \in Seq(Results), f \in [Requests -> Seq(Results)] :
            none = <<>> /\ f = [r \in Requests |-> <<>>]
      BY <2>1
    <2>3. agg = [on |-> TRUE, batch |-> none, sent |-> f]
      BY <2>2 DEF Init
    <2> QED BY SMT, <2>2, <2>3 DEF AggType
  <1>9. ASSUME NEW l \in ResultPlaces PROVE ChannelOK(loc, l, <<>>, handled)
    <2>1. Here(loc, l, None) = {}
      BY SMT, <1>3 DEF ResultPlaces
    <2>2. DOMAIN Reqs(<<>>) = {} /\ <<>> \in Seq(Results) /\ DOMAIN <<>> = {}
      BY SMT DEF Reqs
    <2> QED BY <2>1, <2>2 DEF ChannelOK, Lists
  <1>10. SentOK(loc, agg.sent, handled)
    BY SMT, <1>3, <1>8 DEF SentOK
  <1>11. RoutesFit(loc, routes) /\ HandledFit(loc, handled)
    <2>1. DOMAIN routes = {} /\ handled = {}
      BY DEF Init
    <2>2. \A r \in Requests : loc[r][1] \notin RoutedPlaces
      BY SMT, <1>1 DEF RoutedPlaces
    <2> QED BY <2>1, <2>2 DEF RoutesFit, HandledFit
  <1>12. Placed(loc)
    <2>1. ChannelOK(loc, "ch", resultCh, handled) /\ ChannelOK(loc, "batch", agg.batch, handled)
      BY <1>8, <1>9 DEF Init, ResultPlaces
    <2> QED BY <1>2, <1>5, <1>7, <1>8, <1>10, <1>11, <2>1 DEF Placed
  <1>13. MapInv
    <2>1. (\A k \in Keys : actors[k] = None) /\ \A s \in Streams : str[s].pc # "killStop"
      BY DEF Init
    <2> QED BY <1>6, <2>1 DEF MapInv, Fresh, Evicting
  <1> QED BY <1>2, <1>12, <1>13 DEF Places

\* The invariant holds in every state.
THEOREM AlwaysPlaced == Spec => []PInv
  <1>1. PInv /\ [Next]_vars => MapInv' /\ Places'
    <2> SUFFICES ASSUME PInv, [Next]_vars PROVE MapInv' /\ Places'
      OBVIOUS
    <2>0. PICK loc : Placed(loc)
      BY DEF PInv, Places
    <2>1. IInv /\ MapInv /\ Executed
      BY DEF PInv
    <2>2. ASSUME NEW s \in Streams, Receive(s) \/ StreamEnd(s) \/ StreamNext(s)
          PROVE  MapInv' /\ Places'
      <3>1. CASE Kill(s)
        BY <2>0, <2>1, <3>1, KillEvicts, StreamSteps
      <3>2. CASE KillStop(s)
        BY <2>0, <2>1, <3>2, KillStopEvicts, KillStopStill
      <3>3. CASE Rehydrated(s)
        BY <2>0, <2>1, <3>3, RehydratedEvicts, RehydratedStill
      <3>4. CASE Receive(s) \/ Reply(s) \/ Route(s) \/ Put(s) \/ Undo(s)
        BY <2>0, <2>1, <3>4, StreamEvicts, ReceiveMoves, ReplyMoves, RouteMoves, PutMoves, UndoMoves
      <3>5. CASE StreamEnd(s) \/ Check(s) \/ Lookup(s) \/ Create(s) \/ RehydrateFailed(s)
        BY <2>0, <2>1, <3>5, StreamEvicts, StreamSteps
      <3> QED BY <2>2, <3>1, <3>2, <3>3, <3>4, <3>5 DEF StreamNext
    <2>3. ASSUME NEW i \in Incs, LoopNext(i) \/ Drain(i) \/ DrainReply(i)
          PROVE  MapInv' /\ Places'
      <3>1. MapInv'
        BY <2>1, <2>3, ActorEvicts
      <3>2. CASE Dequeue(i)
        BY <2>0, <2>1, <3>1, <3>2, DequeueMoves, LoopStill
      <3>3. CASE Empty(i) \/ Wake(i)
        BY <2>0, <2>1, <3>1, <3>3, LoopStill
      <3>4. CASE Handle(i) \/ Emit(i) \/ Drain(i) \/ DrainReply(i)
        BY <2>0, <2>1, <3>1, <3>4, HandleMoves, EmitMoves, DrainMoves, DrainReplyMoves
      <3> QED BY <2>3, <3>2, <3>3, <3>4 DEF LoopNext
    <2>4. ASSUME NEW i \in Incs, Passivate(i)
          PROVE  MapInv' /\ Places'
      <3>1. inc[i].key \in Keys
        BY <2>1 DEF IInv, RecordsOK, IncType
      <3> QED BY <2>0, <2>1, <2>4, <3>1, RetireEvicts, RetireStill DEF Passivate
    <2>5. ASSUME NEW k \in Keys, StopActor(k)
          PROVE  MapInv' /\ Places'
      <3>1. actors[k] \in Incs
        BY <2>1, <2>5 DEF StopActor, IInv, RecordsOK
      <3> QED BY <2>0, <2>1, <2>5, <3>1, RetireEvicts, RetireStill DEF StopActor
    <2>6. CASE Collect \/ Tick \/ AggregatorExit
      <3>1. UNCHANGED <<made, actors, inc, str>>
        BY <2>6 DEF Collect, Tick, AggregatorExit
      <3>2. MapInv'
        BY <2>1, <3>1, MapKept
      <3> QED BY <2>0, <2>6, <3>2, CollectMoves, TickMoves
    <2>7. CASE StopBegin \/ StopClose \/ StopEnd \/ Environment \/ UNCHANGED vars
      <3>1. UNCHANGED <<made, actors, inc, str, resultCh, agg, routes, handled>>
        BY <2>7 DEF StopBegin, StopClose, StopEnd, Environment, Move, Hold, Release, vars
      <3>2. MapInv'
        BY <2>1, <3>1, MapKept
      <3> QED BY <2>0, <3>1, <3>2, Still
    <2> QED BY <2>2, <2>3, <2>4, <2>5, <2>6, <2>7 DEF Next, StopNext, Environment
  <1>2. Init => Executed /\ MapInv /\ Places
    <2>1. Init => Executed
      BY DEF Init, NewActor, Executed
    <2> QED BY SMT, <2>1, InitPlaces
  <1>3. PInv <=> IInv /\ MapInv /\ Executed /\ Places
    BY DEF PInv
  <1>4. IInv /\ Executed /\ [Next]_vars => Executed'
    BY ExecutedStep
  <1> QED BY <1>1, <1>2, <1>3, <1>4, AlwaysIInv, PTL DEF Spec
=============================================================================
