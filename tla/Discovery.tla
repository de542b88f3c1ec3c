----------------------------- MODULE Discovery -----------------------------
(***************************************************************************)
(* pkg/discovery and its use in the two mains: nodes that keep a key under *)
(* a lease in etcd, and resolvers that watch the keys and rebuild their    *)
(* routing table from a full snapshot at every event.                      *)
(*                                                                         *)
(* A node is the rank of its host:port in lexicographic order.  etcd is    *)
(* external.  A Put or a Delete that its caller has given up (an error, a  *)
(* cancelled context, a crash) may still be carried out later; a watch     *)
(* reports the changes made after etcd has opened it, and no others.       *)
(***************************************************************************)
EXTENDS Integers, Sequences, FiniteSets

CONSTANTS
  Nodes,           \* ranks of the nodes' addresses
  Resolvers,       \* processes that route: gateways, and nodes as checkers
  PartitionSlots,
  MaxLeases,       \* bound: leases alive at a time
  MaxStarts,       \* bound: node processes started
  MaxFaults        \* bound: failed calls, lost leases, broken watches, crashes

ASSUME DiscoveryAssumption ==
  /\ Nodes \subseteq Nat \ {0} /\ IsFiniteSet(Nodes)
  /\ PartitionSlots \in Nat \ {0}
  /\ MaxLeases \in Nat /\ MaxStarts \in Nat /\ MaxFaults \in Nat

None == 0

Leases == 1 .. MaxLeases

VARIABLES
  kv,      \* etcd: the lease a node's key hangs on, or None
  lease,   \* etcd: the node a lease was granted to, and the state of its Put
  node,    \* per node: main, the registration goroutine's pc and lease
  res,     \* per resolver: watchLoop's pc, the watch channel, the table
  deletes, \* etcd: nodes with an abandoned Delete that may still be carried out
  late,    \* history: nodes whose key an abandoned call was the last to change
  starts, faults

vars == <<kv, lease, node, res, deletes, late, starts, faults>>

Registered == {n \in Nodes : kv[n] # None}

\* A lease is free, or alive with its Put on the way (sent) or done.
Free == [node |-> None, put |-> "none"]

\* main: off, registering (inside Register), up, leaving (ctx done).
\* pc: off, establish, putting, alive (consumeKeepAlive).
\* The goroutine's lease is None once etcd has dropped it.
Off == [main |-> "off", pc |-> "off", lease |-> None]

Init ==
  /\ kv = [n \in Nodes |-> None]
  /\ lease = [l \in Leases |-> Free]
  /\ node = [n \in Nodes |-> Off]
  /\ res = [w \in Resolvers |->
              [pc |-> "off", tab |-> <<>>, snap |-> {}, ch |-> {}, missed |-> FALSE]]
  /\ deletes = {} /\ late = {}
  /\ starts = 0 /\ faults = 0

Fault == faults < MaxFaults /\ faults' = faults + 1
-----------------------------------------------------------------------------
(* table.go.                                                               *)

ModuloSlotOwner(addrs, slot) ==
  IF addrs = <<>> THEN None ELSE addrs[(slot % Len(addrs)) + 1]

BuildRoutingTable(addrs) ==
  [slot \in 0 .. PartitionSlots - 1 |-> ModuloSlotOwner(addrs, slot)]

\* etcd_resolver.go: the keys of a snapshot in the order of their addresses.
sortedNodeIPsFromKVs(kvs) ==
  CHOOSE ips \in [1 .. Cardinality(kvs) -> kvs] : \A i, j \in DOMAIN ips : i < j => ips[i] < ips[j]

\* The table <<>> stands for a nil pointer: ErrTableNotInitialized.
Table(kvs) == BuildRoutingTable(sortedNodeIPsFromKVs(kvs))
-----------------------------------------------------------------------------
(* etcd.                                                                   *)

Watching(w) == res[w].pc \in {"watch", "store"}

\* A change of the keys goes to every open watch, whose channel is the set of
\* the kinds of its unread events; a resolver that took
\* its snapshot and has no watch open misses it.
Publish(kind) ==
  res' = [w \in Resolvers |->
            IF Watching(w) THEN [res[w] EXCEPT !.ch = @ \cup {kind}]
            ELSE [res[w] EXCEPT !.missed = (res[w].pc = "open")]]

Delete(n) ==
  IF kv[n] = None THEN UNCHANGED <<kv, res>>
  ELSE kv' = [kv EXCEPT ![n] = None] /\ Publish("delete")

Holds(n, l) == node[n].lease = l

\* Mutant: the key stays on the lease it was first put under.
AttachFirst(n, l) == kv' = [kv EXCEPT ![n] = IF @ = None THEN l ELSE @]

\* Mutant: Put without WithLease.
AttachNone(n, l) == kv' = [kv EXCEPT ![n] = MaxLeases + 1]

\* A key hangs on the lease of its last Put.
Attach(n, l) == kv' = [kv EXCEPT ![n] = l]

\* etcd carries out a Put, whether or not its caller still waits for it.
PutLands(l) ==
  LET n == lease[l].node IN
  /\ lease[l].put = "sent"
  /\ Attach(n, l)
  /\ lease' = [lease EXCEPT ![l].put = "done"]
  /\ late' = IF Holds(n, l) THEN late \ {n} ELSE late \cup {n}
  /\ Publish("put")
  /\ UNCHANGED <<node, deletes, starts, faults>>

\* etcd carries out a Delete that nobody waits for any more, also when another
\* process has put the key since.
DeleteLands(n) ==
  /\ n \in deletes
  /\ Delete(n)
  /\ deletes' = deletes \ {n}
  /\ late' = IF kv[n] = None THEN late ELSE late \cup {n}
  /\ UNCHANGED <<lease, node, starts, faults>>

\* The lease's five seconds have passed; a lease that is kept alive runs out
\* only by a fault.  The keys on it are deleted, a Put under way is refused.
LeaseExpires(l) ==
  LET n == lease[l].node IN
  /\ n # None
  /\ IF Holds(n, l) THEN Fault ELSE UNCHANGED faults
  /\ lease' = [lease EXCEPT ![l] = Free]
  /\ node' = IF Holds(n, l) THEN [node EXCEPT ![n].lease = None] ELSE node
  /\ IF kv[n] = l THEN Delete(n) ELSE UNCHANGED <<kv, res>>
  /\ UNCHANGED <<deletes, late, starts>>
-----------------------------------------------------------------------------
(* EtcdRegistry and the node's main.                                       *)

\* ctx is not done.
Running(n) == node[n].main \in {"registering", "up"}

\* main calls Register: the first establishRegistration.
Register(n) ==
  /\ node[n].main = "off"
  /\ starts < MaxStarts
  /\ starts' = starts + 1
  /\ node' = [node EXCEPT ![n].main = "registering", ![n].pc = "establish"]
  /\ UNCHANGED <<kv, lease, res, deletes, late, faults>>

\* Grant returns a lease and the Put under it goes out.  (A lease whose Put
\* is never sent is one that expires before its Put lands.)
GrantPut(n) ==
  /\ Running(n) /\ node[n].pc = "establish"
  /\ \E l \in Leases :
       /\ lease[l] = Free /\ \A k \in 1 .. l - 1 : lease[k] # Free
       /\ lease' = [lease EXCEPT ![l] = [node |-> n, put |-> "sent"]]
       /\ node' = [node EXCEPT ![n].pc = "putting", ![n].lease = l]
  /\ UNCHANGED <<kv, res, deletes, late, starts, faults>>

\* Put and KeepAlive succeed.  The first time, Register returns and the
\* goroutine maintainRegistration takes over.
KeepAlive(n) ==
  /\ Running(n) /\ node[n].pc = "putting"
  /\ node[n].lease # None /\ lease[node[n].lease].put = "done"
  /\ node' = [node EXCEPT ![n].pc = "alive", ![n].main = "up"]
  /\ UNCHANGED <<kv, lease, res, deletes, late, starts, faults>>

Again(n) == node' = [node EXCEPT ![n].pc = "establish", ![n].lease = None]

\* Put or KeepAlive returns an error, because the lease is gone or for a
\* fault that leaves the Put where it is: after a backoff, the next round.
CallFails(n) ==
  /\ Running(n) /\ node[n].pc = "putting"
  /\ IF node[n].lease = None THEN UNCHANGED faults ELSE Fault
  /\ Again(n)
  /\ UNCHANGED <<kv, lease, res, deletes, late, starts>>

\* Mutant: maintainRegistration returns when the channel is closed.
AfterKeepAliveReturns(n) == node' = [node EXCEPT ![n].pc = "off", ![n].lease = None]

AfterKeepAlive(n) == Again(n)

\* consumeKeepAlive returns true: the channel is closed, because the lease
\* is gone or because the client has lost touch with a lease that lives on.
KeepAliveCloses(n) ==
  /\ Running(n) /\ node[n].pc = "alive"
  /\ IF node[n].lease = None THEN UNCHANGED faults ELSE Fault
  /\ AfterKeepAlive(n)
  /\ UNCHANGED <<kv, lease, res, deletes, late, starts>>

\* SIGTERM cancels ctx, which ends the keep-alives and the goroutine.  A
\* Register that is under way returns ctx.Err() and main panics.
Cancel(n) ==
  /\ Running(n)
  /\ node' = [node EXCEPT ![n] = [Off EXCEPT !.main = IF node[n].main = "up" THEN "leaving" ELSE "off"]]
  /\ UNCHANGED <<kv, lease, res, deletes, late, starts, faults>>

\* main deletes the key; GracefulStop, Node.Stop and the exit follow.
Deregister(n) ==
  /\ node[n].main = "leaving"
  /\ node' = [node EXCEPT ![n] = Off]
  /\ Delete(n)
  /\ UNCHANGED <<lease, deletes, late, starts, faults>>

\* Delete returns an error and main goes on to its exit, or the process dies
\* before Delete returns: it may reach etcd later, or never.
DeregisterFails(n) ==
  /\ node[n].main = "leaving"
  /\ Fault
  /\ node' = [node EXCEPT ![n] = Off]
  /\ deletes' = deletes \cup {n}
  /\ UNCHANGED <<kv, lease, res, late, starts>>

\* The process dies.
Crash(n) ==
  /\ node[n].main # "off"
  /\ Fault
  /\ node' = [node EXCEPT ![n] = Off]
  /\ UNCHANGED <<kv, lease, res, deletes, late, starts>>
-----------------------------------------------------------------------------
(* EtcdResolver.                                                           *)

\* Watch: the first refreshSnapshot, then the goroutine watchLoop.  If the
\* GET fails, Watch returns the error and the process ends.
Watch(w) ==
  /\ res[w].pc = "off"
  /\ res' = [res EXCEPT ![w].pc = "open", ![w].tab = Table(Registered)]
  /\ UNCHANGED <<kv, lease, node, deletes, late, starts, faults>>

\* etcd opens the watch that watchLoop has asked for.
Open(w) ==
  /\ res[w].pc = "open"
  /\ res' = [res EXCEPT ![w].pc = "watch"]
  /\ UNCHANGED <<kv, lease, node, deletes, late, starts, faults>>

\* Mutant: deletions are not taken for topology events.
hasPutEvent(events) == "put" \in events

hasNodeTopologyEvent(events) == events \cap {"put", "delete"} # {}

\* A response with one or more events arrives on watchCh, and the GET of
\* refreshSnapshot returns a snapshot.
Response(w) ==
  /\ res[w].pc = "watch"
  /\ \E events \in (SUBSET res[w].ch) \ {{}} :
       LET r == [res[w] EXCEPT !.ch = @ \ events] IN
       res' = [res EXCEPT ![w] =
                 IF hasNodeTopologyEvent(events)
                 THEN [r EXCEPT !.pc = "store", !.snap = Registered, !.missed = FALSE]
                 ELSE r]
  /\ UNCHANGED <<kv, lease, node, deletes, late, starts, faults>>

\* The GET fails: the old table stays until the next event.
RefreshFails(w) ==
  /\ res[w].pc = "watch"
  /\ Fault
  /\ \E events \in (SUBSET res[w].ch) \ {{}} :
       res' = [res EXCEPT ![w].ch = @ \ events, ![w].missed = TRUE]
  /\ UNCHANGED <<kv, lease, node, deletes, late, starts>>

\* tab.Store, the end of refreshSnapshot.
Store(w) ==
  /\ res[w].pc = "store"
  /\ res' = [res EXCEPT ![w].tab = Table(res[w].snap), ![w].snap = {}, ![w].pc = "watch"]
  /\ UNCHANGED <<kv, lease, node, deletes, late, starts, faults>>

\* Mutant: watchLoop returns.
restartWatchReturns(w) ==
  res' = [res EXCEPT ![w].pc = "exit", ![w].ch = {}, ![w].missed = @ \/ res[w].ch # {}]

\* After a backoff, cli.Watch is called again, without a new snapshot.
restartWatch(w) ==
  res' = [res EXCEPT ![w].pc = "open", ![w].ch = {}, ![w].missed = @ \/ res[w].ch # {}]

\* watchCh is closed or reports an error; what it still held is gone.
WatchBreaks(w) ==
  /\ res[w].pc = "watch"
  /\ Fault
  /\ restartWatch(w)
  /\ UNCHANGED <<kv, lease, node, deletes, late, starts>>
-----------------------------------------------------------------------------
RegistryNext(n) ==
  GrantPut(n) \/ KeepAlive(n) \/ CallFails(n) \/ KeepAliveCloses(n)

ResolverNext(w) == Open(w) \/ Response(w) \/ Store(w)

Next ==
  \/ \E n \in Nodes :
       \/ Register(n) \/ RegistryNext(n) \/ Cancel(n)
       \/ Deregister(n) \/ DeregisterFails(n) \/ Crash(n) \/ DeleteLands(n)
  \/ \E l \in Leases : PutLands(l) \/ LeaseExpires(l)
  \/ \E w \in Resolvers :
       Watch(w) \/ ResolverNext(w) \/ RefreshFails(w) \/ WatchBreaks(w)

Spec == Init /\ [][Next]_vars

\* Goroutines that can run do, etcd answers, and a lease nobody keeps alive
\* runs out.  Nobody has to start, stop or fail.
Fairness ==
  /\ \A n \in Nodes : WF_vars(RegistryNext(n)) /\ WF_vars(Deregister(n))
  /\ \A l \in Leases :
       /\ WF_vars(PutLands(l) \/ LeaseExpires(l))
       /\ WF_vars(LeaseExpires(l) /\ ~Holds(lease[l].node, l))
  /\ \A w \in Resolvers : WF_vars(ResolverNext(w))

FairSpec == Spec /\ Fairness
-----------------------------------------------------------------------------
(* Properties.                                                             *)

\* watchLoop waits for an event and nothing it should have seen was missed:
\* no change fell between a snapshot and the opening of a watch, and no GET
\* failed since the last one that succeeded.
Settled(w) == res[w].pc = "watch" /\ res[w].ch = {} /\ ~res[w].missed

\* Resolvers that are settled route alike: each slot to the registered node
\* that has as many registered addresses before it as the slot's remainder,
\* however Puts, expiries and refreshes interleaved.
SettledRoutes ==
  \A w \in Resolvers : Settled(w) =>
    \A slot \in 0 .. PartitionSlots - 1 :
      LET owner == res[w].tab[slot] IN
      IF Registered = {} THEN owner = None
      ELSE /\ owner \in Registered
           /\ Cardinality({n \in Registered : n < owner}) = slot % Cardinality(Registered)

\* While a node keeps a lease alive its key hangs on that lease, so the key
\* of a running node does not disappear when an earlier lease runs out.  An
\* abandoned Put or Delete that lands later is the exception.
KeptKeyStays ==
  \A n \in Nodes :
    node[n].pc = "alive" /\ node[n].lease # None /\ n \notin late => kv[n] = node[n].lease

\* A key is never left behind: it goes once its node is gone, also when a Put
\* of the registration goroutine lands after Deregister.
GoneLeaves ==
  \A n \in Nodes : node[n].main = "off" ~> kv[n] = None \/ node[n].main # "off"

\* A node that stays up is registered again after every lost lease, unless an
\* abandoned Put takes the key or an abandoned Delete removes it.
Reregisters ==
  \A n \in Nodes :
    node[n].main = "up" ~> kv[n] # None \/ node[n].main # "up" \/ n \in late

\* Every resolver ends up with an open watch and nothing unread, for good.
Converges ==
  \A w \in Resolvers :
    <>[](res[w].pc # "off" => res[w].pc = "watch" /\ res[w].ch = {})

=============================================================================
