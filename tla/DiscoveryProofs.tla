-------------------------- MODULE DiscoveryProofs --------------------------
(***************************************************************************)
(* Proofs about Discovery, for any number of nodes, leases and resolvers:  *)
(* a node that keeps its lease keeps its key, and settled resolvers route  *)
(* alike.                                                                  *)
(***************************************************************************)
EXTENDS Discovery, FiniteSetTheorems, TLAPS

-----------------------------------------------------------------------------
(* The sorted addresses and the routing table.                             *)

\* How many members of S are at most x.
Rank(S, x) == Cardinality({y \in S : y <= x})

LEMMA RankFacts ==
  ASSUME NEW S \in SUBSET Nat, IsFiniteSet(S)
  PROVE  /\ Cardinality(S) \in Nat
         /\ \A x \in S : Rank(S, x) \in 1 .. Cardinality(S)
         /\ \A x, y \in S : x < y => Rank(S, x) < Rank(S, y)
  <1> DEFINE Upto(x) == {y \in S : y <= x}
  <1>1. Cardinality(S) \in Nat
    BY FS_CardinalityType
  <1>2. \A x \in S : IsFiniteSet(Upto(x)) /\ Cardinality(Upto(x)) <= Cardinality(S)
    BY FS_Subset
  <1>3. \A x \in S : Cardinality(Upto(x)) \in Nat
    BY <1>2, FS_CardinalityType
  <1>4. ASSUME NEW x \in S PROVE Cardinality(Upto(x)) # 0
    <2>1. x \in Upto(x)
      OBVIOUS
    <2> QED BY <1>2, <2>1, FS_EmptySet
  <1>5. ASSUME NEW x \in S, NEW y \in S, x < y PROVE Cardinality(Upto(x)) < Cardinality(Upto(y))
    <2>0. x \in Nat /\ y \in Nat /\ \A z \in S : z \in Nat
      OBVIOUS
    <2>1. Upto(x) \in SUBSET Upto(y) /\ Upto(x) # Upto(y)
      <3>1. \A z \in S : z <= x => z <= y
        BY <1>5, <2>0
      <3>2. y \in Upto(y) /\ y \notin Upto(x)
        BY <1>5, <2>0
      <3> QED BY Zenon, <3>1, <3>2
    <2> HIDE DEF Upto
    <2>2. /\ Cardinality(Upto(x)) <= Cardinality(Upto(y))
          /\ Cardinality(Upto(y)) # Cardinality(Upto(x))
      BY <1>2, <2>1, FS_Subset
    <2> QED BY <1>3, <2>2
  <1> HIDE DEF Upto
  <1>6. \A x \in S : Cardinality(Upto(x)) \in 1 .. Cardinality(S)
    BY <1>1, <1>2, <1>3, <1>4
  <1> QED BY <1>1, <1>5, <1>6 DEF Rank, Upto

\* A finite set of addresses can be sorted: an address goes to its rank.
LEMMA SortExists ==
  ASSUME NEW S \in SUBSET Nat, IsFiniteSet(S)
  PROVE  \E f \in [1 .. Cardinality(S) -> S] : \A i, j \in DOMAIN f : i < j => f[i] < f[j]
  <1> DEFINE n == Cardinality(S)
             rank == [x \in S |-> Rank(S, x)]
  <1>0. n \in Nat /\ IsFiniteSet(1 .. n) /\ Cardinality(1 .. n) = n
    BY RankFacts, FS_Interval
  <1>1. rank \in Injection(S, 1 .. n)
    <2>1. rank \in [S -> 1 .. n]
      BY RankFacts
    <2>2. ASSUME NEW x \in S, NEW y \in S, rank[x] = rank[y] PROVE x = y
      BY <1>0, <2>2, RankFacts
    <2> QED BY <2>1, <2>2 DEF Injection, IsInjective
  <1>2. rank \in Surjection(S, 1 .. n)
    BY <1>0, <1>1, FS_Injection
  <1>3. \A i \in 1 .. n : \E x \in S : Rank(S, x) = i
    BY Zenon, <1>2 DEF Surjection
  <1> DEFINE f == [i \in 1 .. n |-> CHOOSE x \in S : Rank(S, x) = i]
  <1>4. f \in [1 .. n -> S] /\ \A i \in 1 .. n : Rank(S, f[i]) = i
    BY <1>3
  <1>5. ASSUME NEW i \in 1 .. n, NEW j \in 1 .. n, i < j PROVE f[i] < f[j]
    <2>1. PICK x \in S : x = f[i] /\ Rank(S, x) = i
      BY Zenon, <1>4
    <2>2. PICK y \in S : y = f[j] /\ Rank(S, y) = j
      BY Zenon, <1>4
    <2>3. y < x => Rank(S, y) < Rank(S, x)
      BY RankFacts
    <2>4. i \in Nat /\ j \in Nat /\ x \in Nat /\ y \in Nat
      BY <1>0
    <2>5. ~(y < x) /\ x # y
      BY <1>5, <2>1, <2>2, <2>3, <2>4
    <2>6. x < y
      BY <2>4, <2>5
    <2> QED BY <2>1, <2>2, <2>6
  <1> HIDE DEF f
  <1> QED BY Zenon, <1>4, <1>5

\* What the sort returns.
Sorted(f, S) ==
  /\ f \in [1 .. Cardinality(S) -> S]
  /\ \A i, j \in DOMAIN f : i < j => f[i] < f[j]

\* The address at place k has k - 1 addresses before it.
LEMMA SortedRank ==
  ASSUME NEW S \in SUBSET Nat, IsFiniteSet(S), NEW f, Sorted(f, S),
         NEW k \in 1 .. Cardinality(S)
  PROVE  Cardinality({y \in S : y < f[k]}) = k - 1
  <1> DEFINE n == Cardinality(S)
             Before == {y \in S : y < f[k]}
  <1>0. n \in Nat /\ IsFiniteSet(1 .. n) /\ Cardinality(1 .. n) = n
    BY RankFacts, FS_Interval
  <1>1. f \in [1 .. n -> S] /\ \A i, j \in 1 .. n : i < j => f[i] < f[j]
    BY DEF Sorted
  <1>2. \A i \in 1 .. n : f[i] \in Nat
    BY Zenon, <1>1
  <1>3. \A i, j \in 1 .. n : (f[i] < f[j] <=> i < j) /\ (f[i] = f[j] => i = j)
    <2> SUFFICES ASSUME NEW i \in 1 .. n, NEW j \in 1 .. n
                 PROVE  (f[i] < f[j] <=> i < j) /\ (f[i] = f[j] => i = j)
      OBVIOUS
    <2>1. i \in Nat /\ j \in Nat /\ f[i] \in Nat /\ f[j] \in Nat
      BY <1>0, <1>2
    <2>2. (i < j => f[i] < f[j]) /\ (j < i => f[j] < f[i])
      BY <1>1
    <2> QED BY <2>1, <2>2
  <1>4. f \in Injection(1 .. n, S)
    BY <1>1, <1>3 DEF Injection, IsInjective
  <1>5. f \in Surjection(1 .. n, S)
    BY <1>0, <1>4, FS_Injection
  <1> DEFINE g == [i \in 1 .. k - 1 |-> f[i]]
  <1>6. \A i \in 1 .. k - 1 : i \in 1 .. n /\ i < k
    BY <1>0
  <1>7. g \in [1 .. k - 1 -> Before]
    BY <1>1, <1>3, <1>6
  <1>8. \A y \in Before : \E i \in 1 .. k - 1 : g[i] = y
    <2> SUFFICES ASSUME NEW y \in Before PROVE \E i \in 1 .. k - 1 : g[i] = y
      OBVIOUS
    <2>1. PICK i \in 1 .. n : f[i] = y
      BY <1>5 DEF Surjection
    <2>2. i < k
      BY <1>3, <2>1
    <2>3. i \in 1 .. k - 1
      BY <1>0, <2>2
    <2> QED BY <2>1, <2>3
  <1>9. g \in Bijection(1 .. k - 1, Before)
    <2>1. \A i, j \in 1 .. k - 1 : g[i] = g[j] => i = j
      BY <1>3, <1>6
    <2> HIDE DEF g, Before
    <2> QED BY <1>7, <1>8, <2>1 DEF Bijection, Injection, Surjection, IsInjective
  <1>10. k - 1 \in Nat /\ ExistsBijection(1 .. k - 1, Before)
    <2>1. k - 1 \in Nat
      BY <1>0
    <2> HIDE DEF g, Before
    <2>2. ExistsBijection(1 .. k - 1, Before)
      BY <1>9 DEF ExistsBijection
    <2> QED BY <2>1, <2>2
  <1> HIDE DEF Before
  <1>11. Cardinality(Before) = k - 1
    BY <1>10, FS_CountingElements
  <1> QED BY <1>11 DEF Before

\* What a table built from the addresses in S says of a slot.
Routes(tab, S) ==
  \A slot \in 0 .. PartitionSlots - 1 :
    LET owner == tab[slot] IN
    IF S = {} THEN owner = None
    ELSE /\ owner \in S
         /\ Cardinality({n \in S : n < owner}) = slot % Cardinality(S)

LEMMA TableRoutes ==
  ASSUME NEW S \in SUBSET Nodes PROVE Routes(Table(S), S)
  <1>0. S \in SUBSET Nat /\ IsFiniteSet(S) /\ PartitionSlots \in Nat
    BY Zenon, DiscoveryAssumption, FS_Subset
  <1>1. Cardinality(S) \in Nat /\ (Cardinality(S) = 0 <=> S = {})
    BY Zenon, <1>0, FS_CardinalityType, FS_EmptySet
  <1> DEFINE f == sortedNodeIPsFromKVs(S)
  <1>2. Sorted(f, S)
    BY Zenon, <1>0, SortExists DEF sortedNodeIPsFromKVs, Sorted
  <1> HIDE DEF f
  <1>3. f \in Seq(S) /\ Len(f) = Cardinality(S) /\ (f = <<>> <=> S = {})
    <2>1. f \in [1 .. Cardinality(S) -> S]
      BY <1>2 DEF Sorted
    <2>2. f \in Seq(S) /\ Len(f) = Cardinality(S)
      BY <1>1, <2>1
    <2> QED BY <1>1, <2>2
  <1> SUFFICES ASSUME NEW slot \in 0 .. PartitionSlots - 1
               PROVE  LET owner == Table(S)[slot] IN
                      IF S = {} THEN owner = None
                      ELSE /\ owner \in S
                           /\ Cardinality({n \in S : n < owner}) = slot % Cardinality(S)
    BY DEF Routes
  <1>4. Table(S)[slot] = IF S = {} THEN None ELSE f[(slot % Cardinality(S)) + 1]
    BY <1>3 DEF Table, BuildRoutingTable, ModuloSlotOwner, f
  <1>5. CASE S # {}
    <2>0. slot \in Nat
      BY <1>0
    <2>1. slot \in Nat /\ Cardinality(S) \in Nat \ {0}
      BY <1>1, <1>5, <2>0
    <2>2. PICK k \in 1 .. Cardinality(S) : k = (slot % Cardinality(S)) + 1
      BY <2>1
    <2>3. f[k] \in S
      BY <1>2 DEF Sorted
    <2>4. Cardinality({y \in S : y < f[k]}) = k - 1
      BY <1>0, <1>2, SortedRank
    <2>5. k - 1 = slot % Cardinality(S)
      BY <2>1, <2>2
    <2> QED BY <1>4, <1>5, <2>2, <2>3, <2>4, <2>5
  <1> QED BY <1>4, <1>5
-----------------------------------------------------------------------------
(* The invariants.                                                         *)

Tables == {<<>>} \cup [0 .. PartitionSlots - 1 -> Nodes \cup {None}]

ResType ==
  [pc : {"off", "open", "watch", "store"}, tab : Tables, snap : SUBSET Nodes,
   ch : SUBSET {"put", "delete"}, missed : BOOLEAN]

NodeType ==
  [main : {"off", "registering", "up", "leaving"},
   pc : {"off", "establish", "putting", "alive"}, lease : Leases \cup {None}]

LeaseType == [node : Nodes \cup {None}, put : {"none", "sent", "done"}]

TypeOK ==
  /\ kv \in [Nodes -> Leases \cup {None}]
  /\ lease \in [Leases -> LeaseType]
  /\ node \in [Nodes -> NodeType]
  /\ res \in [Resolvers -> ResType]
  /\ deletes \subseteq Nodes /\ late \subseteq Nodes

\* A lease that a node keeps is its own, and its key hangs on it from the moment
\* the Put under it was done, unless an abandoned call came later.
OwnLease ==
  /\ \A l \in Leases : lease[l].put # "none" => lease[l].node # None
  /\ \A n \in Nodes : node[n].lease # None =>
       /\ lease[node[n].lease].node = n
       /\ node[n].pc = "alive" => lease[node[n].lease].put = "done"
       /\ lease[node[n].lease].put = "done" /\ n \notin late => kv[n] = node[n].lease

\* A resolver that has missed nothing has, or is about to store, the table of the
\* keys as they are, unless an event is still to be read.
Views ==
  \A w \in Resolvers : ~res[w].missed =>
    /\ res[w].pc = "open" => res[w].tab = Table(Registered)
    /\ res[w].ch = {} /\ res[w].pc = "watch" => res[w].tab = Table(Registered)
    /\ res[w].ch = {} /\ res[w].pc = "store" => res[w].snap = Registered

LEMMA NoneNot == None \notin Nodes /\ None \notin Leases /\ Registered \subseteq Nodes
  BY DiscoveryAssumption DEF None, Leases, Registered

LEMMA TableTyped == ASSUME NEW S \in SUBSET Nodes PROVE Table(S) \in Tables
  <1>1. Routes(Table(S), S)
    BY TableRoutes
  <1>2. \A slot \in 0 .. PartitionSlots - 1 : Table(S)[slot] \in Nodes \cup {None}
    BY Zenon, <1>1 DEF Routes
  <1>3. Table(S) = [slot \in 0 .. PartitionSlots - 1 |-> Table(S)[slot]]
    BY DEF Table, BuildRoutingTable
  <1> QED BY <1>2, <1>3 DEF Tables

LEMMA Initially == Init => TypeOK /\ OwnLease /\ Views
  BY NoneNot DEF Init, TypeOK, OwnLease, Views, Free, Off, ResType, NodeType, LeaseType, Tables

LEMMA PublishTyped ==
  ASSUME NEW kind \in {"put", "delete"}, TypeOK, Publish(kind)
  PROVE  res' \in [Resolvers -> ResType] /\ Views'
  <1>1. ASSUME NEW w \in Resolvers
        PROVE  /\ res'[w] \in ResType
               /\ ~res'[w].missed => res'[w].pc # "open"
               /\ res'[w].ch = {} => res'[w].pc \notin {"watch", "store"}
    <2>1. res[w] \in ResType
      BY DEF TypeOK
    <2>2. CASE Watching(w)
      <3>1. res'[w] = [res[w] EXCEPT !.ch = @ \cup {kind}]
        BY <2>2 DEF Publish
      <3> QED BY <2>1, <2>2, <3>1 DEF ResType, Watching
    <2>3. CASE ~Watching(w)
      <3>1. res'[w] = [res[w] EXCEPT !.missed = (res[w].pc = "open")]
        BY <2>3 DEF Publish
      <3>2. PICK m \in BOOLEAN : m = (res[w].pc = "open")
        BY Zenon
      <3>3. res'[w] = [res[w] EXCEPT !.missed = m]
        BY <3>1, <3>2
      <3> QED BY Zenon, <2>1, <2>3, <3>2, <3>3 DEF ResType, Watching
    <2> QED BY <2>2, <2>3
  <1>2. res' = [w \in Resolvers |-> res'[w]]
    BY DEF Publish
  <1> QED BY <1>1, <1>2 DEF Views

\* The keys change only with an event.
LEMMA ViewsKept ==
  ASSUME TypeOK, Views, UNCHANGED <<kv, res>> PROVE Views'
  BY DEF Views, Registered

LEMMA DeleteStep ==
  ASSUME TypeOK, Views, NEW n \in Nodes, Delete(n)
  PROVE  /\ kv' \in [Nodes -> Leases \cup {None}] /\ res' \in [Resolvers -> ResType] /\ Views'
         /\ \A m \in Nodes \ {n} : kv'[m] = kv[m]
  <1>1. CASE kv[n] = None
    BY <1>1, ViewsKept DEF Delete, TypeOK
  <1>2. CASE kv[n] # None
    BY <1>2, PublishTyped DEF Delete, TypeOK
  <1> QED BY <1>1, <1>2

\* A Delete that nobody waits for.
LEMMA LateDelete ==
  ASSUME TypeOK, OwnLease, Views, NEW n \in Nodes, DeleteLands(n)
  PROVE  TypeOK' /\ OwnLease' /\ Views'
  <1>1. /\ Delete(n) /\ deletes' \subseteq deletes /\ UNCHANGED <<lease, node>>
        /\ late' = IF kv[n] = None THEN late ELSE late \cup {n}
    BY DEF DeleteLands
  <1>2. /\ kv' \in [Nodes -> Leases \cup {None}] /\ res' \in [Resolvers -> ResType] /\ Views'
        /\ \A m \in Nodes \ {n} : kv'[m] = kv[m]
    BY Zenon, <1>1, DeleteStep
  <1>3. TypeOK'
    BY <1>1, <1>2 DEF TypeOK
  <1>4. \A m \in Nodes : m \notin late' => m \notin late /\ kv'[m] = kv[m]
    BY <1>1, <1>2 DEF Delete
  <1>5. OwnLease'
    BY Zenon, <1>1, <1>4 DEF OwnLease
  <1> QED BY <1>2, <1>3, <1>5

\* etcd's steps.
LEMMA EtcdStep ==
  ASSUME TypeOK, OwnLease, Views, NEW l \in Leases, PutLands(l) \/ LeaseExpires(l)
  PROVE  TypeOK' /\ OwnLease' /\ Views'
  <1> DEFINE n == lease[l].node
  <1>0. lease[l] \in LeaseType /\ n \in Nodes \cup {None}
    BY DEF TypeOK, LeaseType
  <1>1. CASE PutLands(l)
    <2>1. /\ lease[l].put = "sent" /\ n \in Nodes
          /\ kv' = [kv EXCEPT ![n] = l] /\ lease' = [lease EXCEPT ![l].put = "done"]
          /\ late' = IF Holds(n, l) THEN late \ {n} ELSE late \cup {n}
          /\ Publish("put") /\ UNCHANGED <<node, deletes>>
      BY <1>0, <1>1 DEF PutLands, OwnLease, Attach
    <2> HIDE DEF n
    <2>2. res' \in [Resolvers -> ResType] /\ Views'
      BY <2>1, PublishTyped
    <2>3. TypeOK'
      BY <1>0, <2>1, <2>2 DEF TypeOK, LeaseType
    <2>4. /\ lease'[l].node = lease[l].node /\ lease'[l].put = "done"
          /\ \A k \in Leases \ {l} : lease'[k] = lease[k]
      BY <2>1 DEF TypeOK, LeaseType
    <2>5. \A k \in Leases : lease'[k].put # "none" => lease'[k].node # None
      BY <2>1, <2>4, NoneNot DEF OwnLease, n
    <2>6. ASSUME NEW m \in Nodes, node'[m].lease # None
          PROVE  /\ lease'[node'[m].lease].node = m
                 /\ node'[m].pc = "alive" => lease'[node'[m].lease].put = "done"
                 /\ lease'[node'[m].lease].put = "done" /\ m \notin late' => kv'[m] = node'[m].lease
      <3>1. node'[m].lease \in Leases /\ node[m].lease # None /\ node' = node
        BY <2>1, <2>6 DEF TypeOK, NodeType
      <3>2. CASE node[m].lease = l
        <4>1. m = n
          BY <3>1, <3>2 DEF OwnLease, n
        <4> QED BY <2>1, <2>4, <3>1, <3>2, <4>1 DEF OwnLease, TypeOK, n
      <3>3. CASE node[m].lease # l
        <4>1. m = n => m \in late'
          BY <2>1, <3>1, <3>3 DEF Holds
        <4>2. m # n => kv'[m] = kv[m] /\ (m \in late' <=> m \in late)
          BY <2>1 DEF TypeOK
        <4> QED BY <2>1, <2>4, <3>1, <3>3, <4>1, <4>2 DEF OwnLease
      <3> QED BY <3>2, <3>3
    <2> QED BY <2>2, <2>3, <2>5, <2>6 DEF OwnLease
  <1>2. CASE LeaseExpires(l)
    <2>1. /\ n \in Nodes /\ lease' = [lease EXCEPT ![l] = Free] /\ UNCHANGED <<deletes, late>>
          /\ node' = IF Holds(n, l) THEN [node EXCEPT ![n].lease = None] ELSE node
          /\ IF kv[n] = l THEN Delete(n) ELSE UNCHANGED <<kv, res>>
      BY <1>0, <1>2 DEF LeaseExpires
    <2> HIDE DEF n
    <2>2. /\ kv' \in [Nodes -> Leases \cup {None}] /\ res' \in [Resolvers -> ResType] /\ Views'
          /\ \A m \in Nodes : kv'[m] = kv[m] \/ (m = n /\ kv[n] = l)
      BY <2>1, DeleteStep, ViewsKept DEF TypeOK
    <2>3. /\ lease' \in [Leases -> LeaseType] /\ lease'[l] = Free
          /\ \A k \in Leases \ {l} : lease'[k] = lease[k]
      BY <2>1 DEF TypeOK, LeaseType, Free
    <2>4. /\ node' \in [Nodes -> NodeType]
          /\ \A m \in Nodes : node'[m].lease # None =>
               node'[m].lease = node[m].lease /\ node'[m].pc = node[m].pc
          /\ node[n].lease = l => node'[n].lease = None
      BY <2>1 DEF TypeOK, NodeType, Holds
    <2>5. TypeOK'
      BY <2>1, <2>2, <2>3, <2>4 DEF TypeOK
    <2>6. \A k \in Leases : lease'[k].put # "none" => lease'[k].node # None
      BY <2>3 DEF OwnLease, Free
    <2>7. ASSUME NEW m \in Nodes, node'[m].lease # None
          PROVE  /\ lease'[node'[m].lease].node = m
                 /\ node'[m].pc = "alive" => lease'[node'[m].lease].put = "done"
                 /\ lease'[node'[m].lease].put = "done" /\ m \notin late' => kv'[m] = node'[m].lease
      <3>1. /\ node'[m].lease = node[m].lease /\ node'[m].pc = node[m].pc
            /\ node[m].lease \in Leases /\ node[m].lease # None
        BY <2>4, <2>7 DEF TypeOK, NodeType
      <3>2. node[m].lease # l
        BY <2>4, <2>7, <3>1 DEF OwnLease, n
      <3>3. lease'[node[m].lease] = lease[node[m].lease]
        BY <2>3, <3>1, <3>2
      <3> QED BY <2>1, <2>2, <3>1, <3>2, <3>3 DEF OwnLease
    <2> QED BY <2>2, <2>5, <2>6, <2>7 DEF OwnLease
  <1> QED BY <1>1, <1>2

\* The steps of a node's process and its registration goroutine.
LEMMA NodeStep ==
  ASSUME TypeOK, OwnLease, Views, NEW n \in Nodes,
         \/ Register(n) \/ RegistryNext(n) \/ Cancel(n)
         \/ Deregister(n) \/ DeregisterFails(n) \/ Crash(n)
  PROVE  TypeOK' /\ OwnLease' /\ Views'
  <1>0. node[n] \in NodeType
    BY DEF TypeOK
  <1>1. ASSUME UNCHANGED <<lease, late>>, NEW r \in NodeType, node' = [node EXCEPT ![n] = r],
               \/ r.lease = None
               \/ /\ r.lease = node[n].lease
                  /\ r.pc = "alive" => lease[node[n].lease].put = "done",
               \A m \in Nodes : kv'[m] = kv[m] \/ (m = n /\ r.lease = None)
        PROVE  node' \in [Nodes -> NodeType] /\ OwnLease'
    <2>1. node'[n] = r /\ \A m \in Nodes \ {n} : node'[m] = node[m]
      BY <1>1 DEF TypeOK
    <2>2. node' \in [Nodes -> NodeType]
      BY <1>1 DEF TypeOK
    <2> QED BY <1>1, <2>1, <2>2 DEF OwnLease
  <1>2. ASSUME UNCHANGED <<kv, res, lease, late>>, deletes' \in {deletes, deletes \cup {n}},
               NEW r \in NodeType, node' = [node EXCEPT ![n] = r],
               \/ r.lease = None
               \/ /\ r.lease = node[n].lease
                  /\ r.pc = "alive" => lease[node[n].lease].put = "done"
        PROVE  TypeOK' /\ OwnLease' /\ Views'
    <2>1. node' \in [Nodes -> NodeType] /\ OwnLease'
      BY Zenon, <1>1, <1>2
    <2> QED BY <1>2, <2>1, ViewsKept DEF TypeOK
  <1>3. Off \in NodeType /\ Off.lease = None
    BY DEF Off, NodeType
  <1>4. CASE Register(n)
    <2>1. [node[n] EXCEPT !.main = "registering", !.pc = "establish"] \in NodeType
      BY Zenon, <1>0 DEF NodeType
    <2>2. node' = [node EXCEPT ![n] = [node[n] EXCEPT !.main = "registering", !.pc = "establish"]]
      BY Zenon, <1>4 DEF Register, TypeOK
    <2>3. UNCHANGED <<kv, res, lease, deletes, late>>
      BY <1>4 DEF Register
    <2> QED BY Zenon, <1>0, <1>2, <2>1, <2>2, <2>3 DEF NodeType
  <1>5. CASE GrantPut(n)
    <2>1. PICK l \in Leases :
            /\ lease[l] = Free
            /\ lease' = [lease EXCEPT ![l] = [node |-> n, put |-> "sent"]]
            /\ node' = [node EXCEPT ![n].pc = "putting", ![n].lease = l]
            /\ UNCHANGED <<kv, res, deletes, late>>
      BY Zenon, <1>5 DEF GrantPut
    <2>2. /\ lease' \in [Leases -> LeaseType] /\ node' \in [Nodes -> NodeType]
          /\ lease'[l] = [node |-> n, put |-> "sent"]
          /\ \A k \in Leases \ {l} : lease'[k] = lease[k]
          /\ node'[n].lease = l /\ node'[n].pc = "putting"
          /\ \A m \in Nodes \ {n} : node'[m] = node[m]
      BY Zenon, <2>1 DEF TypeOK, LeaseType, NodeType
    <2>3. \A m \in Nodes : node[m].lease # l
      BY <2>1, NoneNot DEF OwnLease, Free
    <2>4. OwnLease'
      <3>1. \A k \in Leases : lease'[k].put # "none" => lease'[k].node # None
        BY <2>2, NoneNot DEF OwnLease
      <3>2. ASSUME NEW m \in Nodes, node'[m].lease # None
            PROVE  /\ lease'[node'[m].lease].node = m
                   /\ node'[m].pc = "alive" => lease'[node'[m].lease].put = "done"
                   /\ lease'[node'[m].lease].put = "done" /\ m \notin late' => kv'[m] = node'[m].lease
        <4>1. CASE m = n
          BY <2>2, <4>1
        <4>2. CASE m # n
          <5>1. node[m].lease \in Leases \ {l} /\ node'[m] = node[m]
            BY <2>2, <2>3, <3>2, <4>2 DEF TypeOK, NodeType
          <5> QED BY <2>1, <2>2, <3>2, <5>1 DEF OwnLease
        <4> QED BY <4>1, <4>2
      <3> QED BY <3>1, <3>2 DEF OwnLease
    <2> QED BY <2>1, <2>2, <2>4, ViewsKept DEF TypeOK
  <1>6. CASE KeepAlive(n)
    <2>1. [node[n] EXCEPT !.pc = "alive", !.main = "up"] \in NodeType
      BY Zenon, <1>0 DEF NodeType
    <2>2. node' = [node EXCEPT ![n] = [node[n] EXCEPT !.pc = "alive", !.main = "up"]]
      BY Zenon, <1>6 DEF KeepAlive, TypeOK
    <2>3. UNCHANGED <<kv, res, lease, deletes, late>> /\ lease[node[n].lease].put = "done"
      BY <1>6 DEF KeepAlive
    <2> QED BY Zenon, <1>0, <1>2, <2>1, <2>2, <2>3 DEF NodeType
  <1>7. CASE CallFails(n) \/ KeepAliveCloses(n)
    <2>1. [node[n] EXCEPT !.pc = "establish", !.lease = None] \in NodeType
      BY Zenon, <1>0 DEF NodeType
    <2>2. node' = [node EXCEPT ![n] = [node[n] EXCEPT !.pc = "establish", !.lease = None]]
      BY Zenon, <1>7 DEF CallFails, KeepAliveCloses, AfterKeepAlive, Again, TypeOK
    <2>3. UNCHANGED <<kv, res, lease, deletes, late>>
      BY <1>7 DEF CallFails, KeepAliveCloses
    <2> QED BY Zenon, <1>0, <1>2, <2>1, <2>2, <2>3 DEF NodeType
  <1>8. CASE Cancel(n)
    <2> DEFINE r == [Off EXCEPT !.main = IF node[n].main = "up" THEN "leaving" ELSE "off"]
    <2>1. r \in NodeType /\ r.lease = None
      BY DEF Off, NodeType
    <2>2. node' = [node EXCEPT ![n] = r]
      BY <1>8 DEF Cancel
    <2> HIDE DEF r
    <2> QED BY Zenon, <1>2, <1>8, <2>1, <2>2 DEF Cancel
  <1>9. CASE Deregister(n)
    <2>1. node' = [node EXCEPT ![n] = Off] /\ Delete(n) /\ UNCHANGED <<lease, deletes, late>>
      BY <1>9 DEF Deregister
    <2>2. /\ kv' \in [Nodes -> Leases \cup {None}] /\ res' \in [Resolvers -> ResType] /\ Views'
          /\ \A m \in Nodes \ {n} : kv'[m] = kv[m]
      BY <2>1, DeleteStep
    <2>3. node' \in [Nodes -> NodeType] /\ OwnLease'
      BY Zenon, <1>1, <1>3, <2>1, <2>2
    <2> QED BY <2>1, <2>2, <2>3 DEF TypeOK
  <1>10. CASE DeregisterFails(n) \/ Crash(n)
    BY Zenon, <1>2, <1>3, <1>10 DEF DeregisterFails, Crash
  <1> QED BY <1>4, <1>5, <1>6, <1>7, <1>8, <1>9, <1>10 DEF RegistryNext

\* The steps of a resolver.
LEMMA ResolverStep ==
  ASSUME TypeOK, OwnLease, Views, NEW w \in Resolvers,
         Watch(w) \/ ResolverNext(w) \/ RefreshFails(w) \/ WatchBreaks(w)
  PROVE  TypeOK' /\ OwnLease' /\ Views'
  <1>0. res[w] \in ResType /\ Registered \in SUBSET Nodes
    BY NoneNot DEF TypeOK
  <1>1. UNCHANGED <<kv, lease, node, deletes, late>>
    BY Zenon DEF Watch, ResolverNext, Open, Response, Store, RefreshFails, WatchBreaks
  <1>2. OwnLease' /\ Registered' = Registered
    BY <1>1 DEF OwnLease, Registered
  <1>3. ASSUME NEW r \in ResType, res' = [res EXCEPT ![w] = r],
               ~r.missed =>
                 /\ r.pc = "open" => r.tab = Table(Registered)
                 /\ r.ch = {} /\ r.pc = "watch" => r.tab = Table(Registered)
                 /\ r.ch = {} /\ r.pc = "store" => r.snap = Registered
        PROVE  TypeOK' /\ OwnLease' /\ Views'
    <2>1. res'[w] = r /\ \A v \in Resolvers \ {w} : res'[v] = res[v]
      BY <1>3 DEF TypeOK
    <2>2. TypeOK'
      BY <1>1, <1>3 DEF TypeOK
    <2>3. Views'
      BY <1>2, <1>3, <2>1 DEF Views
    <2> QED BY <1>2, <2>2, <2>3
  <1>4. CASE Watch(w)
    <2>1. Table(Registered) \in Tables
      BY <1>0, TableTyped
    <2>2. [res[w] EXCEPT !.pc = "open", !.tab = Table(Registered)] \in ResType
      BY Zenon, <1>0, <2>1 DEF ResType
    <2>3. res' = [res EXCEPT ![w] = [res[w] EXCEPT !.pc = "open", !.tab = Table(Registered)]]
      BY Zenon, <1>4 DEF Watch, TypeOK
    <2> QED BY Zenon, <1>0, <1>3, <2>2, <2>3 DEF ResType
  <1>5. CASE Open(w)
    <2>1. [res[w] EXCEPT !.pc = "watch"] \in ResType
      BY <1>0 DEF ResType
    <2>2. res' = [res EXCEPT ![w] = [res[w] EXCEPT !.pc = "watch"]] /\ res[w].pc = "open"
      BY <1>5 DEF Open, TypeOK
    <2> QED BY Zenon, <1>0, <1>3, <2>1, <2>2 DEF ResType, Views
  <1>6. CASE Response(w)
    <2>1. PICK ev \in (SUBSET res[w].ch) \ {{}} :
            LET r == [res[w] EXCEPT !.ch = @ \ ev] IN
            res' = [res EXCEPT ![w] =
                      IF hasNodeTopologyEvent(ev)
                      THEN [r EXCEPT !.pc = "store", !.snap = Registered, !.missed = FALSE]
                      ELSE r]
      BY Zenon, <1>6 DEF Response
    <2>2. hasNodeTopologyEvent(ev)
      <3>1. res[w].ch \subseteq {"put", "delete"}
        BY <1>0 DEF ResType
      <3>2. PICK e \in ev : e \in {"put", "delete"}
        BY <3>1
      <3> QED BY <3>2 DEF hasNodeTopologyEvent
    <2> DEFINE r == [res[w] EXCEPT !.ch = @ \ ev, !.pc = "store", !.snap = Registered, !.missed = FALSE]
    <2>3. r \in ResType
      BY Zenon, <1>0 DEF ResType
    <2>4. res' = [res EXCEPT ![w] = r]
      BY <1>0, <2>1, <2>2 DEF ResType
    <2>5. r.pc = "store" /\ r.snap = Registered
      BY <1>0 DEF ResType
    <2> HIDE DEF r
    <2> QED BY Zenon, <1>3, <2>3, <2>4, <2>5
  <1>7. CASE Store(w)
    <2>1. Table(res[w].snap) \in Tables
      BY <1>0, TableTyped DEF ResType
    <2> DEFINE r == [res[w] EXCEPT !.tab = Table(res[w].snap), !.snap = {}, !.pc = "watch"]
    <2>2. r \in ResType
      BY Zenon, <1>0, <2>1 DEF ResType
    <2>3. res' = [res EXCEPT ![w] = r] /\ res[w].pc = "store"
      BY Zenon, <1>7 DEF Store, TypeOK
    <2>4. /\ r.pc = "watch" /\ r.tab = Table(res[w].snap)
          /\ r.ch = res[w].ch /\ r.missed = res[w].missed
      BY <1>0 DEF ResType
    <2> HIDE DEF r
    <2> QED BY Zenon, <1>3, <2>2, <2>3, <2>4 DEF Views
  <1>8. CASE RefreshFails(w)
    <2>1. PICK ev \in (SUBSET res[w].ch) \ {{}} :
            res' = [res EXCEPT ![w].ch = @ \ ev, ![w].missed = TRUE]
      BY Zenon, <1>8 DEF RefreshFails
    <2> DEFINE r == [res[w] EXCEPT !.ch = @ \ ev, !.missed = TRUE]
    <2>2. r \in ResType /\ r.missed
      BY Zenon, <1>0 DEF ResType
    <2>3. res' = [res EXCEPT ![w] = r]
      BY Zenon, <2>1 DEF TypeOK
    <2> HIDE DEF r
    <2> QED BY Zenon, <1>3, <2>2, <2>3
  <1>9. CASE WatchBreaks(w)
    <2>1. PICK m \in BOOLEAN : m <=> res[w].missed \/ res[w].ch # {}
      BY Zenon
    <2> DEFINE r == [res[w] EXCEPT !.pc = "open", !.ch = {}, !.missed = m]
    <2>2. r \in ResType /\ r.pc = "open" /\ r.tab = res[w].tab /\ r.missed = m
      BY Zenon, <1>0 DEF ResType
    <2>3. res' = [res EXCEPT ![w] = r] /\ res[w].pc = "watch"
      BY Zenon, <1>0, <1>9, <2>1 DEF WatchBreaks, restartWatch, TypeOK, ResType
    <2> HIDE DEF r
    <2> QED BY Zenon, <1>3, <2>1, <2>2, <2>3 DEF Views
  <1> QED BY <1>4, <1>5, <1>6, <1>7, <1>8, <1>9 DEF ResolverNext

LEMMA Inductive == Spec => [](TypeOK /\ OwnLease /\ Views)
  <1> DEFINE Inv == TypeOK /\ OwnLease /\ Views
  <1>1. Init => Inv
    BY Initially
  <1>2. Inv /\ [Next]_vars => Inv'
    <2> SUFFICES ASSUME Inv, [Next]_vars PROVE Inv'
      OBVIOUS
    <2>1. CASE UNCHANGED vars
      BY <2>1, ViewsKept DEF vars, TypeOK, OwnLease
    <2> QED BY <2>1, EtcdStep, LateDelete, NodeStep, ResolverStep DEF Next
  <1> HIDE DEF Inv
  <1>3. Spec => []Inv
    BY <1>1, <1>2, PTL DEF Spec
  <1> QED BY <1>3 DEF Inv

\* The types of the keys, the leases, the processes and the resolvers.
THEOREM TypeCorrect == Spec => []TypeOK
  BY Inductive, PTL

\* While a node keeps a lease alive its key hangs on it, through lost leases,
\* restarts, and Puts and Deletes that are still on their way, unless one that
\* its caller had given up came last.
THEOREM KeptKeyAlwaysStays == Spec => []KeptKeyStays
  <1>1. TypeOK /\ OwnLease => KeptKeyStays
    BY DEF OwnLease, KeptKeyStays
  <1> QED BY <1>1, Inductive, PTL

\* Resolvers that are settled route alike, for any number of nodes and slots: each
\* slot to the registered node that as many addresses precede as the slot's
\* remainder by the number of nodes.
THEOREM SettledResolversAgree == Spec => []SettledRoutes
  <1>1. TypeOK /\ Views => SettledRoutes
    <2> SUFFICES ASSUME TypeOK, Views, NEW w \in Resolvers, Settled(w)
                 PROVE  Routes(res[w].tab, Registered)
      BY DEF SettledRoutes, Routes
    <2>1. res[w].tab = Table(Registered)
      BY DEF Views, Settled
    <2> QED BY <2>1, NoneNot, TableRoutes
  <1> QED BY <1>1, Inductive, PTL
=============================================================================
