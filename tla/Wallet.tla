------------------------------- MODULE Wallet -------------------------------
(***************************************************************************)
(* One wallet, i.e. one (tenant_id, uid) partition: the BusinessActor      *)
(* incarnations that serve it and the two Cassandra tables it lives in.    *)
(*                                                                         *)
(* An element of Actors is a place where an incarnation can live.  One     *)
(* element: incarnations follow one another (stop or crash, rehydrate).    *)
(* Two: they overlap, as when two nodes disagree about the owner or when a *)
(* node rehydrates a new actor while the evicted one is still draining.    *)
(*                                                                         *)
(* A row of wallet_events also carries ts, Cassandra's write timestamp     *)
(* (last write wins), and after, the balance its writer computed.  The     *)
(* latter is not a column: only properties read it.                        *)
(***************************************************************************)
EXTENDS Integers

CONSTANTS
  Actors,            \* places for incarnations of this wallet's actor
  Tx,                \* transaction ids
  NoTx,              \* the empty string of an unused txRing slot
  Amount,            \* the int64 in a transaction's payload
  Short,             \* transactions whose payload has fewer than 8 bytes
  MaxInt64,          \* largest balance, 2^63 - 1 in the code
  TxCacheSize,       \* txCacheSize
  SnapshotThreshold, \* snapshotThreshold
  LateWrites,        \* may a write take effect after its caller gave up?
  MaxVersion,        \* bound: versions written
  MaxWrites          \* bound: INSERTs into wallet_events attempted

ASSUME TxAssumption ==
  /\ NoTx \notin Tx
  /\ Short \subseteq Tx
  /\ MaxInt64 \in Nat
  /\ Amount \in [Tx -> (-MaxInt64 - 1) .. MaxInt64]

ASSUME SizeAssumption ==
  /\ TxCacheSize \in Nat \ {0}
  /\ SnapshotThreshold \in Nat \ {0}
  /\ LateWrites \in BOOLEAN
  /\ MaxVersion \in Nat
  /\ MaxWrites \in Nat

VARIABLES
  st,          \* absent, loading (in rehydrate), idle, writing (in Handle)
  balance,
  version,
  eventCount,
  txCache,
  txRing,
  txCursor,
  cur,         \* the INSERT that Handle waits for
  events,      \* wallet_events: version -> row
  snapshot,    \* wallet_snapshots: the one row, zeroes when there is none
  writes,      \* INSERTs that have not reached the table
  snaps,       \* snapshot UPSERTs that have not reached the table
  clock,       \* write timestamps handed out
  base,        \* history: the last_version an incarnation started from
  acked        \* history: transactions answered with Success

actorVars == <<st, balance, version, eventCount, txCache, txRing, txCursor, cur>>
storeVars == <<events, snapshot, writes, snaps, clock>>
vars == <<actorVars, storeVars, base, acked>>

Slots == 0 .. TxCacheSize - 1

Row == [version : Nat, tx : Tx \cup {NoTx}, delta : Int, after : Int, ts : Nat]

NoWrite == [version |-> 0, tx |-> NoTx, delta |-> 0, after |-> 0, ts |-> 0]

SnapshotRow == [balance : Int, lastVersion : Nat]

\* What the int64 sum of two int64 values is, given their true sum n.
Wrap(n) ==
  IF n > MaxInt64 THEN n - 2 * (MaxInt64 + 1)
  ELSE IF n < -MaxInt64 - 1 THEN n + 2 * (MaxInt64 + 1)
  ELSE n

Upsert(rows, w) ==
  [v \in DOMAIN rows \cup {w.version} |-> IF v = w.version THEN w ELSE rows[v]]

Init ==
  /\ st = [a \in Actors |-> "absent"]
  /\ balance = [a \in Actors |-> 0]
  /\ version = [a \in Actors |-> 0]
  /\ eventCount = [a \in Actors |-> 0]
  /\ txCache = [a \in Actors |-> {}]
  /\ txRing = [a \in Actors |-> [i \in Slots |-> NoTx]]
  /\ txCursor = [a \in Actors |-> 0]
  /\ cur = [a \in Actors |-> NoWrite]
  /\ events = [v \in {} |-> NoWrite]
  /\ snapshot = [balance |-> 0, lastVersion |-> 0]
  /\ writes = {}
  /\ snaps = {}
  /\ clock = 0
  /\ base = [a \in Actors |-> 0]
  /\ acked = {}
-----------------------------------------------------------------------------
(* The TxID ring buffer.                                                   *)

\* Mutant: the cursor is not taken modulo the ring size.
addTxIDNoModulo(a, tx) ==
  /\ txCache' = [txCache EXCEPT ![a] = (@ \ {txRing[a][txCursor[a]]}) \cup {tx}]
  /\ txRing' = [txRing EXCEPT ![a][txCursor[a]] = tx]
  /\ txCursor' = [txCursor EXCEPT ![a] = @ + 1]

addTxID(a, tx) ==
  /\ txCache' = [txCache EXCEPT ![a] = (@ \ {txRing[a][txCursor[a]]}) \cup {tx}]
  /\ txRing' = [txRing EXCEPT ![a][txCursor[a]] = tx]
  /\ txCursor' = [txCursor EXCEPT ![a] = (@ + 1) % TxCacheSize]

\* Mutant: seeding does not move the cursor.
seedTxIDSameSlot(a, tx) ==
  IF tx \in txCache[a]
  THEN UNCHANGED <<txCache, txRing, txCursor>>
  ELSE /\ txCache' = [txCache EXCEPT ![a] = @ \cup {tx}]
       /\ txRing' = [txRing EXCEPT ![a][txCursor[a]] = tx]
       /\ UNCHANGED txCursor

seedTxID(a, tx) ==
  IF tx \in txCache[a]
  THEN UNCHANGED <<txCache, txRing, txCursor>>
  ELSE /\ txCache' = [txCache EXCEPT ![a] = @ \cup {tx}]
       /\ txRing' = [txRing EXCEPT ![a][txCursor[a]] = tx]
       /\ txCursor' = [txCursor EXCEPT ![a] = (@ + 1) % TxCacheSize]
-----------------------------------------------------------------------------
(* newBusinessActor and rehydrate: a new incarnation reads the snapshot,   *)
(* then the later rows one by one.                                         *)

LoadSnapshot(a) ==
  /\ st[a] = "absent"
  /\ st' = [st EXCEPT ![a] = "loading"]
  /\ balance' = [balance EXCEPT ![a] = snapshot.balance]
  /\ version' = [version EXCEPT ![a] = snapshot.lastVersion]
  /\ base' = [base EXCEPT ![a] = snapshot.lastVersion]
  /\ eventCount' = [eventCount EXCEPT ![a] = 0]
  /\ txCache' = [txCache EXCEPT ![a] = {}]
  /\ txRing' = [txRing EXCEPT ![a] = [i \in Slots |-> NoTx]]
  /\ txCursor' = [txCursor EXCEPT ![a] = 0]
  /\ UNCHANGED <<cur, storeVars, acked>>

\* The versions that "version > ?" still has to return to a.
RowsAhead(a) == {v \in DOMAIN events : v > version[a]}

\* The next row in version order skips a version: "version gap".
Gap(a) == RowsAhead(a) # {} /\ version[a] + 1 \notin RowsAhead(a)

LoadEvent(a) ==
  /\ st[a] = "loading"
  /\ version[a] + 1 \in RowsAhead(a)
  /\ LET row == events[version[a] + 1] IN
       /\ version' = [version EXCEPT ![a] = @ + 1]
       /\ balance' = [balance EXCEPT ![a] = Wrap(@ + row.delta)]
       /\ seedTxID(a, row.tx)
  /\ UNCHANGED <<st, eventCount, cur, storeVars, base, acked>>

LoadDone(a) ==
  /\ st[a] = "loading"
  /\ RowsAhead(a) = {}
  /\ st' = [st EXCEPT ![a] = "idle"]
  /\ UNCHANGED <<balance, version, eventCount, txCache, txRing, txCursor, cur,
                 storeVars, base, acked>>

\* A failed query, or a Gap, makes rehydrate return an error: no actor.
LoadFailed(a) ==
  /\ st[a] = "loading"
  /\ st' = [st EXCEPT ![a] = "absent"]
  /\ UNCHANGED <<balance, version, eventCount, txCache, txRing, txCursor, cur,
                 storeVars, base, acked>>
-----------------------------------------------------------------------------
(* Handle.                                                                 *)

HandleDuplicate(a, tx) ==
  /\ st[a] = "idle"
  /\ tx \in txCache[a]
  /\ acked' = acked \cup {tx}
  /\ UNCHANGED <<actorVars, storeVars, base>>

Rejected(a, tx) == tx \in Short \/ Wrap(balance[a] + Amount[tx]) < 0

HandleReject(a, tx) ==
  /\ st[a] = "idle"
  /\ tx \notin txCache[a]
  /\ Rejected(a, tx)
  /\ UNCHANGED vars

\* The version the next row gets; mutant: numbered per incarnation.
newVersionLocal(a) == eventCount[a] + 1

newVersion(a) == version[a] + 1

HandleWrite(a, tx) ==
  /\ st[a] = "idle"
  /\ tx \notin txCache[a]
  /\ ~Rejected(a, tx)
  /\ version[a] < MaxVersion
  /\ clock < MaxWrites
  /\ LET w == [version |-> newVersion(a), tx |-> tx, delta |-> Amount[tx],
               after |-> Wrap(balance[a] + Amount[tx]), ts |-> clock + 1] IN
       /\ cur' = [cur EXCEPT ![a] = w]
       /\ writes' = writes \cup {w}
  /\ clock' = clock + 1
  /\ st' = [st EXCEPT ![a] = "writing"]
  /\ UNCHANGED <<balance, version, eventCount, txCache, txRing, txCursor,
                 events, snapshot, snaps, base, acked>>

takeSnapshotAsync(a) ==
  snaps' = snaps \cup {[balance |-> cur[a].after, lastVersion |-> cur[a].version,
                        ts |-> cur[a].ts]}

\* ExecuteBatch returned nil: the rest of Handle.
HandleCommit(a) ==
  /\ st[a] = "writing"
  /\ cur[a] \notin writes
  /\ st' = [st EXCEPT ![a] = "idle"]
  /\ balance' = [balance EXCEPT ![a] = cur[a].after]
  /\ version' = [version EXCEPT ![a] = cur[a].version]
  /\ addTxID(a, cur[a].tx)
  /\ IF eventCount[a] + 1 >= SnapshotThreshold
     THEN /\ takeSnapshotAsync(a)
          /\ eventCount' = [eventCount EXCEPT ![a] = 0]
     ELSE /\ eventCount' = [eventCount EXCEPT ![a] = @ + 1]
          /\ UNCHANGED snaps
  /\ acked' = acked \cup {cur[a].tx}
  /\ cur' = [cur EXCEPT ![a] = NoWrite]
  /\ UNCHANGED <<events, snapshot, writes, clock, base>>

\* Nobody waits for a's INSERT any more; it may still be on its way.
Abandon(a) == writes' = IF LateWrites THEN writes ELSE writes \ {cur[a]}

\* The memory state an error leaves; mutants: version or balance is updated
\* before the error is checked.
OnErrorVersion(a) ==
  version' = [version EXCEPT ![a] = cur[a].version] /\ UNCHANGED balance

OnErrorBalance(a) ==
  balance' = [balance EXCEPT ![a] = cur[a].after] /\ UNCHANGED version

OnError(a) == UNCHANGED <<balance, version>>

\* ExecuteBatch returned an error, whether or not the row was written.
HandleError(a) ==
  /\ st[a] = "writing"
  /\ st' = [st EXCEPT ![a] = "idle"]
  /\ Abandon(a)
  /\ cur' = [cur EXCEPT ![a] = NoWrite]
  /\ OnError(a)
  /\ UNCHANGED <<eventCount, txCache, txRing, txCursor,
                 events, snapshot, snaps, clock, base, acked>>
-----------------------------------------------------------------------------
(* The end of an incarnation.  It writes no last snapshot.                 *)

\* The actor's loop ends between two messages (eviction, Node.Stop).
Stop(a) ==
  /\ st[a] = "idle"
  /\ st' = [st EXCEPT ![a] = "absent"]
  /\ UNCHANGED <<balance, version, eventCount, txCache, txRing, txCursor, cur,
                 storeVars, base, acked>>

\* The node process dies while Handle waits for Cassandra.
Crash(a) ==
  /\ st[a] = "writing"
  /\ st' = [st EXCEPT ![a] = "absent"]
  /\ Abandon(a)
  /\ cur' = [cur EXCEPT ![a] = NoWrite]
  /\ UNCHANGED <<balance, version, eventCount, txCache, txRing, txCursor,
                 events, snapshot, snaps, clock, base, acked>>
-----------------------------------------------------------------------------
(* Cassandra.  An INSERT is an upsert: the row with the latest timestamp   *)
(* wins.  The snapshot goroutines run, and get their timestamps, in any    *)
(* order.                                                                  *)

Newer(w) ==
  w.version \notin DOMAIN events \/ events[w.version].ts < w.ts

WriteLands(w) ==
  /\ events' = IF Newer(w) THEN Upsert(events, w) ELSE events
  /\ writes' = writes \ {w}
  /\ UNCHANGED <<actorVars, snapshot, snaps, clock, base, acked>>

SnapshotLands(s) ==
  /\ snapshot' = [balance |-> s.balance, lastVersion |-> s.lastVersion]
  /\ snaps' = snaps \ {s}
  /\ UNCHANGED <<actorVars, events, writes, clock, base, acked>>

SnapshotLost(s) ==
  /\ snaps' = snaps \ {s}
  /\ UNCHANGED <<actorVars, events, snapshot, writes, clock, base, acked>>
-----------------------------------------------------------------------------
ActorNext(a) ==
  \/ LoadSnapshot(a) \/ LoadEvent(a) \/ LoadDone(a) \/ LoadFailed(a)
  \/ \E tx \in Tx : HandleDuplicate(a, tx) \/ HandleReject(a, tx) \/ HandleWrite(a, tx)
  \/ HandleCommit(a) \/ HandleError(a)
  \/ Stop(a) \/ Crash(a)

Next ==
  \/ \E a \in Actors : ActorNext(a)
  \/ \E w \in writes : WriteLands(w)
  \/ \E s \in snaps : SnapshotLands(s) \/ SnapshotLost(s)

Spec == Init /\ [][Next]_vars
-----------------------------------------------------------------------------
(* Properties.                                                             *)

Live(a) == st[a] \in {"idle", "writing"}

\* Every variable keeps the type of the Go field or CQL column it models.
TypeOK ==
  /\ st \in [Actors -> {"absent", "loading", "idle", "writing"}]
  /\ balance \in [Actors -> Int]
  /\ version \in [Actors -> Nat]
  /\ eventCount \in [Actors -> 0 .. SnapshotThreshold - 1]
  /\ txCache \in [Actors -> SUBSET (Tx \cup {NoTx})]
  /\ txRing \in [Actors -> [Slots -> Tx \cup {NoTx}]]
  /\ txCursor \in [Actors -> Slots]
  /\ cur \in [Actors -> Row]
  /\ DOMAIN events \subseteq Nat \ {0}
  /\ \A v \in DOMAIN events : events[v] \in Row /\ events[v].version = v
  /\ snapshot \in SnapshotRow
  /\ writes \subseteq {w \in Row : w.version > 0}
  /\ snaps \subseteq [balance : Int, lastVersion : Nat, ts : Nat]
  /\ clock \in Nat
  /\ base \in [Actors -> Nat]
  /\ acked \subseteq Tx \cup {NoTx}

\* rehydrate never finds a hole in wallet_events, whatever blind writers did
\* before: its "version gap" error is unreachable.
NoVersionGap == \A a \in Actors : st[a] = "loading" => ~Gap(a)

\* Every version up to n has a row.
Filled(n) == \A v \in 1 .. n : v \in DOMAIN events

\* The invariant behind NoVersionGap: rows, snapshots, actors and INSERTs
\* under way all stand on a log without holes.
LogFilled == \A v \in DOMAIN events : Filled(v)
ActorsFilled == \A a \in Actors : st[a] # "absent" => Filled(version[a])
WritesFilled == \A w \in writes : Filled(w.version - 1)
CurFilled ==
  \A a \in Actors : st[a] = "writing" =>
    /\ cur[a].version = version[a] + 1
    /\ cur[a] \in writes \/ Filled(cur[a].version)
SnapshotsFilled == Filled(snapshot.lastVersion) /\ \A s \in snaps : Filled(s.lastVersion)

\* Two INSERTs never share a timestamp.
CurDistinct ==
  \A a \in Actors : st[a] = "writing" =>
    /\ cur[a].ts <= clock
    /\ \A b \in Actors \ {a} : st[b] = "writing" => cur[a].ts # cur[b].ts

\* No snapshot, in the table or under way, and no actor is ahead of the log.
Grounded ==
  LogFilled /\ ActorsFilled /\ WritesFilled /\ CurFilled /\ CurDistinct /\ SnapshotsFilled

\* Reference: what the deltas of the first n rows add up to.
LogSum(n) ==
  LET sum[v \in 0 .. n] == IF v = 0 THEN 0 ELSE sum[v - 1] + events[v].delta
  IN sum[n]

\* The balance after row v, as the writer of that row computed it.
After(v) == IF v = 0 THEN 0 ELSE events[v].after

\* A transaction answered with Success is in the log.
AckedDurable == \A tx \in acked : \E v \in DOMAIN events : events[v].tx = tx

\* With one writer the rows form a ledger: each balance follows from the one
\* before, none is negative or beyond int64, an actor's balance and every
\* snapshot repeat the ledger's entry for their version, also when snapshots
\* overtake one another, and every acknowledged transaction is there.
RowsChained ==
  \A v \in DOMAIN events :
    events[v].after = After(v - 1) + events[v].delta /\ events[v].after \in 0 .. MaxInt64
BalanceChained ==
  \A a \in Actors : st[a] # "absent" => balance[a] = After(version[a])
SnapshotsChained ==
  /\ snapshot.balance = After(snapshot.lastVersion)
  /\ \A s \in snaps : s.balance = After(s.lastVersion)

LedgerConsistent == RowsChained /\ BalanceChained /\ SnapshotsChained /\ AckedDurable

\* A row an actor has counted in its balance is never overwritten.
CountedRowsStable ==
  [][\A a \in Actors : Live(a) => \A v \in 1 .. version[a] : events'[v] = events[v]]_events

\* txCache covers the last txCacheSize rows written since the snapshot the
\* incarnation started from.  (Rows of a transaction that was applied twice
\* are left out: seedTxID skips the second one, so its slot ages too early.)
SinceBase(a) == {v \in DOMAIN events : base[a] < v /\ v <= version[a]}

DedupWindow ==
  \A a \in Actors : Live(a) =>
    \A v \in SinceBase(a) :
      \/ v <= version[a] - TxCacheSize
      \/ events[v].tx \in txCache[a]
      \/ \E u \in SinceBase(a) : u # v /\ events[u].tx = events[v].tx

\* A retried transaction is not applied a second time.
AppliedOnce == \A u, v \in DOMAIN events : events[u].tx = events[v].tx => u = v

=============================================================================
