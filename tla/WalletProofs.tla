---------------------------- MODULE WalletProofs ----------------------------
(***************************************************************************)
(* What holds of Wallet for any number of incarnations, any bounds and any *)
(* mix of lost, ambiguous and late writes: the types, and that rehydrate   *)
(* never meets a version gap.  With one writer, the ledger and the window  *)
(* of duplicate detection.  From "Induction and recursion" on, what the    *)
(* readers beside the actors see and what the job's compensations do to    *)
(* the log.                                                                *)
(***************************************************************************)
EXTENDS Reconciliation, WellFoundedInduction, TLAPS

\* int64 addition yields an integer.
LEMMA WrapInt == \A n \in Int : Wrap(n) \in Int
  BY TxAssumption DEF Wrap

\* A payload's amount is an integer.
LEMMA AmountInt == \A tx \in Tx : Amount[tx] \in Int
  BY TxAssumption

\* The cursor stays inside the ring.
LEMMA CursorInRing == \A i \in Slots : (i + 1) % TxCacheSize \in Slots
  BY SizeAssumption DEF Slots

\* addTxID and seedTxID keep the types of the cache and of the ring.
RingTyped ==
  /\ txCache \in [Actors -> SUBSET (Tx \cup {NoTx})]
  /\ txRing \in [Actors -> [Slots -> Tx \cup {NoTx}]]
  /\ txCursor \in [Actors -> Slots]

LEMMA RingStepTyped ==
  ASSUME RingTyped, NEW a \in Actors, NEW tx \in Tx \cup {NoTx},
         addTxID(a, tx) \/ seedTxID(a, tx)
  PROVE  RingTyped'
  <1>1. (txCursor[a] + 1) % TxCacheSize \in Slots
    BY Zenon, CursorInRing DEF RingTyped
  <1>2. [txRing[a] EXCEPT ![txCursor[a]] = tx] \in [Slots -> Tx \cup {NoTx}]
    BY Zenon DEF RingTyped
  <1>3. CASE addTxID(a, tx)
    BY Zenon, <1>1, <1>2, <1>3 DEF addTxID, RingTyped
  <1>4. CASE seedTxID(a, tx)
    <2>1. CASE tx \in txCache[a]
      BY Zenon, <1>4, <2>1 DEF seedTxID, RingTyped
    <2>2. CASE tx \notin txCache[a]
      <3>1. /\ txCache' = [txCache EXCEPT ![a] = @ \cup {tx}]
            /\ txRing' = [txRing EXCEPT ![a][txCursor[a]] = tx]
            /\ txCursor' = [txCursor EXCEPT ![a] = (@ + 1) % TxCacheSize]
        BY Zenon, <1>4, <2>2 DEF seedTxID
      <3> QED
        BY Zenon, <1>1, <1>2, <3>1 DEF RingTyped
    <2> QED
      BY Zenon, <2>1, <2>2
  <1> QED
    BY Zenon, <1>3, <1>4

LEMMA TypeStep == TypeOK /\ [Next]_vars => TypeOK'
  <1> SUFFICES ASSUME TypeOK, [Next]_vars PROVE TypeOK'
    BY Zenon
  <1> USE DEF TypeOK, actorVars, storeVars
  <1>1. ASSUME NEW a \in Actors, LoadSnapshot(a) PROVE TypeOK'
    BY SMTT(40), <1>1, SizeAssumption DEF LoadSnapshot, Slots, SnapshotRow
  <1>2. ASSUME NEW a \in Actors, LoadEvent(a) PROVE TypeOK'
    <2> DEFINE row == events[version[a] + 1]
    <2>1. row \in Row /\ row.delta \in Int /\ row.tx \in Tx \cup {NoTx}
      BY Zenon, <1>2 DEF LoadEvent, RowsAhead, Row
    <2>2. Wrap(balance[a] + row.delta) \in Int
      BY <2>1, WrapInt
    <2>3. RingTyped'
      BY Zenon, <1>2, <2>1, RingStepTyped DEF LoadEvent, RingTyped
    <2>4. version' \in [Actors -> Nat] /\ balance' \in [Actors -> Int]
      BY <1>2, <2>2 DEF LoadEvent
    <2> QED
      BY Zenon, <1>2, <2>3, <2>4 DEF LoadEvent, RingTyped
  <1>3. ASSUME NEW a \in Actors, LoadDone(a) PROVE TypeOK'
    BY Zenon, <1>3 DEF LoadDone
  <1>4. ASSUME NEW a \in Actors, LoadFailed(a) PROVE TypeOK'
    BY Zenon, <1>4 DEF LoadFailed
  <1>5. ASSUME NEW a \in Actors, NEW tx \in Tx, HandleDuplicate(a, tx) PROVE TypeOK'
    BY Zenon, <1>5 DEF HandleDuplicate
  <1>6. ASSUME NEW a \in Actors, NEW tx \in Tx, HandleReject(a, tx) PROVE TypeOK'
    BY Zenon, <1>6 DEF HandleReject, vars
  <1>7. ASSUME NEW a \in Actors, NEW tx \in Tx, HandleWrite(a, tx) PROVE TypeOK'
    <2>1. Amount[tx] \in Int /\ Wrap(balance[a] + Amount[tx]) \in Int
      BY AmountInt, WrapInt
    <2> DEFINE w == [version |-> version[a] + 1, tx |-> tx, delta |-> Amount[tx],
                     after |-> Wrap(balance[a] + Amount[tx]), ts |-> clock + 1]
    <2>2. w \in Row /\ w.version > 0
      BY <2>1 DEF Row
    <2>3. cur' = [cur EXCEPT ![a] = w] /\ writes' = writes \cup {w}
      BY Zenon, <1>7 DEF HandleWrite, newVersion
    <2> HIDE DEF w
    <2> QED
      BY <1>7, <2>2, <2>3 DEF HandleWrite, newVersion
  <1>8. ASSUME NEW a \in Actors, HandleCommit(a) PROVE TypeOK'
    <2>1. /\ cur[a].tx \in Tx \cup {NoTx}
          /\ cur[a].after \in Int
          /\ cur[a].version \in Nat
          /\ cur[a].ts \in Nat
      BY Zenon DEF Row
    <2>3. RingTyped'
      BY Zenon, <1>8, <2>1, RingStepTyped DEF HandleCommit, RingTyped
    <2>4. eventCount' \in [Actors -> 0 .. SnapshotThreshold - 1]
      <3>1. CASE eventCount[a] + 1 >= SnapshotThreshold
        <4>1. 0 \in 0 .. SnapshotThreshold - 1
          BY SizeAssumption
        <4> QED
          BY Zenon, <1>8, <3>1, <4>1 DEF HandleCommit
      <3>2. CASE ~(eventCount[a] + 1 >= SnapshotThreshold)
        <4>1. eventCount[a] + 1 \in 0 .. SnapshotThreshold - 1
          BY <3>2, SizeAssumption
        <4> QED
          BY Zenon, <1>8, <3>2, <4>1 DEF HandleCommit
      <3> QED
        BY Zenon, <3>1, <3>2
    <2>5. snaps' \subseteq [balance : Int, lastVersion : Nat, ts : Nat]
      BY <1>8, <2>1 DEF HandleCommit, takeSnapshotAsync
    <2>6. NoWrite \in Row
      BY DEF NoWrite, Row
    <2> QED
      BY Zenon, <1>8, <2>1, <2>3, <2>4, <2>5, <2>6 DEF HandleCommit, RingTyped
  <1>9. ASSUME NEW a \in Actors, HandleError(a) PROVE TypeOK'
    BY <1>9 DEF HandleError, OnError, Abandon, NoWrite, Row
  <1>10. ASSUME NEW a \in Actors, Stop(a) PROVE TypeOK'
    BY Zenon, <1>10 DEF Stop
  <1>11. ASSUME NEW a \in Actors, Crash(a) PROVE TypeOK'
    BY <1>11 DEF Crash, Abandon, NoWrite, Row
  <1>12. ASSUME NEW w \in writes, WriteLands(w) PROVE TypeOK'
    BY <1>12 DEF WriteLands, Upsert, Row
  <1>13. ASSUME NEW s \in snaps, SnapshotLands(s) \/ SnapshotLost(s) PROVE TypeOK'
    BY <1>13 DEF SnapshotLands, SnapshotLost, SnapshotRow
  <1>14. CASE UNCHANGED vars
    BY Zenon, <1>14 DEF vars
  <1> QED
    BY Zenon, <1>1, <1>2, <1>3, <1>4, <1>5, <1>6, <1>7, <1>8, <1>9, <1>10, <1>11,
       <1>12, <1>13, <1>14 DEF Next, ActorNext

\* The Go fields and CQL columns keep their types.
THEOREM TypeCorrect == Spec => []TypeOK
  <1>1. Init => TypeOK
    BY SizeAssumption DEF Init, TypeOK, Slots, Row, NoWrite, SnapshotRow
  <1> QED
    BY <1>1, TypeStep, PTL DEF Spec
-----------------------------------------------------------------------------
(* The log has no holes.  NoVersionGap is not inductive: it must be known  *)
(* that whatever a writer, a snapshot or an INSERT under way stands on is  *)
(* filled, and that the table only grows.  That is Grounded.               *)

\* A step that only adds rows leaves a filled prefix filled.
LEMMA FilledGrows ==
  ASSUME DOMAIN events \subseteq DOMAIN events', NEW n, Filled(n)
  PROVE  Filled(n)'
  BY Zenon DEF Filled

\* One more row on top of a filled prefix.
LEMMA FilledNext ==
  ASSUME NEW n \in Nat, Filled(n), n + 1 \in DOMAIN events
  PROVE  Filled(n + 1)
  BY DEF Filled

LEMMA GroundedInit == Init => Grounded
  BY DEF Init, Grounded, LogFilled, ActorsFilled, WritesFilled, CurFilled,
         CurDistinct, SnapshotsFilled, Filled

LEMMA GroundedStep == TypeOK /\ Grounded /\ [Next]_vars => Grounded'
  <1> SUFFICES ASSUME TypeOK, Grounded, [Next]_vars PROVE Grounded'
    BY Zenon
  <1> USE DEF Grounded, LogFilled, ActorsFilled, WritesFilled, CurFilled,
              CurDistinct, SnapshotsFilled, actorVars, storeVars
  <1>1. ASSUME NEW a \in Actors, LoadSnapshot(a) PROVE Grounded'
    BY ZenonT(40), <1>1 DEF LoadSnapshot, TypeOK, Filled
  <1>2. ASSUME NEW a \in Actors, LoadEvent(a) PROVE Grounded'
    <2>1. Filled(version[a] + 1)
      BY Zenon, <1>2, FilledNext DEF LoadEvent, RowsAhead, TypeOK
    <2>2. /\ version' = [version EXCEPT ![a] = @ + 1] /\ st[a] = "loading"
          /\ UNCHANGED <<st, cur, events, snapshot, writes, snaps, clock>>
      BY Zenon, <1>2 DEF LoadEvent
    <2>3. ActorsFilled'
      BY Zenon, <2>1, <2>2 DEF TypeOK, Filled
    <2>4. CurFilled' /\ CurDistinct'
      BY Zenon, <2>2 DEF TypeOK, Filled
    <2> QED
      BY Zenon, <2>2, <2>3, <2>4 DEF Filled
  <1>3. ASSUME NEW a \in Actors, LoadDone(a) PROVE Grounded'
    BY ZenonT(40), <1>3 DEF LoadDone, TypeOK, Filled
  <1>4. ASSUME NEW a \in Actors, LoadFailed(a) PROVE Grounded'
    BY ZenonT(40), <1>4 DEF LoadFailed, TypeOK, Filled
  <1>5. ASSUME NEW a \in Actors, NEW tx \in Tx, HandleDuplicate(a, tx) PROVE Grounded'
    BY Zenon, <1>5 DEF HandleDuplicate, Filled
  <1>6. ASSUME NEW a \in Actors, NEW tx \in Tx, HandleReject(a, tx) PROVE Grounded'
    BY Zenon, <1>6 DEF HandleReject, vars, Filled
  <1>7. ASSUME NEW a \in Actors, NEW tx \in Tx, HandleWrite(a, tx) PROVE Grounded'
    <2> DEFINE w == [version |-> version[a] + 1, tx |-> tx, delta |-> Amount[tx],
                     after |-> Wrap(balance[a] + Amount[tx]), ts |-> clock + 1]
    <2>1. w.version = version[a] + 1 /\ version[a] \in Nat /\ w.ts = clock + 1
      BY Zenon DEF TypeOK
    <2>2. cur' = [cur EXCEPT ![a] = w] /\ writes' = writes \cup {w}
      BY Zenon, <1>7 DEF HandleWrite, newVersion
    <2>3. Filled(w.version - 1)
      BY <1>7, <2>1 DEF HandleWrite, newVersion
    <2> HIDE DEF w
    <2>4. /\ st' = [st EXCEPT ![a] = "writing"] /\ clock' = clock + 1
          /\ st[a] = "idle" /\ UNCHANGED <<version, events, snapshot, snaps>>
      BY Zenon, <1>7 DEF HandleWrite, newVersion
    <2>5. CurFilled'
      BY Zenon, <2>1, <2>2, <2>4 DEF TypeOK, Filled
    <2>6. CurDistinct'
      <3>1. clock \in Nat /\ \A b \in Actors : cur[b].ts \in Nat
        BY Zenon DEF TypeOK, Row
      <3> QED
        BY <2>1, <2>2, <2>4, <3>1 DEF TypeOK
    <2>7. WritesFilled'
      BY Zenon, <2>2, <2>3, <2>4 DEF Filled
    <2>8. ActorsFilled'
      BY Zenon, <2>4 DEF TypeOK, Filled
    <2> QED
      BY Zenon, <2>4, <2>5, <2>6, <2>7, <2>8 DEF Filled
  <1>8. ASSUME NEW a \in Actors, HandleCommit(a) PROVE Grounded'
    <2>1. Filled(cur[a].version)
      BY Zenon, <1>8 DEF HandleCommit
    <2>2. \A s \in snaps' : s \in snaps \/ s.lastVersion = cur[a].version
      BY <1>8 DEF HandleCommit, takeSnapshotAsync
    <2>3. SnapshotsFilled'
      <3>1. DOMAIN events \subseteq DOMAIN events' /\ snapshot' = snapshot
        BY Zenon, <1>8 DEF HandleCommit
      <3>2. \A n : Filled(n) => Filled(n)'
        BY Zenon, <3>1, FilledGrows
      <3> QED
        BY Zenon, <2>1, <2>2, <3>1, <3>2
    <2>4. ActorsFilled'
      BY Zenon, <1>8, <2>1 DEF HandleCommit, TypeOK, Filled
    <2>5. CurFilled' /\ CurDistinct'
      BY ZenonT(40), <1>8 DEF HandleCommit, TypeOK, Filled
    <2> QED
      BY Zenon, <1>8, <2>3, <2>4, <2>5 DEF HandleCommit, Filled
  <1>9. ASSUME NEW a \in Actors, HandleError(a) \/ Crash(a) PROVE Grounded'
    <2>1. /\ st' \in [Actors -> {"absent", "loading", "idle", "writing"}]
          /\ st'[a] # "writing"
          /\ \A b \in Actors \ {a} : st'[b] = st[b] /\ cur'[b] = cur[b]
          /\ st[a] = "writing"
          /\ UNCHANGED <<version, events, snapshot, snaps, clock>>
          /\ writes' \subseteq writes
          /\ writes \subseteq writes' \cup {cur[a]}
      BY ZenonT(40), <1>9 DEF HandleError, OnError, Crash, Abandon, TypeOK
    <2>2. ActorsFilled'
      BY Zenon, <2>1 DEF Filled
    <2>3. CurFilled'
      <3> SUFFICES ASSUME NEW b \in Actors, st'[b] = "writing"
                   PROVE  /\ cur'[b].version = version'[b] + 1
                          /\ cur'[b] \in writes' \/ Filled(cur[b].version)'
        BY Zenon
      <3>1. cur[b] # cur[a] /\ b # a /\ st[b] = "writing" /\ cur'[b] = cur[b]
        BY Zenon, <2>1
      <3> QED
        BY Zenon, <2>1, <3>1 DEF Filled
    <2>4. CurDistinct'
      BY ZenonT(40), <2>1
    <2> QED
      BY Zenon, <2>1, <2>2, <2>3, <2>4 DEF Filled
  <1>10. ASSUME NEW a \in Actors, Stop(a) PROVE Grounded'
    BY ZenonT(40), <1>10 DEF Stop, TypeOK, Filled
  <1>11. ASSUME NEW w \in writes, WriteLands(w) PROVE Grounded'
    <2>1. /\ w.version \in Nat /\ w.version > 0
          /\ DOMAIN events' = DOMAIN events \cup {w.version}
      BY <1>11 DEF WriteLands, Newer, Upsert, TypeOK, Row
    <2>2. \A n : Filled(n) => Filled(n)'
      BY Zenon, <2>1, FilledGrows
    <2>3. Filled(w.version)'
      BY <2>1, <2>2 DEF Filled
    <2>4. LogFilled'
      BY Zenon, <2>1, <2>2, <2>3
    <2> QED
      BY Zenon, <1>11, <2>2, <2>3, <2>4 DEF WriteLands
  <1>12. ASSUME NEW s \in snaps, SnapshotLands(s) \/ SnapshotLost(s) PROVE Grounded'
    BY <1>12 DEF SnapshotLands, SnapshotLost, Filled
  <1>13. CASE UNCHANGED vars
    BY Zenon, <1>13 DEF vars, Filled
  <1> QED
    BY Zenon, <1>1, <1>2, <1>3, <1>4, <1>5, <1>6, <1>7, <1>8, <1>9, <1>10, <1>11,
       <1>12, <1>13 DEF Next, ActorNext

\* Nothing ever stands on a version whose row is missing.
THEOREM AlwaysGrounded == Spec => []Grounded
  BY TypeCorrect, GroundedInit, GroundedStep, PTL DEF Spec

LEMMA NoGap == TypeOK /\ Grounded => NoVersionGap
  <1> SUFFICES ASSUME TypeOK, Grounded, NEW a \in Actors, st[a] = "loading",
                      NEW v \in RowsAhead(a)
               PROVE  version[a] + 1 \in RowsAhead(a)
    BY Zenon DEF NoVersionGap, Gap
  <1>1. version[a] \in Nat /\ v \in Nat /\ v > version[a] /\ Filled(v)
    BY Zenon DEF RowsAhead, TypeOK, Grounded, LogFilled
  <1> QED
    BY <1>1 DEF Filled, RowsAhead

\* rehydrate's "version gap" error is unreachable, for any number of
\* overlapping incarnations and any loss or delay of their writes.
THEOREM RehydrateFindsNoGap == Spec => []NoVersionGap
  BY NoGap, TypeCorrect, AlwaysGrounded, PTL
-----------------------------------------------------------------------------
(***************************************************************************)
(* When incarnations do not overlap and a write that was given up has      *)
(* either happened or never will: the rows are a ledger, balances and      *)
(* snapshots repeat it, acknowledged transactions stay, and the ring       *)
(* remembers the last of them.                                             *)
(***************************************************************************)

\* The assumption of every theorem below.
SingleWriter == (\A a, b \in Actors : a = b) /\ ~LateWrites

\* Only the INSERT some Handle waits for is under way.
OnlyCurrent == \A w \in writes : \E a \in Actors : st[a] = "writing" /\ w = cur[a]

\* The INSERT continues the ledger from the actor's balance.
CurChained ==
  \A a \in Actors : st[a] = "writing" =>
    /\ cur[a].after = balance[a] + cur[a].delta
    /\ cur[a].after \in 0 .. MaxInt64

\* It is newer than every row, until it has become one.
CurNewest ==
  /\ \A v \in DOMAIN events : events[v].ts <= clock
  /\ \A a \in Actors : st[a] = "writing" =>
       IF cur[a] \in writes
       THEN \A v \in DOMAIN events : events[v].ts < cur[a].ts
       ELSE cur[a].version \in DOMAIN events /\ events[cur[a].version] = cur[a]

\* A live actor knows all rows but perhaps the one it failed to confirm, and
\* is not behind any snapshot.
ActorOnTop ==
  \A a \in Actors : Live(a) =>
    /\ \A v \in DOMAIN events : v <= version[a] + 1
    /\ snapshot.lastVersion <= version[a]
    /\ \A s \in snaps : s.lastVersion <= version[a]

\* Cached and acknowledged ids are those of counted rows.
Counted(a, tx) == \E v \in DOMAIN events : v <= version[a] /\ events[v].tx = tx
CacheCounted == \A a \in Actors : st[a] # "absent" => \A tx \in txCache[a] : Counted(a, tx)
AckedCounted == \A a \in Actors : Live(a) => \A tx \in acked : Counted(a, tx)

Ledger ==
  /\ LedgerConsistent /\ AckedDurable
  /\ OnlyCurrent /\ CurChained /\ CurNewest /\ ActorOnTop
  /\ CacheCounted /\ AckedCounted
-----------------------------------------------------------------------------
\* The balance a filled version stands for is a non-negative int64.
LEMMA AfterTyped ==
  ASSUME TypeOK, RowsChained, NEW n \in Nat, Filled(n)
  PROVE  After(n) \in 0 .. MaxInt64
  <1>1. CASE n = 0
    BY <1>1, TxAssumption DEF After
  <1>2. CASE n # 0
    <2>1. n \in 1 .. n
      BY <1>2
    <2>2. n \in DOMAIN events
      BY Zenon, <2>1 DEF Filled
    <2> QED
      BY Zenon, <1>2, <2>2 DEF After, RowsChained
  <1> QED
    BY Zenon, <1>1, <1>2

\* The guard of Handle accepts a sum only if it did not wrap.
LEMMA AcceptedExact ==
  ASSUME NEW b \in 0 .. MaxInt64, NEW x \in (-MaxInt64 - 1) .. MaxInt64,
         ~(Wrap(b + x) < 0)
  PROVE  Wrap(b + x) = b + x /\ b + x \in 0 .. MaxInt64
  BY TxAssumption DEF Wrap

LEMMA LedgerInit == Init => Ledger
  BY DEF Init, Ledger, LedgerConsistent, AckedDurable, OnlyCurrent, CurChained,
         CurNewest, ActorOnTop, CacheCounted, AckedCounted, RowsChained,
         BalanceChained, SnapshotsChained, After, Live

\* A step that leaves the events table and the snapshots under way alone
\* keeps what is said about them alone.
LEMMA LedgerKept ==
  ASSUME Ledger, UNCHANGED <<events, snapshot, snaps>>
  PROVE  RowsChained' /\ SnapshotsChained'
  BY Zenon DEF Ledger, LedgerConsistent, RowsChained, SnapshotsChained, After

\* Rehydration.
LEMMA LedgerLoad ==
  ASSUME SingleWriter, TypeOK, Grounded, Ledger, NEW a \in Actors,
         LoadSnapshot(a) \/ LoadEvent(a) \/ LoadDone(a) \/ LoadFailed(a)
  PROVE  Ledger'
  <1> USE DEF Ledger, LedgerConsistent, actorVars, storeVars, Live
  <1>1. /\ UNCHANGED <<events, snapshot, snaps, writes, clock, cur, acked>>
        /\ RowsChained' /\ SnapshotsChained' /\ AckedDurable'
    BY Zenon, LedgerKept DEF LoadSnapshot, LoadEvent, LoadDone, LoadFailed, AckedDurable
  <1>2. st[a] # "writing" /\ \A b \in Actors : b = a
    BY Zenon DEF LoadSnapshot, LoadEvent, LoadDone, LoadFailed, SingleWriter
  <1>3. writes = {}
    BY Zenon, <1>2 DEF OnlyCurrent
  <1>4. st'[a] # "writing" /\ st' \in [Actors -> {"absent", "loading", "idle", "writing"}]
    BY Zenon DEF LoadSnapshot, LoadEvent, LoadDone, LoadFailed, TypeOK
  <1>5. OnlyCurrent' /\ CurChained' /\ CurNewest'
    BY Zenon, <1>1, <1>2, <1>3, <1>4 DEF OnlyCurrent, CurChained, CurNewest
  <1>6. ASSUME LoadSnapshot(a)
        PROVE  BalanceChained' /\ ActorOnTop' /\ CacheCounted' /\ AckedCounted'
    <2>1. /\ st'[a] = "loading" /\ balance'[a] = snapshot.balance
          /\ version'[a] = snapshot.lastVersion /\ txCache'[a] = {}
      BY Zenon, <1>6 DEF LoadSnapshot, TypeOK
    <2> QED
      BY ZenonT(40), <1>1, <1>2, <2>1 DEF BalanceChained, SnapshotsChained, After, ActorOnTop,
         CacheCounted, AckedCounted
  <1>7. ASSUME LoadEvent(a)
        PROVE  BalanceChained' /\ ActorOnTop' /\ CacheCounted' /\ AckedCounted'
    <2> DEFINE n == version[a]
               row == events[n + 1]
    <2>1. /\ n \in Nat /\ n + 1 \in DOMAIN events /\ Filled(n)
          /\ st'[a] = "loading" /\ st[a] = "loading" /\ version'[a] = n + 1
          /\ balance[a] = After(n) /\ balance'[a] = Wrap(balance[a] + row.delta)
          /\ txCache'[a] \subseteq txCache[a] \cup {row.tx}
      BY Zenon, <1>7 DEF LoadEvent, RowsAhead, TypeOK, Grounded, ActorsFilled, BalanceChained, seedTxID
    <2>2. row.after = After(n) + row.delta /\ row.after \in 0 .. MaxInt64
      <3>1. (n + 1) - 1 = n
        BY <2>1
      <3> QED
        BY Zenon, <2>1, <3>1 DEF RowsChained
    <2>3. balance'[a] = row.after
      BY <2>1, <2>2, TxAssumption DEF Wrap
    <2>4. BalanceChained'
      BY <1>1, <1>2, <2>1, <2>3 DEF BalanceChained, After
    <2>5. CacheCounted'
      BY <1>1, <1>2, <2>1 DEF CacheCounted, Counted, TypeOK
    <2> QED
      BY Zenon, <1>2, <2>1, <2>4, <2>5 DEF ActorOnTop, AckedCounted
  <1>8. ASSUME LoadDone(a)
        PROVE  BalanceChained' /\ ActorOnTop' /\ CacheCounted' /\ AckedCounted'
    <2>1. /\ st[a] = "loading" /\ UNCHANGED <<balance, version, txCache>>
          /\ version[a] \in Nat
          /\ \A v \in DOMAIN events : v \in Nat /\ v <= version[a]
      BY <1>8 DEF LoadDone, RowsAhead, TypeOK
    <2>2. ASSUME NEW n \in Nat, Filled(n) PROVE n <= version[a]
      BY <2>1, <2>2 DEF Filled
    <2>3. /\ snapshot.lastVersion <= version[a]
          /\ \A s \in snaps : s.lastVersion <= version[a]
      BY Zenon, <2>2 DEF Grounded, SnapshotsFilled, TypeOK, SnapshotRow
    <2>4. ActorOnTop'
      BY <1>1, <1>2, <2>1, <2>3 DEF ActorOnTop
    <2>5. AckedCounted'
      BY Zenon, <1>1, <1>2, <2>1 DEF AckedDurable, AckedCounted, Counted
    <2> QED
      BY Zenon, <1>1, <1>2, <2>1, <2>4, <2>5 DEF BalanceChained, After, CacheCounted, Counted
  <1>9. ASSUME LoadFailed(a)
        PROVE  BalanceChained' /\ ActorOnTop' /\ CacheCounted' /\ AckedCounted'
    BY Zenon, <1>2, <1>9 DEF LoadFailed, TypeOK, BalanceChained, ActorOnTop, CacheCounted, AckedCounted
  <1> QED
    BY Zenon, <1>1, <1>5, <1>6, <1>7, <1>8, <1>9

\* Handle up to the INSERT.
LEMMA LedgerHandle ==
  ASSUME SingleWriter, TypeOK, Grounded, Ledger, NEW a \in Actors, NEW tx \in Tx,
         HandleDuplicate(a, tx) \/ HandleWrite(a, tx)
  PROVE  Ledger'
  <1> USE DEF Ledger, LedgerConsistent, actorVars, storeVars, Live
  <1>1. /\ UNCHANGED <<events, snapshot, snaps, balance, version, txCache>>
        /\ RowsChained' /\ SnapshotsChained'
    BY Zenon, LedgerKept DEF HandleDuplicate, HandleWrite, newVersion
  <1>2. st[a] = "idle" /\ \A b \in Actors : b = a
    BY Zenon DEF HandleDuplicate, HandleWrite, newVersion, SingleWriter
  <1>3. writes = {}
    BY Zenon, <1>2 DEF OnlyCurrent
  <1>4. ASSUME HandleDuplicate(a, tx) PROVE Ledger'
    <2>1. /\ UNCHANGED <<st, cur, writes, clock>> /\ acked' = acked \cup {tx}
          /\ Counted(a, tx)
      BY Zenon, <1>2, <1>4 DEF HandleDuplicate, CacheCounted
    <2>2. AckedDurable' /\ AckedCounted'
      BY Zenon, <1>1, <1>2, <2>1 DEF AckedDurable, AckedCounted, Counted
    <2>3. BalanceChained' /\ ActorOnTop' /\ CacheCounted'
      BY <1>1, <2>1 DEF BalanceChained, After, ActorOnTop, CacheCounted, Counted
    <2> QED
      BY Zenon, <1>1, <2>1, <2>2, <2>3 DEF OnlyCurrent, CurChained, CurNewest
  <1>5. ASSUME HandleWrite(a, tx) PROVE Ledger'
    <2> DEFINE w == [version |-> version[a] + 1, tx |-> tx, delta |-> Amount[tx],
                     after |-> Wrap(balance[a] + Amount[tx]), ts |-> clock + 1]
    <2>1. /\ st' = [st EXCEPT ![a] = "writing"] /\ clock' = clock + 1 /\ acked' = acked
          /\ cur' = [cur EXCEPT ![a] = w] /\ writes' = writes \cup {w}
      BY Zenon, <1>5 DEF HandleWrite, newVersion
    <2>2. balance[a] \in 0 .. MaxInt64
      BY <1>2, AfterTyped DEF BalanceChained, Grounded, ActorsFilled, TypeOK
    <2>3. Amount[tx] \in (-MaxInt64 - 1) .. MaxInt64 /\ ~(Wrap(balance[a] + Amount[tx]) < 0)
      BY Zenon, <1>5, TxAssumption DEF HandleWrite, newVersion, Rejected
    <2>4. /\ w.after = balance[a] + w.delta /\ w.after \in 0 .. MaxInt64
          /\ w.ts = clock + 1
      BY Zenon, <2>2, <2>3, AcceptedExact
    <2> HIDE DEF w
    <2>5. st'[a] = "writing" /\ cur'[a] = w /\ writes' = {w}
      BY Zenon, <1>3, <2>1 DEF TypeOK
    <2>6. OnlyCurrent' /\ CurChained'
      BY Zenon, <1>1, <1>2, <2>4, <2>5 DEF OnlyCurrent, CurChained
    <2>7. CurNewest'
      <3>1. clock \in Nat /\ \A v \in DOMAIN events : events[v].ts \in Nat
        BY Zenon DEF TypeOK, Row
      <3> QED
        BY <1>1, <1>2, <2>1, <2>4, <2>5, <3>1 DEF CurNewest
    <2>8. \A b \in Actors : st[b] # "absent" /\ Live(b)
      BY Zenon, <1>2
    <2>9. BalanceChained'
      BY Zenon, <1>1, <2>8 DEF BalanceChained, After
    <2>10. ActorOnTop'
      BY Zenon, <1>1, <2>8 DEF ActorOnTop
    <2>11. CacheCounted' /\ AckedCounted' /\ AckedDurable'
      BY <1>1, <2>1, <2>8 DEF CacheCounted, AckedCounted, AckedDurable, Counted
    <2> QED
      BY Zenon, <1>1, <2>6, <2>7, <2>9, <2>10, <2>11
  <1> QED
    BY Zenon, <1>4, <1>5

\* Handle after the INSERT succeeded.
LEMMA LedgerCommit ==
  ASSUME SingleWriter, TypeOK, Grounded, Ledger, NEW a \in Actors, HandleCommit(a)
  PROVE  Ledger'
  <1> USE DEF Ledger, LedgerConsistent, Live
  <1> DEFINE c == cur[a]
  <1>1. /\ st[a] = "writing" /\ c \notin writes /\ \A b \in Actors : b = a
        /\ st' = [st EXCEPT ![a] = "idle"] /\ acked' = acked \cup {c.tx}
        /\ balance' = [balance EXCEPT ![a] = c.after]
        /\ version' = [version EXCEPT ![a] = c.version]
        /\ UNCHANGED <<events, snapshot, writes, clock>>
    BY Zenon DEF HandleCommit, SingleWriter
  <1>2. /\ st'[a] = "idle" /\ balance'[a] = c.after /\ version'[a] = c.version
        /\ version[a] \in Nat /\ c.version = version[a] + 1
        /\ c.version \in DOMAIN events /\ events[c.version] = c
    BY Zenon, <1>1 DEF TypeOK, Grounded, CurFilled, CurNewest
  <1>3. txCache'[a] \subseteq txCache[a] \cup {c.tx}
    BY Zenon DEF HandleCommit, addTxID, TypeOK
  <1>4. \A s \in snaps' : s \in snaps \/ (s.lastVersion = c.version /\ s.balance = c.after)
    BY DEF HandleCommit, takeSnapshotAsync
  <1>5. After(c.version) = c.after
    BY <1>2 DEF After
  <1>6. RowsChained'
    BY Zenon, <1>1 DEF RowsChained, After
  <1>7. SnapshotsChained' /\ BalanceChained'
    BY ZenonT(40), <1>1, <1>2, <1>4, <1>5 DEF SnapshotsChained, BalanceChained, After
  <1>8. ActorOnTop'
    <2>1. /\ snapshot.lastVersion \in Nat /\ \A s \in snaps : s.lastVersion \in Nat
          /\ \A v \in DOMAIN events : v \in Nat
      BY Zenon DEF TypeOK, SnapshotRow
    <2> QED
      BY <1>1, <1>2, <1>4, <2>1 DEF ActorOnTop
  <1>9. \A tx \in txCache[a] \cup acked \cup {c.tx} :
          \E v \in DOMAIN events : v <= c.version /\ events[v].tx = tx
    <2>1. \A v \in DOMAIN events : v \in Nat
      BY Zenon DEF TypeOK
    <2> QED
      BY <1>1, <1>2, <2>1 DEF CacheCounted, AckedCounted, Counted
  <1>10. CacheCounted' /\ AckedCounted' /\ AckedDurable'
    BY <1>1, <1>2, <1>3, <1>9 DEF CacheCounted, AckedCounted, AckedDurable, Counted
  <1>11. OnlyCurrent' /\ CurChained' /\ CurNewest'
    BY Zenon, <1>1, <1>2 DEF OnlyCurrent, CurChained, CurNewest
  <1> QED
    BY Zenon, <1>6, <1>7, <1>8, <1>10, <1>11

\* Handle after the INSERT failed, and the ends of an incarnation.
LEMMA LedgerEnd ==
  ASSUME SingleWriter, TypeOK, Grounded, Ledger, NEW a \in Actors,
         HandleError(a) \/ Stop(a) \/ Crash(a)
  PROVE  Ledger'
  <1> USE DEF Ledger, LedgerConsistent, storeVars, Live
  <1>1. /\ UNCHANGED <<events, snapshot, snaps, balance, version, txCache, clock, acked>>
        /\ RowsChained' /\ SnapshotsChained' /\ Live(a)
    BY Zenon, LedgerKept DEF HandleError, OnError, Stop, Crash
  <1>2. /\ st'[a] \in {"idle", "absent"} /\ \A b \in Actors : b = a
        /\ writes' \subseteq writes
    BY Zenon DEF HandleError, OnError, Stop, Crash, Abandon, TypeOK, SingleWriter
  <1>3. writes' = {}
    BY Zenon, <1>1, <1>2 DEF HandleError, OnError, Stop, Crash, Abandon, OnlyCurrent, SingleWriter
  <1>4. OnlyCurrent' /\ CurChained' /\ CurNewest'
    BY Zenon, <1>1, <1>2, <1>3 DEF OnlyCurrent, CurChained, CurNewest
  <1>5. BalanceChained' /\ ActorOnTop' /\ CacheCounted' /\ AckedCounted' /\ AckedDurable'
    BY ZenonT(40), <1>1, <1>2 DEF BalanceChained, After, ActorOnTop, CacheCounted, AckedCounted,
       AckedDurable, Counted
  <1> QED
    BY Zenon, <1>1, <1>4, <1>5

\* The INSERT reaches the table: it replaces nothing that was counted.
LEMMA LandingReplaces ==
  ASSUME SingleWriter, TypeOK, Grounded, Ledger, NEW w \in writes, WriteLands(w)
  PROVE  \E a \in Actors :
           /\ st[a] = "writing" /\ w = cur[a] /\ w.version = version[a] + 1
           /\ DOMAIN events' = DOMAIN events \cup {w.version}
           /\ events'[w.version] = w
           /\ \A v \in DOMAIN events : v # w.version => events'[v] = events[v]
  <1>1. PICK a \in Actors : st[a] = "writing" /\ w = cur[a]
    BY Zenon DEF Ledger, OnlyCurrent
  <1>2. Newer(w) /\ w.version = version[a] + 1
    BY Zenon, <1>1 DEF Newer, Ledger, CurNewest, Grounded, CurFilled
  <1>3. events' = Upsert(events, w)
    BY Zenon, <1>2 DEF WriteLands
  <1> QED
    BY Zenon, <1>1, <1>2, <1>3 DEF Upsert

LEMMA LedgerLands ==
  ASSUME SingleWriter, TypeOK, Grounded, Ledger, NEW w \in writes, WriteLands(w)
  PROVE  Ledger'
  <1> USE DEF Ledger, LedgerConsistent, actorVars, Live
  <1>1. PICK a \in Actors :
          /\ st[a] = "writing" /\ w = cur[a] /\ w.version = version[a] + 1
          /\ DOMAIN events' = DOMAIN events \cup {w.version}
          /\ events'[w.version] = w
          /\ \A v \in DOMAIN events : v # w.version => events'[v] = events[v]
    BY Zenon, LandingReplaces
  <1>2. /\ UNCHANGED <<st, balance, version, txCache, cur, snapshot, snaps, clock, acked>>
        /\ writes' = writes \ {w} /\ \A b \in Actors : b = a
    BY Zenon DEF WriteLands, SingleWriter
  <1>3. /\ version[a] \in Nat /\ Filled(version[a])
        /\ DOMAIN events \subseteq Nat \ {0} /\ \A v \in DOMAIN events : v <= version[a] + 1
    BY Zenon, <1>1 DEF TypeOK, Grounded, ActorsFilled, ActorOnTop
  <1>4. \A n \in Nat : n <= version[a] => After(n)' = After(n)
    BY <1>1, <1>3 DEF After, Filled
  <1>5. RowsChained'
    <2> SUFFICES ASSUME NEW v \in DOMAIN events'
                 PROVE  /\ events'[v].after = After(v - 1)' + events'[v].delta
                        /\ events'[v].after \in 0 .. MaxInt64
      BY Zenon DEF RowsChained
    <2>1. v \in Nat \ {0} /\ v - 1 \in Nat /\ v - 1 <= version[a]
      BY <1>1, <1>3
    <2>2. CASE v = w.version
      <3>1. v - 1 = version[a]
        BY <1>1, <1>3, <2>2
      <3>2. balance[a] = After(version[a]) /\ w.after = balance[a] + w.delta
        BY Zenon, <1>1 DEF BalanceChained, CurChained
      <3> QED
        BY Zenon, <1>1, <1>4, <2>1, <2>2, <3>1, <3>2 DEF CurChained
    <2>3. CASE v # w.version
      BY Zenon, <1>1, <1>4, <2>1, <2>3 DEF RowsChained
    <2> QED
      BY Zenon, <2>2, <2>3
  <1>6. BalanceChained' /\ SnapshotsChained'
    <2>1. /\ snapshot.lastVersion \in Nat /\ snapshot.lastVersion <= version[a]
          /\ \A s \in snaps : s.lastVersion \in Nat /\ s.lastVersion <= version[a]
      BY Zenon, <1>1 DEF ActorOnTop, TypeOK, SnapshotRow
    <2>2. After(version[a])' = After(version[a]) /\ After(snapshot.lastVersion)' = After(snapshot.lastVersion)
      BY <1>2, <1>3, <1>4, <2>1
    <2>3. \A s \in snaps : After(s.lastVersion)' = After(s.lastVersion)
      BY Zenon, <1>4, <2>1
    <2> QED
      BY Zenon, <1>1, <1>2, <2>2, <2>3 DEF BalanceChained, SnapshotsChained
  <1>7. \A tx : Counted(a, tx) => Counted(a, tx)'
    BY <1>1, <1>2, <1>3 DEF Counted
  <1>8. CacheCounted' /\ AckedCounted'
    BY Zenon, <1>1, <1>2, <1>7 DEF CacheCounted, AckedCounted
  <1>9. AckedDurable'
    BY ZenonT(40), <1>1, <1>2, <1>8 DEF AckedDurable, AckedCounted, Counted
  <1>10. ActorOnTop'
    BY <1>1, <1>2, <1>3 DEF ActorOnTop
  <1>11. OnlyCurrent' /\ CurChained'
    BY Zenon, <1>2 DEF OnlyCurrent, CurChained
  <1>12. CurNewest'
    <2>1. w.ts <= clock
      BY Zenon, <1>1 DEF Grounded, CurDistinct
    <2>2. \A v \in DOMAIN events' : events'[v].ts <= clock'
      BY Zenon, <1>1, <1>2, <2>1 DEF CurNewest
    <2> QED
      BY Zenon, <1>1, <1>2, <2>2 DEF CurNewest
  <1> QED
    BY Zenon, <1>5, <1>6, <1>8, <1>9, <1>10, <1>11, <1>12

LEMMA LedgerSnapshot ==
  ASSUME Ledger, NEW s \in snaps, SnapshotLands(s) \/ SnapshotLost(s)
  PROVE  Ledger'
  <1> USE DEF Ledger, LedgerConsistent, actorVars, Live
  <1>1. /\ UNCHANGED <<st, balance, version, txCache, cur, events, writes, clock, acked>>
        /\ snaps' \subseteq snaps
        /\ snapshot' = snapshot
           \/ (snapshot'.balance = s.balance /\ snapshot'.lastVersion = s.lastVersion)
    BY DEF SnapshotLands, SnapshotLost
  <1>2. RowsChained' /\ BalanceChained' /\ SnapshotsChained'
    BY Zenon, <1>1 DEF RowsChained, BalanceChained, SnapshotsChained, After
  <1>3. ActorOnTop'
    BY Zenon, <1>1 DEF ActorOnTop
  <1>4. OnlyCurrent' /\ CurChained' /\ CurNewest'
    BY Zenon, <1>1 DEF OnlyCurrent, CurChained, CurNewest
  <1>5. AckedDurable' /\ CacheCounted' /\ AckedCounted'
    BY ZenonT(40), <1>1 DEF AckedDurable, CacheCounted, AckedCounted, Counted
  <1> QED
    BY Zenon, <1>2, <1>3, <1>4, <1>5

LEMMA LedgerStep ==
  ASSUME SingleWriter, TypeOK, Grounded, Ledger, [Next]_vars
  PROVE  Ledger'
  <1>1. CASE UNCHANGED vars
    BY <1>1 DEF vars, actorVars, storeVars, Ledger, LedgerConsistent, AckedDurable,
       OnlyCurrent, CurChained, CurNewest, ActorOnTop, CacheCounted, AckedCounted,
       Counted, RowsChained, BalanceChained, SnapshotsChained, After, Live
  <1> QED
    BY Zenon, <1>1, LedgerLoad, LedgerHandle, LedgerCommit, LedgerEnd, LedgerLands,
       LedgerSnapshot DEF Next, ActorNext, HandleReject

\* With one writer, the rows, the balances and the snapshots always agree and
\* no balance is negative or wraps; acknowledged transactions stay in the log.
THEOREM LedgerCorrect == ASSUME SingleWriter PROVE Spec => []LedgerConsistent
  <1>1. Init => Ledger
    BY Zenon, LedgerInit
  <1>2. TypeOK /\ Grounded /\ Ledger /\ [Next]_vars => Ledger'
    BY Zenon, LedgerStep
  <1>3. Ledger => LedgerConsistent
    BY Zenon DEF Ledger
  <1> QED
    BY <1>1, <1>2, <1>3, TypeCorrect, AlwaysGrounded, PTL DEF Spec

\* With one writer, a row some live actor has counted is never overwritten.
THEOREM CountedRowsNeverChange == ASSUME SingleWriter PROVE Spec => CountedRowsStable
  <1> DEFINE Kept == \A a \in Actors : Live(a) =>
                       \A v \in 1 .. version[a] : events'[v] = events[v]
  <1>1. TypeOK /\ Grounded /\ Ledger /\ [Next]_vars => [Kept]_events
    <2> SUFFICES ASSUME TypeOK, Grounded, Ledger, [Next]_vars, events' # events
                 PROVE  Kept
      BY Zenon
    <2>1. PICK w \in writes : WriteLands(w)
      BY ZenonT(40) DEF Next, ActorNext, vars, actorVars, storeVars, LoadSnapshot, LoadEvent,
         LoadDone, LoadFailed, HandleDuplicate, HandleReject, HandleWrite,
         HandleCommit, HandleError, Stop, Crash, SnapshotLands, SnapshotLost
    <2>2. PICK a \in Actors :
            /\ st[a] = "writing" /\ w.version = version[a] + 1
            /\ \A v \in DOMAIN events : v # w.version => events'[v] = events[v]
      BY Zenon, <2>1, LandingReplaces
    <2>3. version[a] \in Nat /\ Filled(version[a]) /\ \A b \in Actors : b = a
      BY Zenon, <2>2 DEF TypeOK, Grounded, ActorsFilled, SingleWriter
    <2> QED
      BY <2>2, <2>3 DEF Filled
  <1>2. TypeOK /\ Grounded /\ [Next]_vars /\ Ledger => Ledger'
    BY Zenon, LedgerStep
  <1>3. CountedRowsStable <=> [][Kept]_events
    BY Zenon DEF CountedRowsStable
  <1> QED
    BY <1>1, <1>2, <1>3, LedgerInit, TypeCorrect, AlwaysGrounded, PTL DEF Spec
-----------------------------------------------------------------------------
(* The ring of transaction ids.                                            *)

\* How many ids the ring has taken up after the one in slot s, when the cursor
\* is at c.
Age(c, s) == IF s < c THEN c - 1 - s ELSE c - 1 - s + TxCacheSize

\* No other row after lo, up to hi, has v's transaction.
Lone(rows, lo, hi, v) == \A u \in lo + 1 .. hi : rows[u].tx = rows[v].tx => u = v

\* v's id is cached and in one slot, where no more ids than rows have come after it.
InRing(rows, hi, cache, ring, c, v) ==
  /\ rows[v].tx \in cache
  /\ \E s \in Slots :
       /\ ring[s] = rows[v].tx /\ Age(c, s) <= hi - v
       /\ \A r \in Slots \ {s} : ring[r] # rows[v].tx

\* Whether the cache and the ring agree with the rows after lo, up to hi: each id
\* comes from a row, and a recent id that one row has is kept.
Remembers(rows, lo, hi, cache, ring, c) ==
  /\ \A tx \in cache : \E u \in lo + 1 .. hi : rows[u].tx = tx
  /\ \A s \in Slots : ring[s] = NoTx \/ \E u \in lo + 1 .. hi : rows[u].tx = ring[s]
  /\ \A v \in lo + 1 .. hi : v > hi - TxCacheSize /\ Lone(rows, lo, hi, v) =>
       InRing(rows, hi, cache, ring, c, v)

\* The cursor's step.
LEMMA CursorStep ==
  ASSUME NEW c \in Slots
  PROVE  /\ (c + 1) % TxCacheSize = IF c + 1 = TxCacheSize THEN 0 ELSE c + 1
         /\ Age(c, c) = TxCacheSize - 1
         /\ Age((c + 1) % TxCacheSize, c) = 0
         /\ \A s \in Slots \ {c} : Age((c + 1) % TxCacheSize, s) = Age(c, s) + 1
  <1>1. (c + 1) % TxCacheSize = IF c + 1 = TxCacheSize THEN 0 ELSE c + 1
    BY SizeAssumption DEF Slots
  <1> QED BY <1>1, SizeAssumption DEF Slots, Age

\* A row whose id is not cached: seedTxID and addTxID, which differ in whether
\* the id that loses its slot leaves the cache.
LEMMA RememberNew ==
  ASSUME NEW rows, NEW lo \in Nat, NEW hi \in Nat, lo <= hi, NEW cache, NEW ring, NEW c \in Slots,
         Remembers(rows, lo, hi, cache, ring, c), DOMAIN ring = Slots,
         \A u \in lo + 1 .. hi + 1 : rows[u].tx # NoTx,
         rows[hi + 1].tx \notin cache,
         NEW after, after \subseteq cache \cup {rows[hi + 1].tx}, rows[hi + 1].tx \in after,
         cache \ {ring[c]} \subseteq after
  PROVE  Remembers(rows, lo, hi + 1, after, [ring EXCEPT ![c] = rows[hi + 1].tx],
                   (c + 1) % TxCacheSize)
  <1> DEFINE tx == rows[hi + 1].tx
             ring2 == [ring EXCEPT ![c] = tx]
             c2 == (c + 1) % TxCacheSize
  <1>0. lo + 1 .. hi + 1 = (lo + 1 .. hi) \cup {hi + 1} /\ TxCacheSize \in Nat \ {0}
    BY SizeAssumption
  <1>1. ring2[c] = tx /\ \A s \in Slots \ {c} : ring2[s] = ring[s]
    BY Zenon
  <1>2. \A t \in after : \E u \in lo + 1 .. hi + 1 : rows[u].tx = t
    BY Zenon, <1>0 DEF Remembers
  <1>3. \A s \in Slots : ring2[s] = NoTx \/ \E u \in lo + 1 .. hi + 1 : rows[u].tx = ring2[s]
    BY Zenon, <1>0, <1>1 DEF Remembers
  <1>4. ASSUME NEW v \in lo + 1 .. hi + 1, v > (hi + 1) - TxCacheSize, Lone(rows, lo, hi + 1, v)
        PROVE  InRing(rows, hi + 1, after, ring2, c2, v)
    <2>1. CASE v = hi + 1
      <3>1. \A u \in lo + 1 .. hi : rows[u].tx # tx
        BY <1>0, <1>4, <2>1 DEF Lone
      <3>2. \A r \in Slots : ring[r] # tx
        BY ZenonT(40), <1>0, <3>1 DEF Remembers
      <3>3. Age(c2, c) <= (hi + 1) - v
        BY <2>1, CursorStep
      <3> QED BY Zenon, <1>1, <2>1, <3>2, <3>3 DEF InRing
    <2>2. CASE v # hi + 1
      <3>1. v \in lo + 1 .. hi /\ v > hi - TxCacheSize /\ rows[v].tx # tx
        BY <1>0, <1>4, <2>2 DEF Lone
      <3>2. Lone(rows, lo, hi, v)
        BY Zenon, <1>0, <1>4 DEF Lone
      <3>3. PICK s \in Slots : /\ ring[s] = rows[v].tx /\ Age(c, s) <= hi - v
                               /\ \A r \in Slots \ {s} : ring[r] # rows[v].tx
        BY Zenon, <3>1, <3>2 DEF Remembers, InRing
      <3>4. rows[v].tx \in cache
        BY Zenon, <3>1, <3>2 DEF Remembers, InRing
      <3>5. s # c
        <4>1. Age(c, c) = TxCacheSize - 1
          BY Zenon, CursorStep
        <4> QED BY <1>0, <1>4, <3>1, <3>3, <4>1
      <3>6. Age(c2, s) <= (hi + 1) - v
        <4>1. Age(c2, s) = Age(c, s) + 1
          BY Zenon, <3>5, CursorStep
        <4>2. Age(c, s) \in Int
          BY SizeAssumption DEF Age, Slots
        <4> QED BY <3>1, <3>3, <4>1, <4>2
      <3>7. rows[v].tx \in after
        BY Zenon, <3>3, <3>4, <3>5
      <3> QED BY Zenon, <1>1, <3>1, <3>3, <3>5, <3>6, <3>7 DEF InRing
    <2> QED BY Zenon, <2>1, <2>2
  <1> HIDE DEF c2, ring2
  <1>5. \A v \in lo + 1 .. hi + 1 : v > (hi + 1) - TxCacheSize /\ Lone(rows, lo, hi + 1, v)
          => InRing(rows, hi + 1, after, ring2, c2, v)
    BY Zenon, <1>4
  <1>6. Remembers(rows, lo, hi + 1, after, ring2, c2)
    BY Zenon, <1>2, <1>3, <1>5 DEF Remembers
  <1> QED BY Zenon, <1>6 DEF c2, ring2

\* A row whose id seedTxID finds in the cache: an earlier row has it too.
LEMMA RememberOld ==
  ASSUME NEW rows, NEW lo \in Nat, NEW hi \in Nat, lo <= hi, NEW cache, NEW ring, NEW c \in Slots,
         Remembers(rows, lo, hi, cache, ring, c), rows[hi + 1].tx \in cache
  PROVE  Remembers(rows, lo, hi + 1, cache, ring, c)
  <1>0. lo + 1 .. hi + 1 = (lo + 1 .. hi) \cup {hi + 1} /\ TxCacheSize \in Nat \ {0}
    BY SizeAssumption
  <1>1. \A s \in Slots : Age(c, s) \in Int
    BY SizeAssumption DEF Age, Slots
  <1>2. ASSUME NEW v \in lo + 1 .. hi + 1, v > (hi + 1) - TxCacheSize, Lone(rows, lo, hi + 1, v)
        PROVE  /\ v \in lo + 1 .. hi /\ v > hi - TxCacheSize /\ Lone(rows, lo, hi, v)
               /\ \A s \in Slots : Age(c, s) <= hi - v => Age(c, s) <= (hi + 1) - v
    <2>1. v # hi + 1
      BY <1>0, <1>2 DEF Remembers, Lone
    <2>2. v \in lo + 1 .. hi /\ v > hi - TxCacheSize
      BY <1>0, <1>2, <2>1
    <2> QED BY <1>0, <1>1, <1>2, <2>2 DEF Lone
  <1>3. /\ \A tx \in cache : \E u \in lo + 1 .. hi + 1 : rows[u].tx = tx
        /\ \A s \in Slots : ring[s] = NoTx \/ \E u \in lo + 1 .. hi + 1 : rows[u].tx = ring[s]
    BY Zenon, <1>0 DEF Remembers
  <1>4. ASSUME NEW v \in lo + 1 .. hi + 1, v > (hi + 1) - TxCacheSize, Lone(rows, lo, hi + 1, v)
        PROVE  InRing(rows, hi + 1, cache, ring, c, v)
    BY Zenon, <1>2, <1>4 DEF Remembers, InRing
  <1>5. \A v \in lo + 1 .. hi + 1 : v > (hi + 1) - TxCacheSize /\ Lone(rows, lo, hi + 1, v)
          => InRing(rows, hi + 1, cache, ring, c, v)
    BY Zenon, <1>4
  <1> QED BY Zenon, <1>3, <1>5 DEF Remembers

\* Rows outside the interval do not matter.
LEMMA RememberSame ==
  ASSUME NEW rows, NEW others, NEW lo, NEW hi, NEW cache, NEW ring, NEW c,
         \A v \in lo + 1 .. hi : rows[v].tx = others[v].tx,
         Remembers(rows, lo, hi, cache, ring, c)
  PROVE  Remembers(others, lo, hi, cache, ring, c)
  <1>1. \A v \in lo + 1 .. hi : Lone(others, lo, hi, v) => Lone(rows, lo, hi, v)
    BY Zenon DEF Lone
  <1>2. /\ \A tx \in cache : \E u \in lo + 1 .. hi : others[u].tx = tx
        /\ \A s \in Slots : ring[s] = NoTx \/ \E u \in lo + 1 .. hi : others[u].tx = ring[s]
    BY Zenon DEF Remembers
  <1>3. ASSUME NEW v \in lo + 1 .. hi, v > hi - TxCacheSize, Lone(others, lo, hi, v)
        PROVE  InRing(others, hi, cache, ring, c, v)
    BY ZenonT(40), <1>1, <1>3 DEF Remembers, InRing
  <1> QED BY Zenon, <1>2, <1>3 DEF Remembers

\* The rows are clients' rows.
ClientRows ==
  /\ \A v \in DOMAIN events : events[v].tx \in Tx
  /\ \A w \in writes : w.tx \in Tx

\* An actor remembers the rows since the snapshot it started from, and writes one
\* it does not remember.
Window ==
  \A a \in Actors : st[a] # "absent" =>
    /\ base[a] <= version[a]
    /\ Remembers(events, base[a], version[a], txCache[a], txRing[a], txCursor[a])
    /\ st[a] = "writing" => cur[a].tx \notin txCache[a]

LEMMA ClientRowsStep == ASSUME TypeOK, ClientRows, [Next]_vars PROVE ClientRows'
  <1> USE DEF actorVars, storeVars, vars
  <1>1. ASSUME NEW w \in writes, WriteLands(w) PROVE ClientRows'
    BY <1>1 DEF WriteLands, Upsert, ClientRows
  <1>2. ASSUME NEW a \in Actors, NEW tx \in Tx, HandleWrite(a, tx) PROVE ClientRows'
    <2>1. PICK w : w.tx = tx /\ writes' = writes \cup {w} /\ events' = events
      BY Zenon, <1>2 DEF HandleWrite
    <2> QED BY Zenon, <2>1 DEF ClientRows
  <1>3. ASSUME NEW a \in Actors, HandleError(a) \/ Crash(a) PROVE ClientRows'
    BY Zenon, <1>3 DEF HandleError, Crash, Abandon, ClientRows
  <1>4. ASSUME UNCHANGED <<events, writes>> PROVE ClientRows'
    BY Zenon, <1>4 DEF ClientRows
  <1> QED BY Zenon, <1>1, <1>2, <1>3, <1>4 DEF Next, ActorNext, LoadSnapshot, LoadEvent, LoadDone,
          LoadFailed, HandleDuplicate, HandleReject, HandleCommit, Stop, SnapshotLands, SnapshotLost

LEMMA CountedFilled ==
  ASSUME TypeOK, Grounded, NEW a \in Actors, st[a] # "absent"
  PROVE  \A u \in base[a] + 1 .. version[a] : u \in DOMAIN events
  <1>1. base[a] \in Nat /\ version[a] \in Nat /\ Filled(version[a])
    BY Zenon DEF TypeOK, Grounded, ActorsFilled
  <1> QED BY <1>1 DEF Filled

\* The one actor's steps.
LEMMA WindowActor ==
  ASSUME SingleWriter, TypeOK, Grounded, Ledger, ClientRows, Window,
         NEW a \in Actors, ActorNext(a)
  PROVE  Window'
  <1> USE DEF actorVars, storeVars
  <1>0. /\ version[a] \in Nat /\ base[a] \in Nat
        /\ \A b \in Actors : b = a
        /\ txCursor[a] \in Slots /\ DOMAIN txRing[a] = Slots
        /\ txRing[a] \in [Slots -> Tx \cup {NoTx}]
    BY Zenon DEF SingleWriter, TypeOK
  <1>1. \A v \in DOMAIN events : events[v].tx # NoTx
    BY Zenon, TxAssumption DEF ClientRows
  <1>2. ASSUME st'[a] # "absent",
               base'[a] <= version'[a],
               Remembers(events', base'[a], version'[a], txCache'[a], txRing'[a], txCursor'[a]),
               st'[a] = "writing" => cur'[a].tx \notin txCache'[a]
        PROVE  Window'
    BY Zenon, <1>0, <1>2 DEF Window
  <1>3. CASE LoadSnapshot(a)
    <2>1. /\ base'[a] = snapshot.lastVersion /\ version'[a] = snapshot.lastVersion
          /\ txCache'[a] = {} /\ st'[a] = "loading" /\ snapshot.lastVersion \in Nat
          /\ \A s \in Slots : txRing'[a][s] = NoTx
      BY Zenon, <1>3 DEF LoadSnapshot, TypeOK, SnapshotRow
    <2>2. snapshot.lastVersion + 1 .. snapshot.lastVersion = {}
      BY <2>1
    <2>3. Remembers(events', base'[a], version'[a], txCache'[a], txRing'[a], txCursor'[a])
      BY Zenon, <2>1, <2>2 DEF Remembers
    <2>4. base'[a] <= version'[a]
      <3>1. PICK n \in Nat : base'[a] = n /\ version'[a] = n
        BY Zenon, <2>1
      <3> QED BY <3>1
    <2> QED BY Zenon, <1>2, <2>1, <2>3, <2>4
  <1>4. CASE LoadEvent(a)
    <2> DEFINE tx == events[version[a] + 1].tx
    <2>1. /\ st[a] = "loading" /\ st' = st /\ version[a] + 1 \in DOMAIN events
          /\ version'[a] = version[a] + 1 /\ UNCHANGED <<events, base>> /\ seedTxID(a, tx)
      BY Zenon, <1>4 DEF LoadEvent, RowsAhead, TypeOK
    <2>2. /\ base[a] <= version[a]
          /\ Remembers(events, base[a], version[a], txCache[a], txRing[a], txCursor[a])
      BY Zenon, <2>1 DEF Window
    <2>3. st'[a] = "loading" /\ base'[a] <= version'[a]
      <3>1. base'[a] = base[a] /\ version'[a] = version[a] + 1 /\ base[a] <= version[a]
        BY Zenon, <2>1, <2>2
      <3>2. base'[a] <= version'[a]
        BY <1>0, <3>1
      <3> QED BY Zenon, <2>1, <3>2
    <2>4. CASE tx \in txCache[a]
      <3>1. UNCHANGED <<txCache, txRing, txCursor>>
        BY Zenon, <2>1, <2>4 DEF seedTxID
      <3>2. Remembers(events, base[a], version[a] + 1, txCache[a], txRing[a], txCursor[a])
        BY Zenon, <1>0, <2>2, <2>4, RememberOld
      <3> QED BY Zenon, <1>2, <2>1, <2>3, <3>1, <3>2
    <2>5. CASE tx \notin txCache[a]
      <3>1. /\ txCache'[a] = txCache[a] \cup {tx}
            /\ txRing'[a] = [txRing[a] EXCEPT ![txCursor[a]] = tx]
            /\ txCursor'[a] = (txCursor[a] + 1) % TxCacheSize
        BY Zenon, <2>1, <2>5 DEF seedTxID, TypeOK
      <3>2. \A u \in base[a] + 1 .. version[a] + 1 : events[u].tx # NoTx
        <4>1. \A u \in base[a] + 1 .. version[a] : u \in DOMAIN events
          BY Zenon, <2>1, CountedFilled
        <4>2. \A u \in base[a] + 1 .. version[a] + 1 :
                u = version[a] + 1 \/ u \in base[a] + 1 .. version[a]
          BY <1>0
        <4> QED BY Zenon, <1>1, <2>1, <4>1, <4>2
      <3>3. Remembers(events, base[a], version[a] + 1, txCache[a] \cup {tx},
                      [txRing[a] EXCEPT ![txCursor[a]] = tx], (txCursor[a] + 1) % TxCacheSize)
        BY Zenon, <1>0, <2>2, <2>5, <3>2, RememberNew
      <3> QED BY Zenon, <1>2, <2>1, <2>3, <3>1, <3>3
    <2> QED BY Zenon, <2>4, <2>5
  <1>5. CASE HandleCommit(a)
    <2> DEFINE tx == cur[a].tx
    <2>1. /\ st[a] = "writing" /\ st'[a] = "idle" /\ cur[a] \notin writes
          /\ version'[a] = cur[a].version /\ UNCHANGED <<events, base>> /\ addTxID(a, tx)
      BY Zenon, <1>5 DEF HandleCommit, TypeOK
    <2>2. /\ cur[a].version = version[a] + 1 /\ version[a] + 1 \in DOMAIN events
          /\ events[version[a] + 1] = cur[a]
      BY Zenon, <2>1 DEF Grounded, CurFilled, Ledger, CurNewest
    <2>3. /\ base[a] <= version[a] /\ tx \notin txCache[a]
          /\ Remembers(events, base[a], version[a], txCache[a], txRing[a], txCursor[a])
      BY Zenon, <2>1 DEF Window
    <2>4. /\ txCache'[a] = (txCache[a] \ {txRing[a][txCursor[a]]}) \cup {tx}
          /\ txRing'[a] = [txRing[a] EXCEPT ![txCursor[a]] = tx]
          /\ txCursor'[a] = (txCursor[a] + 1) % TxCacheSize
      BY Zenon, <2>1 DEF addTxID, TypeOK
    <2>5. \A u \in base[a] + 1 .. version[a] + 1 : events[u].tx # NoTx
      <3>1. \A u \in base[a] + 1 .. version[a] : u \in DOMAIN events
        BY Zenon, <2>1, CountedFilled
      <3>2. \A u \in base[a] + 1 .. version[a] + 1 :
              u = version[a] + 1 \/ u \in base[a] + 1 .. version[a]
        BY <1>0
      <3> QED BY Zenon, <1>1, <2>2, <3>1, <3>2
    <2>6. Remembers(events, base[a], version[a] + 1, txCache'[a], txRing'[a], txCursor'[a])
      <3>1. PICK after : after = (txCache[a] \ {txRing[a][txCursor[a]]}) \cup {tx}
        BY Zenon
      <3>2. Remembers(events, base[a], version[a] + 1, after,
                      [txRing[a] EXCEPT ![txCursor[a]] = events[version[a] + 1].tx],
                      (txCursor[a] + 1) % TxCacheSize)
        BY Zenon, <1>0, <2>2, <2>3, <2>5, <3>1, RememberNew
      <3>3. txCache'[a] = after /\ events[version[a] + 1].tx = tx
        BY Zenon, <2>2, <2>4, <3>1
      <3> QED BY Zenon, <2>4, <3>2, <3>3
    <2> QED BY <1>0, <1>2, <2>1, <2>2, <2>3, <2>6
  <1>6. ASSUME NEW tx \in Tx, HandleWrite(a, tx) PROVE Window'
    <2>1. /\ st[a] = "idle" /\ st'[a] = "writing" /\ cur'[a].tx = tx /\ tx \notin txCache[a]
          /\ UNCHANGED <<events, base, version, txCache, txRing, txCursor>>
      BY Zenon, <1>6 DEF HandleWrite, TypeOK
    <2> QED BY Zenon, <1>2, <2>1 DEF Window
  <1>7. ASSUME UNCHANGED <<events, base, version, txCache, txRing, txCursor>>,
               st[a] # "absent", st'[a] # "writing" \/ UNCHANGED <<st, cur>>
        PROVE  Window'
    BY Zenon, <1>0, <1>2, <1>7 DEF Window
  <1>8. CASE LoadDone(a) \/ LoadFailed(a) \/ HandleError(a) \/ Stop(a) \/ Crash(a)
    BY Zenon, <1>0, <1>7, <1>8 DEF LoadDone, LoadFailed, HandleError, OnError, Stop, Crash, TypeOK
  <1>9. ASSUME NEW tx \in Tx, HandleDuplicate(a, tx) \/ HandleReject(a, tx) PROVE Window'
    BY Zenon, <1>0, <1>7, <1>9 DEF HandleDuplicate, HandleReject, vars
  <1> QED BY Zenon, <1>3, <1>4, <1>5, <1>6, <1>8, <1>9 DEF ActorNext

LEMMA WindowStep ==
  ASSUME SingleWriter, TypeOK, Grounded, Ledger, ClientRows, Window, [Next]_vars
  PROVE  Window'
  <1>1. ASSUME UNCHANGED <<events, base, version, txCache, txRing, txCursor, st, cur>>
        PROVE  Window'
    BY Zenon, <1>1 DEF Window
  <1>2. ASSUME NEW w \in writes, WriteLands(w) PROVE Window'
    <2>1. PICK a \in Actors :
            /\ st[a] = "writing" /\ w.version = version[a] + 1
            /\ \A v \in DOMAIN events : v # w.version => events'[v] = events[v]
      BY Zenon, <1>2, LandingReplaces
    <2>2. /\ UNCHANGED <<base, version, txCache, txRing, txCursor, st, cur>>
          /\ version[a] \in Nat /\ base[a] \in Nat
          /\ \A b \in Actors : b = a
      BY Zenon, <1>2 DEF WriteLands, actorVars, SingleWriter, TypeOK
    <2>3. \A v \in base[a] + 1 .. version[a] : v \in DOMAIN events /\ v # w.version
      BY <2>1, <2>2, CountedFilled
    <2>4. \A v \in base[a] + 1 .. version[a] : events[v].tx = events'[v].tx
      BY Zenon, <2>1, <2>3
    <2>5. Remembers(events, base[a], version[a], txCache[a], txRing[a], txCursor[a])
      BY Zenon, <2>1 DEF Window
    <2>6. Remembers(events', base[a], version[a], txCache[a], txRing[a], txCursor[a])
      <3>1. PICK others : others = events'
        BY Zenon
      <3>2. \A v \in base[a] + 1 .. version[a] : events[v].tx = others[v].tx
        BY Zenon, <2>4, <3>1
      <3>3. Remembers(others, base[a], version[a], txCache[a], txRing[a], txCursor[a])
        BY Zenon, <2>5, <3>2, RememberSame
      <3> QED BY Zenon, <3>1, <3>3
    <2> QED BY Zenon, <2>1, <2>2, <2>6 DEF Window
  <1>3. ASSUME NEW s \in snaps, SnapshotLands(s) \/ SnapshotLost(s) PROVE Window'
    BY Zenon, <1>1, <1>3 DEF SnapshotLands, SnapshotLost, actorVars
  <1>4. CASE UNCHANGED vars
    BY Zenon, <1>1, <1>4 DEF vars, actorVars, storeVars
  <1> QED BY Zenon, <1>2, <1>3, <1>4, WindowActor DEF Next

\* With one writer, a transaction among the last TxCacheSize rows since the
\* snapshot is known to be a duplicate, unless it was applied twice before: a
\* restart that fills the ring without evicting, and the writes after it that
\* evict, never drop an id too early.
THEOREM DedupCovers == ASSUME SingleWriter PROVE Spec => []DedupWindow
  <1> DEFINE Inv == Ledger /\ ClientRows /\ Window
  <1>1. Init => Inv
    BY Zenon, LedgerInit DEF Init, ClientRows, Window
  <1>2. TypeOK /\ Grounded /\ Inv /\ [Next]_vars => Inv'
    BY Zenon, LedgerStep, ClientRowsStep, WindowStep
  <1>3. TypeOK /\ Grounded /\ Inv => DedupWindow
    <2> SUFFICES ASSUME TypeOK, Grounded, Inv, NEW a \in Actors, Live(a),
                        NEW v \in SinceBase(a), ~(v <= version[a] - TxCacheSize),
                        \A u \in SinceBase(a) : events[u].tx = events[v].tx => u = v
                 PROVE  events[v].tx \in txCache[a]
      BY Zenon DEF DedupWindow
    <2>1. version[a] \in Nat /\ base[a] \in Nat /\ TxCacheSize \in Nat /\ st[a] # "absent"
          /\ DOMAIN events \subseteq Nat
      BY Zenon, SizeAssumption DEF TypeOK, Live
    <2>2. \A u \in base[a] + 1 .. version[a] : u \in SinceBase(a)
      BY <2>1, CountedFilled DEF SinceBase
    <2>3. v \in base[a] + 1 .. version[a] /\ v > version[a] - TxCacheSize
      BY <2>1 DEF SinceBase
    <2>4. Lone(events, base[a], version[a], v)
      BY Zenon, <2>2 DEF Lone
    <2> QED BY Zenon, <2>1, <2>3, <2>4 DEF Window, Remembers, InRing
  <1> HIDE DEF Inv
  <1> QED BY <1>1, <1>2, <1>3, TypeCorrect, AlwaysGrounded, PTL DEF Spec

-----------------------------------------------------------------------------
(* Induction and recursion over an interval.                               *)

\* A nonempty set of naturals has a least element.
LEMMA Least ==
  ASSUME NEW T \in SUBSET Nat, T # {}
  PROVE  \E x \in T : \A y \in T : x <= y
  <1> DEFINE R == OpToRel(<, Nat)
  <1>1. IsWellFoundedOn(R, Nat)
    BY Zenon, NatLessThanWellFounded
  <1>2. \A x, y \in Nat : <<y, x>> \in R <=> y < x
    BY Zenon DEF OpToRel
  <1> HIDE DEF R
  <1>3. PICK x \in T : \A y \in T : ~ (<<y, x>> \in R)
    BY Zenon, <1>1, WFMin
  <1>4. \A y \in T : ~ (y < x)
    BY Zenon, <1>2, <1>3
  <1> QED BY <1>3, <1>4

LEMMA IntervalInduction ==
  ASSUME NEW m \in Nat, NEW n \in Nat, NEW T, m \in T,
         \A v \in m + 1 .. n : v - 1 \in T => v \in T
  PROVE  m .. n \subseteq T
  <1> SUFFICES ASSUME ~ (m .. n \subseteq T) PROVE FALSE
    BY Zenon
  <1> DEFINE U == (m .. n) \ T
  <1>1. U \in SUBSET Nat /\ U # {}
    OBVIOUS
  <1>2. PICK x \in U : \A y \in U : x <= y
    BY Zenon, <1>1, Least
  <1>3. x \in m + 1 .. n /\ x - 1 \in m .. n /\ ~ (x <= x - 1)
    BY <1>2
  <1> QED BY Zenon, <1>2, <1>3

\* A function that is given at m and after that step by step.
Steps(f, m, n, S, b, F) ==
  /\ f \in [m .. n -> S] /\ f[m] = b
  /\ \A v \in m + 1 .. n : f[v] = F[v][f[v - 1]]

LEMMA Recursion ==
  ASSUME NEW m \in Nat, NEW n \in Nat, m <= n, NEW S, NEW b \in S,
         NEW F \in [m + 1 .. n -> [S -> S]]
  PROVE  \E f : Steps(f, m, n, S, b, F)
  <1> USE DEF Steps
  <1> DEFINE T == {k \in m .. n : \E f : Steps(f, m, k, S, b, F)}
  <1>1. m \in T
    <2> DEFINE f == [v \in m .. m |-> b]
    <2>1. Steps(f, m, m, S, b, F)
      OBVIOUS
    <2>2. m \in m .. n
      OBVIOUS
    <2> QED BY Zenon, <2>1, <2>2
  <1>2. ASSUME NEW k \in m + 1 .. n, k - 1 \in T PROVE k \in T
    <2>1. PICK f : Steps(f, m, k - 1, S, b, F)
      BY Zenon, <1>2
    <2>2. k - 1 \in m .. k - 1 /\ f[k - 1] \in S
      BY <2>1
    <2>3. F[k][f[k - 1]] \in S
      BY Zenon, <2>2
    <2> DEFINE e == F[k][f[k - 1]]
               g == [v \in m .. k |-> IF v = k THEN e ELSE f[v]]
    <2> HIDE DEF e
    <2>4. g \in [m .. k -> S] /\ g[m] = b
      BY <2>1, <2>3 DEF e
    <2>5. ASSUME NEW v \in m + 1 .. k PROVE g[v] = F[v][g[v - 1]]
      <3>1. CASE v = k
        <4>1. g[k] = e /\ g[k - 1] = f[k - 1]
          BY <2>2
        <4> QED BY Zenon, <3>1, <4>1 DEF e
      <3>2. CASE v # k
        <4>1. g[v] = f[v] /\ g[v - 1] = f[v - 1] /\ v \in m + 1 .. k - 1
          BY <3>2
        <4> QED BY Zenon, <2>1, <4>1
      <3> QED BY Zenon, <3>1, <3>2
    <2>6. Steps(g, m, k, S, b, F)
      BY Zenon, <2>4, <2>5
    <2>7. k \in m .. n
      OBVIOUS
    <2> QED BY Zenon, <2>6, <2>7
  <1>3. m .. n \subseteq T
    <2> HIDE DEF T
    <2> QED BY Zenon, <1>1, <1>2, IntervalInduction
  <1>4. n \in T
    BY <1>3
  <1> QED BY Zenon, <1>4
-----------------------------------------------------------------------------
(* The sums of deltas, for any table of rows.                              *)

Int64 == (-MaxInt64 - 1) .. MaxInt64

LEMMA WrapRange == \A x, y \in Int64 : Wrap(x + y) \in Int64
  BY TxAssumption DEF Wrap, Int64

Delta(rows, v) == IF v \in DOMAIN rows THEN rows[v].delta ELSE 0

\* AddDeltas, of rows.
RowSum(rows, b, m, n) ==
  LET sum[v \in m .. n] == IF v = m THEN b ELSE Wrap(sum[v - 1] + Delta(rows, v))
  IN sum[n]

\* f holds the sums after each row.
IsSum(f, rows, b, m, n) ==
  /\ f \in [m .. n -> Int] /\ f[m] = b
  /\ \A v \in m + 1 .. n : f[v] = Wrap(f[v - 1] + Delta(rows, v))

LEMMA RowSumIs ==
  ASSUME NEW rows, \A v \in DOMAIN rows : rows[v].delta \in Int,
         NEW b \in Int, NEW m \in Nat, NEW n \in Nat, m <= n
  PROVE  \E f : IsSum(f, rows, b, m, n) /\ RowSum(rows, b, m, n) = f[n]
  <1> DEFINE Is(f) == f = [v \in m .. n |->
                             IF v = m THEN b ELSE Wrap(f[v - 1] + Delta(rows, v))]
  <1>0. \A v : Delta(rows, v) \in Int
    BY DEF Delta
  <1>1. \E f : Is(f)
    <2> DEFINE F == [v \in m + 1 .. n |-> [x \in Int |-> Wrap(x + Delta(rows, v))]]
    <2>1. ASSUME NEW v \in m + 1 .. n
          PROVE  [x \in Int |-> Wrap(x + Delta(rows, v))] \in [Int -> Int]
      <3>1. \A x \in Int : x + Delta(rows, v) \in Int
        BY <1>0
      <3> QED BY Zenon, <3>1, WrapInt
    <2>2. F \in [m + 1 .. n -> [Int -> Int]]
      BY Zenon, <2>1
    <2>3. \A v \in m + 1 .. n, x \in Int : F[v][x] = Wrap(x + Delta(rows, v))
      BY Zenon
    <2> HIDE DEF F
    <2>4. PICK f : Steps(f, m, n, Int, b, F)
      BY Zenon, <2>2, Recursion
    <2>5. ASSUME NEW v \in m + 1 .. n PROVE f[v] = Wrap(f[v - 1] + Delta(rows, v))
      <3>1. v - 1 \in m .. n
        OBVIOUS
      <3> QED BY Zenon, <2>3, <2>4, <3>1 DEF Steps
    <2>6. ASSUME NEW v \in m .. n, v # m PROVE v \in m + 1 .. n
      BY <2>6
    <2>7. Is(f)
      BY Zenon, <2>4, <2>5, <2>6 DEF Steps
    <2> QED BY Zenon, <2>7
  <1> DEFINE f == CHOOSE g : Is(g)
  <1>2. Is(f)
    BY Zenon, <1>1
  <1>3. RowSum(rows, b, m, n) = f[n]
    BY Zenon DEF RowSum
  <1> HIDE DEF f
  <1>4. DOMAIN f = m .. n /\ f[m] = b
    BY <1>2
  <1>5. ASSUME NEW v \in m + 1 .. n PROVE f[v] = Wrap(f[v - 1] + Delta(rows, v))
    <2>1. v \in m .. n /\ v # m
      OBVIOUS
    <2> QED BY Zenon, <1>2, <2>1
  <1> DEFINE T == {v \in m .. n : f[v] \in Int}
  <1>6. m .. n \subseteq T
    <2>1. m \in T
      BY <1>4
    <2>2. ASSUME NEW v \in m + 1 .. n, v - 1 \in T PROVE v \in T
      <3>1. f[v - 1] + Delta(rows, v) \in Int
        BY <1>0, <2>2
      <3>2. f[v] \in Int
        BY Zenon, <1>5, <3>1, WrapInt
      <3> QED BY <3>2
    <2> HIDE DEF T
    <2> QED BY Zenon, <2>1, <2>2, IntervalInduction
  <1>7. f \in [m .. n -> Int]
    BY Zenon, <1>2, <1>6
  <1> QED BY Zenon, <1>3, <1>4, <1>5, <1>7 DEF IsSum

\* Two sums over the same deltas are equal.
LEMMA SumsEqual ==
  ASSUME NEW m \in Nat, NEW n \in Nat, m <= n, NEW b, NEW rows, NEW others,
         \A v \in m + 1 .. n : Delta(rows, v) = Delta(others, v),
         NEW f, IsSum(f, rows, b, m, n), NEW g, IsSum(g, others, b, m, n)
  PROVE  f[n] = g[n]
  <1> DEFINE T == {v \in m .. n : f[v] = g[v]}
  <1>1. m \in T
    BY DEF IsSum
  <1>2. ASSUME NEW v \in m + 1 .. n, v - 1 \in T PROVE v \in T
    BY <1>2 DEF IsSum
  <1> HIDE DEF T
  <1>3. m .. n \subseteq T
    BY Zenon, <1>1, <1>2, IntervalInduction
  <1> QED BY <1>3 DEF T

\* A sum depends on the deltas it adds only.
LEMMA RowSumSame ==
  ASSUME NEW rows, \A v \in DOMAIN rows : rows[v].delta \in Int,
         NEW others, \A v \in DOMAIN others : others[v].delta \in Int,
         NEW b \in Int, NEW m \in Nat, NEW n \in Nat, m <= n,
         \A v \in m + 1 .. n : Delta(rows, v) = Delta(others, v)
  PROVE  RowSum(rows, b, m, n) = RowSum(others, b, m, n)
  <1>1. PICK f : IsSum(f, rows, b, m, n) /\ RowSum(rows, b, m, n) = f[n]
    BY Zenon, RowSumIs
  <1>2. PICK g : IsSum(g, others, b, m, n) /\ RowSum(others, b, m, n) = g[n]
    BY Zenon, RowSumIs
  <1> QED BY <1>1, <1>2, SumsEqual

\* One row more.
LEMMA RowSumNext ==
  ASSUME NEW rows, \A v \in DOMAIN rows : rows[v].delta \in Int,
         NEW b \in Int, NEW m \in Nat, NEW n \in Nat, m <= n
  PROVE  RowSum(rows, b, m, n + 1) = Wrap(RowSum(rows, b, m, n) + Delta(rows, n + 1))
  <1>1. PICK f : IsSum(f, rows, b, m, n + 1) /\ RowSum(rows, b, m, n + 1) = f[n + 1]
    <2>1. n + 1 \in Nat /\ m <= n + 1
      OBVIOUS
    <2> QED BY Zenon, <2>1, RowSumIs
  <1>2. PICK g : IsSum(g, rows, b, m, n) /\ RowSum(rows, b, m, n) = g[n]
    BY Zenon, RowSumIs
  <1> DEFINE h == [v \in m .. n |-> f[v]]
  <1>3. IsSum(h, rows, b, m, n) /\ h[n] = f[n]
    <2>1. h \in [m .. n -> Int] /\ h[m] = b /\ h[n] = f[n]
      BY <1>1 DEF IsSum
    <2>2. ASSUME NEW v \in m + 1 .. n PROVE h[v] = Wrap(h[v - 1] + Delta(rows, v))
      BY <1>1 DEF IsSum
    <2> QED BY Zenon, <2>1, <2>2 DEF IsSum
  <1> HIDE DEF h
  <1>4. f[n] = g[n]
    BY <1>2, <1>3, SumsEqual
  <1>5. n + 1 \in m + 1 .. n + 1 /\ (n + 1) - 1 = n
    OBVIOUS
  <1>6. f[n + 1] = Wrap(f[n] + Delta(rows, n + 1))
    BY Zenon, <1>1, <1>5 DEF IsSum
  <1> QED BY Zenon, <1>1, <1>2, <1>4, <1>6

\* No row.
LEMMA RowSumNone ==
  ASSUME NEW rows, NEW b, NEW m \in Nat
  PROVE  RowSum(rows, b, m, m) = b
  <1> DEFINE Is(f) == f = [v \in m .. m |->
                             IF v = m THEN b ELSE Wrap(f[v - 1] + Delta(rows, v))]
             g == [v \in m .. m |-> b]
             f == CHOOSE h : Is(h)
  <1>1. m \in m .. m /\ \A v \in m .. m : v = m
    OBVIOUS
  <1>2. Is(g)
    BY Zenon, <1>1
  <1>3. Is(f)
    BY Zenon, <1>2
  <1>4. RowSum(rows, b, m, m) = f[m]
    BY Zenon DEF RowSum
  <1> HIDE DEF f
  <1> QED BY Zenon, <1>1, <1>3, <1>4

\* Two pages.
LEMMA RowSumJoin ==
  ASSUME NEW rows, \A v \in DOMAIN rows : rows[v].delta \in Int,
         NEW b \in Int, NEW m \in Nat, NEW k \in Nat, NEW n \in Nat, m <= k, k <= n
  PROVE  RowSum(rows, RowSum(rows, b, m, k), k, n) = RowSum(rows, b, m, n)
  <1>1. PICK f : IsSum(f, rows, b, m, k) /\ RowSum(rows, b, m, k) = f[k]
    BY Zenon, RowSumIs
  <1>2. f[k] \in Int
    BY <1>1 DEF IsSum
  <1>3. PICK g : IsSum(g, rows, f[k], k, n) /\ RowSum(rows, f[k], k, n) = g[n]
    BY Zenon, <1>2, RowSumIs
  <1>4. m <= n
    OBVIOUS
  <1>5. PICK h : IsSum(h, rows, b, m, n) /\ RowSum(rows, b, m, n) = h[n]
    BY Zenon, <1>4, RowSumIs
  <1>6. h[k] = f[k]
    <2> DEFINE e == [v \in m .. k |-> h[v]]
    <2>1. e \in [m .. k -> Int] /\ e[m] = b /\ e[k] = h[k]
      BY <1>5 DEF IsSum
    <2>2. ASSUME NEW v \in m + 1 .. k PROVE e[v] = Wrap(e[v - 1] + Delta(rows, v))
      BY <1>5 DEF IsSum
    <2>3. IsSum(e, rows, b, m, k)
      BY Zenon, <2>1, <2>2 DEF IsSum
    <2> HIDE DEF e
    <2> QED BY <1>1, <2>1, <2>3, SumsEqual
  <1>7. h[n] = g[n]
    <2> DEFINE e == [v \in k .. n |-> h[v]]
    <2>1. e \in [k .. n -> Int] /\ e[k] = h[k] /\ e[n] = h[n]
      BY <1>5 DEF IsSum
    <2>2. ASSUME NEW v \in k + 1 .. n PROVE e[v] = Wrap(e[v - 1] + Delta(rows, v))
      BY <1>5 DEF IsSum
    <2>3. IsSum(e, rows, f[k], k, n)
      BY Zenon, <1>6, <2>1, <2>2 DEF IsSum
    <2> HIDE DEF e
    <2> QED BY <1>3, <2>1, <2>3, SumsEqual
  <1> QED BY Zenon, <1>1, <1>3, <1>5, <1>7

\* A sum of int64 values, in int64.
LEMMA RowSumRange ==
  ASSUME NEW rows, \A v \in DOMAIN rows : rows[v].delta \in Int64,
         NEW b \in Int64, NEW m \in Nat, NEW n \in Nat, m <= n
  PROVE  RowSum(rows, b, m, n) \in Int64
  <1>1. \A v : Delta(rows, v) \in Int64
    BY TxAssumption DEF Delta, Int64
  <1>2. PICK f : IsSum(f, rows, b, m, n) /\ RowSum(rows, b, m, n) = f[n]
    <2>1. b \in Int /\ \A v \in DOMAIN rows : rows[v].delta \in Int
      BY TxAssumption DEF Int64
    <2> QED BY Zenon, <2>1, RowSumIs
  <1> DEFINE T == {v \in m .. n : f[v] \in Int64}
  <1>3. m \in T
    BY <1>2 DEF IsSum
  <1>4. ASSUME NEW v \in m + 1 .. n, v - 1 \in T PROVE v \in T
    <2>1. v \in m .. n /\ f[v - 1] \in Int64 /\ f[v] = Wrap(f[v - 1] + Delta(rows, v))
      BY <1>2, <1>4 DEF IsSum
    <2> QED BY Zenon, <1>1, <2>1, WrapRange
  <1>5. m .. n \subseteq T
    <2> HIDE DEF T
    <2> QED BY Zenon, <1>3, <1>4, IntervalInduction
  <1> QED BY <1>2, <1>5

LEMMA AddDeltasIs == \A b, m, n : AddDeltas(b, m, n) = RowSum(events, b, m, n)
  BY Zenon DEF AddDeltas, RowSum, Delta

LEMMA AddDeltasInt ==
  ASSUME TypeOK, NEW b \in Int, NEW m \in Nat, NEW n \in Nat, m <= n
  PROVE  AddDeltas(b, m, n) \in Int
  <1>1. \A v \in DOMAIN events : events[v].delta \in Int
    BY Zenon DEF TypeOK, Row
  <1>2. PICK f : IsSum(f, events, b, m, n) /\ RowSum(events, b, m, n) = f[n]
    BY <1>1, RowSumIs, ZenonT(40)
  <1> QED BY <1>2, AddDeltasIs DEF IsSum
-----------------------------------------------------------------------------
(* Types and versions.                                                     *)

\* The job's INSERT is not one an actor waits for.
Marked ==
  /\ job.write.tx = NoTx
  /\ \A a \in Actors : st[a] = "writing" => cur[a].tx # NoTx

RecInv == RecTypeOK /\ RecGrounded /\ Marked

LEMMA RecInitially == RecInit => RecInv
  <1> SUFFICES ASSUME RecInit PROVE RecInv
    BY Zenon
  <1>1. TypeOK
    BY SizeAssumption DEF RecInit, Init, TypeOK, Slots, Row, NoWrite, SnapshotRow
  <1>2. Grounded
    BY Zenon, GroundedInit DEF RecInit
  <1>3. JobTypeOK
    BY DEF RecInit, NoJob, NoWrite, JobTypeOK, Row
  <1>4. job.pc = "off" /\ writes = {} /\ job.write.tx = NoTx /\ \A a \in Actors : st[a] = "absent"
    BY Zenon DEF RecInit, Init, NoJob, NoWrite
  <1> QED BY Zenon, <1>1, <1>2, <1>3, <1>4 DEF RecInv, RecTypeOK, RecGrounded, Marked

\* What the job can rely on when the actors or Cassandra take a step.
LEMMA OthersKeep ==
  ASSUME TypeOK, Marked, Next
  PROVE  /\ DOMAIN events \subseteq DOMAIN events'
         /\ \A w \in writes' : w \in writes \/ w.tx # NoTx
         /\ \A a \in Actors : st'[a] = "writing" => cur'[a].tx # NoTx
  <1> USE DEF actorVars, storeVars
  <1>1. ASSUME NEW a \in Actors, NEW tx \in Tx, HandleWrite(a, tx)
        PROVE  /\ UNCHANGED events
               /\ \A w \in writes' : w \in writes \/ w.tx # NoTx
               /\ \A b \in Actors : st'[b] = "writing" => cur'[b].tx # NoTx
    BY SMTT(40), <1>1, TxAssumption DEF HandleWrite, Marked, TypeOK
  <1>2. ASSUME NEW a \in Actors,
               \/ LoadSnapshot(a) \/ LoadEvent(a) \/ LoadDone(a) \/ LoadFailed(a)
               \/ \E tx \in Tx : HandleDuplicate(a, tx) \/ HandleReject(a, tx)
               \/ Stop(a)
        PROVE  /\ UNCHANGED <<events, writes>>
               /\ \A b \in Actors : st'[b] = "writing" => cur'[b].tx # NoTx
    BY ZenonT(40), <1>2 DEF LoadSnapshot, LoadEvent, LoadDone, LoadFailed, HandleDuplicate, HandleReject,
       Stop, vars, Marked, TypeOK
  <1>3. ASSUME NEW a \in Actors, HandleCommit(a) \/ HandleError(a) \/ Crash(a)
        PROVE  /\ UNCHANGED events /\ writes' \subseteq writes
               /\ \A b \in Actors : st'[b] = "writing" => cur'[b].tx # NoTx
    BY <1>3, ZenonT(40) DEF HandleCommit, HandleError, Crash, Abandon, Marked, TypeOK
  <1>4. ASSUME NEW w \in writes, WriteLands(w)
        PROVE  /\ DOMAIN events \subseteq DOMAIN events' /\ writes' \subseteq writes
               /\ UNCHANGED <<st, cur>>
    BY Zenon, <1>4 DEF WriteLands, Upsert
  <1>5. ASSUME NEW s \in snaps, SnapshotLands(s) \/ SnapshotLost(s)
        PROVE  UNCHANGED <<events, writes, st, cur>>
    BY Zenon, <1>5 DEF SnapshotLands, SnapshotLost
  <1> QED
    BY Zenon, <1>1, <1>2, <1>3, <1>4, <1>5 DEF Next, ActorNext, Marked

LEMMA OthersStep == ASSUME RecInv, Others \/ Served PROVE RecInv'
  <1>0. RecTypeOK /\ RecGrounded /\ Marked /\ Next
    BY Zenon DEF RecInv, Others, Served
  <1>1. TypeOK' /\ Grounded'
    BY Zenon, <1>0, TypeStep, GroundedStep DEF RecTypeOK, RecGrounded
  <1>2. /\ DOMAIN events \subseteq DOMAIN events'
        /\ \A w \in writes' : w \in writes \/ w.tx # NoTx
        /\ \A a \in Actors : st'[a] = "writing" => cur'[a].tx # NoTx
    BY Zenon, <1>0, OthersKeep DEF RecTypeOK
  <1> DEFINE q == job.pc = "off" \/ (job.quiet /\ Undisturbed)
             t == job.torn \/ PageReplaced
  <1>3. /\ q \in BOOLEAN /\ t \in BOOLEAN
        /\ job' = [job EXCEPT !.quiet = q] \/ job' = [job EXCEPT !.torn = t]
    BY Zenon, <1>0 DEF Others, Served, RecTypeOK, JobTypeOK
  <1> HIDE DEF q, t
  <1>4. job'.pc = job.pc /\ job'.version = job.version /\ job'.write = job.write
    BY Zenon, <1>0, <1>3 DEF RecTypeOK, JobTypeOK
  <1>5. \A n : Filled(n) => Filled(n)'
    BY Zenon, <1>2, FilledGrows
  <1>6. JobTypeOK'
    BY Zenon, <1>0, <1>3 DEF RecTypeOK, JobTypeOK
  <1> QED BY Zenon, <1>0, <1>1, <1>2, <1>4, <1>5, <1>6 DEF RecInv, RecTypeOK, RecGrounded, Marked

\* A job that reads, is finished or fails leaves the actors' INSERTs alone.
LEMMA JobReads ==
  ASSUME RecInv, UNCHANGED <<actorVars, events, snapshot, snaps, clock, base, acked>>,
         writes \ {job.write} \subseteq writes', writes' \subseteq writes
  PROVE  TypeOK' /\ Grounded'
  <1>1. TypeOK'
    BY Zenon DEF RecInv, RecTypeOK, TypeOK, actorVars
  <1>2. \A a \in Actors : st[a] = "writing" /\ cur[a] \in writes => cur[a] \in writes'
    BY Zenon DEF RecInv, Marked
  <1>3. CurFilled' /\ WritesFilled'
    BY Zenon, <1>2 DEF RecInv, RecGrounded, Grounded, CurFilled, WritesFilled, Filled, actorVars
  <1>4. LogFilled' /\ ActorsFilled' /\ CurDistinct' /\ SnapshotsFilled'
    BY Zenon DEF RecInv, RecGrounded, Grounded, LogFilled, ActorsFilled, CurDistinct,
       SnapshotsFilled, Filled, actorVars
  <1> QED BY Zenon, <1>1, <1>3, <1>4 DEF Grounded

\* The row of a compensation.
LEMMA CompensationTyped ==
  ASSUME TypeOK, JobTypeOK
  PROVE  /\ Compensation \in Row /\ Compensation.version > 0 /\ Compensation.tx = NoTx
         /\ Compensation.version - 1 = job.version
  <1>1. job.balance \in Int /\ job.version \in Nat /\ clock \in Nat
    BY Zenon DEF JobTypeOK, TypeOK
  <1>2. Wrap(-job.balance) \in Int
    BY <1>1, WrapInt
  <1>3. Wrap(job.balance + Wrap(-job.balance)) \in Int
    BY <1>1, <1>2, WrapInt
  <1> QED BY <1>1, <1>2, <1>3 DEF Compensation, nextVersion, Row

\* What the queries for the rows add up and where they end.
LEMMA PageRead ==
  ASSUME RecInv, ReadPage
  PROVE  \E n \in Nat, b \in Int :
           /\ n \in DOMAIN events /\ n > job.version /\ Filled(n)
           /\ b = AddDeltas(job.balance, job.version, n)
           /\ job' = [job EXCEPT !.pc = "page", !.version = n, !.balance = b]
  <1>0. /\ TypeOK /\ DOMAIN events \subseteq Nat /\ LogFilled
        /\ job.balance \in Int /\ job.version \in Nat
    BY Zenon DEF RecInv, RecTypeOK, TypeOK, JobTypeOK, RecGrounded, Grounded
  <1>1. PICK n \in DOMAIN events :
          /\ n > job.version
          /\ job' = [job EXCEPT !.pc = "page", !.version = n,
                                !.balance = AddDeltas(@, job.version, n)]
    BY Zenon DEF ReadPage
  <1>2. n \in Nat /\ job.version <= n /\ Filled(n)
    BY <1>0, <1>1 DEF LogFilled
  <1>3. AddDeltas(job.balance, job.version, n) \in Int
    BY Zenon, <1>0, <1>2, AddDeltasInt
  <1> QED BY Zenon, <1>1, <1>2, <1>3

LEMMA EventsRead ==
  ASSUME RecInv, ReadEvents
  PROVE  \E n \in Nat, b \in Int :
           /\ n \in DOMAIN events \cup {job.version} /\ IsLast(n, job.version) /\ Filled(n)
           /\ b = AddDeltas(job.balance, job.version, n)
           /\ \/ job' = NoJob
              \/ b < 0 /\ job' = [job EXCEPT !.pc = "negative", !.balance = b, !.version = n]
  <1>0. /\ TypeOK /\ DOMAIN events \subseteq Nat /\ LogFilled
        /\ job.balance \in Int /\ job.version \in Nat /\ Filled(job.version)
    BY Zenon DEF RecInv, RecTypeOK, TypeOK, JobTypeOK, RecGrounded, Grounded, ReadEvents, Reading
  <1>1. PICK n \in DOMAIN events \cup {job.version} :
          LET b == AddDeltas(job.balance, job.version, n) IN
          /\ IsLast(n, job.version)
          /\ job' = IF Discrepancy(b)
                    THEN [job EXCEPT !.pc = "negative", !.balance = b, !.version = n]
                    ELSE NoJob
    BY Zenon DEF ReadEvents
  <1>2. n \in Nat /\ Filled(n)
    BY Zenon, <1>0 DEF LogFilled
  <1>3. AddDeltas(job.balance, job.version, n) \in Int
    BY Zenon, <1>0, <1>1, <1>2, AddDeltasInt DEF IsLast
  <1> QED BY Zenon, <1>1, <1>2, <1>3 DEF Discrepancy

\* The types of the job's fields after each of its steps.
LEMMA JobTypeStep == ASSUME RecInv, JobNext PROVE JobTypeOK'
  <1>0. /\ TypeOK /\ JobTypeOK /\ job.balance \in Int /\ job.version \in Nat
        /\ job.write \in Row /\ job.quiet \in BOOLEAN /\ job.torn \in BOOLEAN /\ DOMAIN events \subseteq Nat
        /\ snapshot.balance \in Int /\ snapshot.lastVersion \in Nat
    BY Zenon DEF RecInv, RecTypeOK, JobTypeOK, TypeOK, SnapshotRow
  <1>1. ASSUME job' = NoJob PROVE JobTypeOK'
    BY <1>1 DEF NoJob, NoWrite, JobTypeOK, Row
  <1>2. CASE ReadSnapshot
    BY Zenon, <1>0, <1>2 DEF ReadSnapshot, JobTypeOK
  <1>6. CASE ReadPage
    <2>1. PICK n \in Nat, b \in Int :
            job' = [job EXCEPT !.pc = "page", !.version = n, !.balance = b]
      BY Zenon, <1>6, PageRead
    <2> QED BY Zenon, <1>0, <2>1 DEF JobTypeOK
  <1>3. CASE ReadEvents
    <2>1. PICK n \in Nat, b \in Int :
            \/ job' = NoJob
            \/ b < 0 /\ job' = [job EXCEPT !.pc = "negative", !.balance = b, !.version = n]
      BY Zenon, <1>3, EventsRead
    <2> QED BY Zenon, <1>0, <1>1, <2>1 DEF JobTypeOK
  <1>4. CASE QueryMaxVersion
    <2>1. PICK max \in DOMAIN events \cup {0} : job' = [job EXCEPT !.pc = "insert", !.version = max]
      BY Zenon, <1>4 DEF QueryMaxVersion
    <2>2. max \in Nat /\ job.pc = "negative"
      BY <1>0, <1>4 DEF QueryMaxVersion
    <2> QED BY Zenon, <1>0, <2>1, <2>2 DEF JobTypeOK
  <1>5. CASE InsertCompensation
    <2>1. Compensation \in Row
      BY Zenon, <1>0, <1>5, CompensationTyped DEF InsertCompensation
    <2> QED BY <1>0, <1>5, <2>1, ZenonT(40) DEF InsertCompensation, JobTypeOK
  <1> QED BY Zenon, <1>1, <1>2, <1>3, <1>4, <1>5, <1>6 DEF JobNext, ReaderNext, Compensated, JobFails

LEMMA JobStep == ASSUME RecInv, JobNext PROVE RecInv'
  <1> USE DEF NoJob
  <1> USE DEF RecTypeOK
  <1>8. JobTypeOK /\ JobTypeOK'
    BY Zenon, JobTypeStep DEF RecInv
  <1>0. NoWrite.tx = NoTx /\ NoWrite.version = 0 /\ \A w \in writes : w.version > 0
    BY Zenon DEF NoWrite, RecInv, TypeOK
  <1>1. ASSUME UNCHANGED vars
        PROVE  /\ TypeOK' /\ Grounded' /\ UNCHANGED <<writes, events>>
               /\ \A a \in Actors : st'[a] = "writing" => cur'[a].tx # NoTx
    BY Zenon, <1>1, JobReads DEF vars, actorVars, storeVars, RecInv, Marked
  <1>2. CASE ReadSnapshot
    <2>1. /\ job'.version = snapshot.lastVersion /\ job'.write = job.write /\ UNCHANGED vars
          /\ Filled(snapshot.lastVersion)
      BY Zenon, <1>2 DEF ReadSnapshot, JobTypeOK, RecInv, RecGrounded, Grounded, SnapshotsFilled
    <2> QED BY Zenon, <1>8, <1>1, <2>1 DEF RecInv, RecGrounded, Marked, Filled
  <1>9. CASE ReadPage
    <2>1. PICK n \in Nat, b \in Int :
            /\ Filled(n) /\ job' = [job EXCEPT !.pc = "page", !.version = n, !.balance = b]
      BY Zenon, <1>9, PageRead
    <2>2. job'.version = n /\ job'.write = job.write /\ UNCHANGED vars
      BY Zenon, <1>8, <1>9, <2>1 DEF JobTypeOK, ReadPage
    <2> QED BY Zenon, <1>8, <1>1, <2>1, <2>2 DEF RecInv, RecGrounded, Marked, Filled
  <1>3. CASE ReadEvents
    <2>1. PICK n \in Nat, b \in Int :
            /\ Filled(n)
            /\ \/ job' = NoJob
               \/ job' = [job EXCEPT !.pc = "negative", !.balance = b, !.version = n]
      BY Zenon, <1>3, EventsRead
    <2>2. UNCHANGED vars
      BY Zenon, <1>3 DEF ReadEvents
    <2>3. CASE job' = NoJob
      BY <1>8, <1>0, <1>1, <2>2, <2>3 DEF RecInv, RecGrounded, Marked, Filled
    <2>4. CASE job' = [job EXCEPT !.pc = "negative", !.balance = b, !.version = n]
      <3>1. job'.version = n /\ job'.write = job.write
        BY Zenon, <1>8, <2>4 DEF JobTypeOK
      <3> QED BY Zenon, <1>8, <1>1, <2>1, <2>2, <3>1 DEF RecInv, RecGrounded, Marked, Filled
    <2> QED BY Zenon, <2>1, <2>3, <2>4
  <1>4. CASE QueryMaxVersion
    <2>1. /\ UNCHANGED vars /\ job'.version \in DOMAIN events \cup {0}
          /\ job'.write = job.write
      BY <1>4 DEF QueryMaxVersion, JobTypeOK
    <2>2. Filled(job'.version)
      BY <2>1 DEF RecInv, RecGrounded, Grounded, LogFilled, Filled
    <2> QED BY Zenon, <1>8, <1>1, <2>1, <2>2 DEF RecInv, RecGrounded, Marked, Filled
  <1>5. CASE Compensated
    <2>1. job' = NoJob /\ UNCHANGED vars
      BY Zenon, <1>5 DEF Compensated
    <2> QED BY <1>8, <1>0, <1>1, <2>1 DEF RecInv, RecGrounded, Marked, Filled
  <1>6. CASE JobFails
    <2>1. TypeOK' /\ Grounded'
      BY Zenon, <1>6, JobReads DEF JobFails
    <2>2. job' = NoJob /\ writes' \subseteq writes /\ UNCHANGED <<st, cur>>
      BY Zenon, <1>6 DEF JobFails, actorVars
    <2> QED BY <1>8, <1>0, <2>1, <2>2 DEF RecInv, RecGrounded, Marked
  <1>7. CASE InsertCompensation
    <2>1. /\ job'.pc = "writing" /\ job'.version = job.version /\ job'.write = Compensation
          /\ writes' = writes \cup {Compensation} /\ clock' = clock + 1
          /\ UNCHANGED <<actorVars, events, snapshot, snaps, base, acked>>
          /\ Filled(job.version)
      BY Zenon, <1>7 DEF InsertCompensation, RecInv, RecGrounded, JobTypeOK, Marked
    <2>3. /\ Compensation \in Row /\ Compensation.version > 0 /\ Compensation.tx = NoTx
          /\ Compensation.version - 1 = job.version
      BY Zenon, CompensationTyped DEF RecInv
    <2>4. TypeOK'
      BY <2>1, <2>3 DEF RecInv, TypeOK, actorVars
    <2>5. WritesFilled' /\ CurFilled'
      BY Zenon, <2>1, <2>3 DEF RecInv, RecGrounded, Grounded, WritesFilled, CurFilled, Filled, actorVars
    <2>6. CurDistinct'
      BY SMTT(40), <2>1 DEF RecInv, RecGrounded, Grounded, CurDistinct, TypeOK, Row, actorVars
    <2>7. LogFilled' /\ ActorsFilled' /\ SnapshotsFilled'
      BY Zenon, <2>1 DEF RecInv, RecGrounded, Grounded, LogFilled, ActorsFilled, SnapshotsFilled,
         Filled, actorVars
    <2> QED BY Zenon, <1>8, <2>1, <2>3, <2>4, <2>5, <2>6, <2>7
            DEF RecInv, RecGrounded, Grounded, Marked, Filled, actorVars
  <1> QED BY Zenon, <1>2, <1>3, <1>4, <1>5, <1>6, <1>7, <1>9 DEF JobNext, ReaderNext

LEMMA RecStep == RecInv /\ [RecNext]_recVars => RecInv'
  <1> SUFFICES ASSUME RecInv, [RecNext]_recVars PROVE RecInv'
    BY Zenon
  <1>1. CASE UNCHANGED recVars
    BY Zenon, <1>1 DEF recVars, vars, actorVars, storeVars, RecInv, RecTypeOK, JobTypeOK, RecGrounded, Marked, TypeOK,
       Grounded, LogFilled, ActorsFilled, WritesFilled, CurFilled, CurDistinct,
       SnapshotsFilled, Filled
  <1> QED BY Zenon, <1>1, OthersStep, JobStep DEF RecNext

\* The types of the tables, the actors and the job; a sum of int64 deltas is an
\* integer however many rows it has, and what is compensated is a deficit.
THEOREM RecTypeCorrect == RecSpec => []RecTypeOK
  <1>1. RecInv => RecTypeOK
    BY Zenon DEF RecInv
  <1> QED BY <1>1, RecInitially, RecStep, PTL DEF RecSpec

\* With the job's blind INSERTs among the actors', every version below one that
\* is read, written or snapshotted is filled, although the job numbers its row
\* by a maximum that may be out of date.
THEOREM AlwaysRecGrounded == RecSpec => []RecGrounded
  <1>1. RecInv => RecGrounded
    BY Zenon DEF RecInv
  <1> QED BY <1>1, RecInitially, RecStep, PTL DEF RecSpec

\* Nor does a compensation make rehydrate's version gap error reachable.
THEOREM CompensationLeavesNoGap == RecSpec => []NoVersionGap
  <1>1. RecInv => NoVersionGap
    BY Zenon, NoGap DEF RecInv, RecTypeOK, RecGrounded
  <1> QED BY <1>1, RecInitially, RecStep, PTL DEF RecSpec
-----------------------------------------------------------------------------
(* Readers of a wallet that has one actor at a time.                       *)

\* In a ledger, the sums of the job and of the reference are the balances that
\* the rows' writer computed.
LEMMA SumsAreBalances ==
  ASSUME TypeOK, RowsChained, NEW m \in Nat, NEW n \in Nat, m <= n, Filled(n)
  PROVE  AddDeltas(After(m), m, n) = After(n) /\ LogSum(n) = After(n)
  <1>0. ASSUME NEW v \in 1 .. n
        PROVE  /\ v \in DOMAIN events /\ events[v].delta \in Int /\ After(v) \in 0 .. MaxInt64
               /\ After(v) = After(v - 1) + events[v].delta /\ After(v) = Wrap(After(v))
    <2>1. v \in DOMAIN events /\ v # 0
      BY DEF Filled
    <2>2. events[v].delta \in Int /\ After(v) = events[v].after
      BY Zenon, <2>1 DEF TypeOK, Row, After
    <2>3. events[v].after = After(v - 1) + events[v].delta /\ events[v].after \in 0 .. MaxInt64
      BY Zenon, <2>1 DEF RowsChained
    <2> QED BY <2>1, <2>2, <2>3, TxAssumption DEF Wrap
  <1>1. After(0) = 0 /\ After(m) \in Int
    BY <1>0 DEF After
  <1>2. AddDeltas(After(m), m, n) = After(n)
    <2>1. \A v \in DOMAIN events : events[v].delta \in Int
      BY Zenon DEF TypeOK, Row
    <2>2. PICK f : IsSum(f, events, After(m), m, n) /\ RowSum(events, After(m), m, n) = f[n]
      BY Zenon, <1>1, <2>1, RowSumIs
    <2> DEFINE T == {v \in m .. n : f[v] = After(v)}
    <2>3. m \in T
      BY <2>2 DEF IsSum
    <2>4. ASSUME NEW v \in m + 1 .. n, v - 1 \in T PROVE v \in T
      <3>1. v \in 1 .. n /\ v \in m .. n
        OBVIOUS
      <3>2. f[v] = Wrap(After(v - 1) + events[v].delta)
        BY Zenon, <1>0, <2>2, <2>4, <3>1 DEF IsSum, Delta
      <3>3. f[v] = After(v)
        BY Zenon, <1>0, <3>1, <3>2
      <3> QED BY Zenon, <3>1, <3>3
    <2>5. m .. n \subseteq T
      <3> HIDE DEF T
      <3> QED BY Zenon, <2>3, <2>4, IntervalInduction
    <2>6. f[n] = After(n)
      BY <2>5
    <2> QED BY Zenon, <2>2, <2>6, AddDeltasIs
  <1>3. LogSum(n) = After(n)
    <2> DEFINE Is(f) == f = [v \in 0 .. n |-> IF v = 0 THEN 0 ELSE f[v - 1] + events[v].delta]
               g == [v \in 0 .. n |-> After(v)]
    <2>1. Is(g)
      <3>1. ASSUME NEW v \in 0 .. n
            PROVE  After(v) = IF v = 0 THEN 0 ELSE g[v - 1] + events[v].delta
        <4>1. CASE v # 0
          <5>1. v \in 1 .. n /\ g[v - 1] = After(v - 1)
            BY <4>1
          <5> QED BY Zenon, <1>0, <4>1, <5>1
        <4> QED BY Zenon, <1>1, <4>1
      <3> QED BY Zenon, <3>1
    <2> DEFINE f == CHOOSE h : Is(h)
    <2>2. Is(f)
      BY Zenon, <2>1
    <2>3. LogSum(n) = f[n]
      BY Zenon DEF LogSum
    <2> HIDE DEF f, g
    <2> DEFINE T == {v \in 0 .. n : f[v] = After(v)}
    <2>4. 0 \in T
      BY <1>1, <2>2
    <2>5. ASSUME NEW v \in 0 + 1 .. n, v - 1 \in T PROVE v \in T
      <3>1. v \in 1 .. n /\ v \in 0 .. n /\ v # 0
        OBVIOUS
      <3>2. f[v] = After(v - 1) + events[v].delta
        BY Zenon, <2>2, <2>5, <3>1
      <3>3. f[v] = After(v)
        BY Zenon, <1>0, <3>1, <3>2
      <3> QED BY Zenon, <3>1, <3>3
    <2>6. 0 .. n \subseteq T
      <3> HIDE DEF T
      <3> QED BY Zenon, <2>4, <2>5, IntervalInduction
    <2>7. f[n] = After(n)
      BY <2>6
    <2> QED BY Zenon, <2>3, <2>7
  <1> QED BY Zenon, <1>2, <1>3

\* A reader that is not torn holds a balance of the ledger.  Before its first
\* page no live actor is behind the snapshot it has read: what an actor still
\* overwrites, the row of an INSERT that was reported as failed, comes later.
Reader ==
  /\ Reading \/ job.pc = "off" \/ (job.pc = "negative" /\ job.torn)
  /\ job.write = NoWrite
  /\ Reading /\ ~job.torn => job.balance = After(job.version)
  /\ job.pc = "snap" => \A a \in Actors : Live(a) => job.version <= version[a]

\* What every such reader has added up at a row is the ledger's balance there.
LEMMA ReadsLedger ==
  ASSUME RecInv, Ledger, Reader, Reading, ~job.torn,
         NEW n \in Nat, job.version <= n, Filled(n)
  PROVE  /\ AddDeltas(job.balance, job.version, n) = After(n)
         /\ LogSum(n) = After(n) /\ After(n) \in 0 .. MaxInt64
  <1>1. TypeOK /\ RowsChained /\ job.version \in Nat
    BY Zenon DEF RecInv, RecTypeOK, JobTypeOK, Ledger, LedgerConsistent
  <1>2. AddDeltas(After(job.version), job.version, n) = After(n) /\ LogSum(n) = After(n)
    BY Zenon, <1>1, SumsAreBalances
  <1>3. After(n) \in 0 .. MaxInt64
    BY Zenon, <1>1, AfterTyped
  <1> QED BY Zenon, <1>2, <1>3 DEF Reader

\* A step of the actors or of Cassandra under a reader.
LEMMA ReaderUndisturbed ==
  ASSUME SingleWriter, RecInv, Ledger, Reader, Served PROVE Reader'
  <1>0. /\ TypeOK /\ TypeOK' /\ Grounded /\ Next /\ job.torn \in BOOLEAN
        /\ job'.pc = job.pc /\ job'.balance = job.balance
        /\ job'.version = job.version /\ job'.write = job.write
        /\ job'.torn <=> job.torn \/ PageReplaced
    BY Zenon, OthersStep DEF RecInv, RecTypeOK, RecGrounded, Served, JobTypeOK
  <1>9. CASE job.pc # "snap"
    <2>1. job.pc = "page" /\ ~job'.torn => ~job.torn /\ events'[job.version] = events[job.version]
      BY Zenon, <1>0 DEF PageReplaced
    <2> QED BY Zenon, <1>0, <1>9, <2>1 DEF Reader, Reading, After
  <1> SUFFICES ASSUME job.pc = "snap"
               PROVE  /\ After(job.version)' = After(job.version)
                      /\ \A a \in Actors : Live(a)' => job.version <= version'[a]
    BY Zenon, <1>0, <1>9 DEF Reader, Reading, After
  <1>1. job.version \in Nat /\ Filled(job.version)
    BY Zenon DEF RecInv, RecTypeOK, JobTypeOK, RecGrounded
  <1>2. ASSUME NEW w \in writes, WriteLands(w)
        PROVE  /\ After(job.version)' = After(job.version)
               /\ UNCHANGED <<st, version>>
    <2>1. PICK a \in Actors :
            /\ st[a] = "writing" /\ w.version = version[a] + 1
            /\ \A v \in DOMAIN events : v # w.version => events'[v] = events[v]
      BY <1>0, <1>2, LandingReplaces, ZenonT(40)
    <2>2. job.version <= version[a] /\ version[a] \in Nat
      BY Zenon, <1>0, <2>1 DEF Reader, Live, TypeOK
    <2>3. job.version # 0 => job.version \in DOMAIN events
      BY <1>1 DEF Filled
    <2>4. After(job.version)' = After(job.version)
      BY <1>0, <1>1, <2>1, <2>2, <2>3 DEF After
    <2> QED BY Zenon, <1>2, <2>4 DEF WriteLands, actorVars
  <1>3. ASSUME NEW a \in Actors, ActorNext(a)
        PROVE  /\ UNCHANGED events
               /\ \A b \in Actors : Live(b)' => job.version <= version'[b]
    <2> USE DEF actorVars, storeVars, Live
    <2>1. CASE LoadDone(a)
      <3>1. \A v \in DOMAIN events : v <= version[a]
        BY SMTT(40), <1>0, <2>1 DEF LoadDone, RowsAhead, TypeOK
      <3>2. job.version <= version[a]
        <4>1. version[a] \in Nat
          BY Zenon, <1>0 DEF TypeOK
        <4>2. job.version # 0 => job.version \in DOMAIN events
          BY <1>1 DEF Filled
        <4> QED BY <1>1, <3>1, <4>1, <4>2
      <3> QED BY Zenon, <1>0, <2>1, <3>2 DEF LoadDone, Reader, TypeOK
    <2>2. CASE HandleCommit(a)
      <3>1. /\ UNCHANGED events /\ version' = [version EXCEPT ![a] = cur[a].version]
            /\ st[a] = "writing" /\ st' = [st EXCEPT ![a] = "idle"]
            /\ cur[a].version = version[a] + 1
        BY Zenon, <1>0, <2>2 DEF HandleCommit, Grounded, CurFilled
      <3>2. job.version <= version[a] + 1
        BY SMTT(40), <1>0, <1>1, <3>1 DEF Reader, TypeOK
      <3> QED BY Zenon, <1>0, <3>1, <3>2 DEF Reader, TypeOK
    <2>3. CASE LoadSnapshot(a) \/ LoadEvent(a) \/ LoadFailed(a) \/ Stop(a) \/ Crash(a)
      <3>1. UNCHANGED events /\ ~Live(a)'
        BY Zenon, <1>0, <2>3 DEF LoadSnapshot, LoadEvent, LoadFailed, Stop, Crash, TypeOK
      <3>2. \A b \in Actors \ {a} : st'[b] = st[b] /\ version'[b] = version[b]
        BY Zenon, <1>0, <2>3 DEF LoadSnapshot, LoadEvent, LoadFailed, Stop, Crash, TypeOK
      <3> QED BY Zenon, <3>1, <3>2 DEF Reader
    <2>4. CASE HandleError(a)
      BY Zenon, <1>0, <2>4 DEF HandleError, OnError, Reader, TypeOK
    <2>5. CASE \E tx \in Tx : HandleDuplicate(a, tx) \/ HandleReject(a, tx) \/ HandleWrite(a, tx)
      <3>1. UNCHANGED <<events, version>>
        BY Zenon, <2>5 DEF HandleDuplicate, HandleReject, HandleWrite, vars
      <3>2. \A b \in Actors : Live(b)' => Live(b)
        BY Zenon, <1>0, <2>5 DEF HandleDuplicate, HandleReject, HandleWrite, vars, TypeOK
      <3> QED BY Zenon, <3>1, <3>2 DEF Reader
    <2> QED BY Zenon, <1>3, <2>1, <2>2, <2>3, <2>4, <2>5 DEF ActorNext
  <1>4. ASSUME NEW s \in snaps, SnapshotLands(s) \/ SnapshotLost(s)
        PROVE  UNCHANGED <<events, st, version>>
    BY Zenon, <1>4 DEF SnapshotLands, SnapshotLost, actorVars
  <1>5. CASE UNCHANGED events
    BY Zenon, <1>0, <1>2, <1>3, <1>4, <1>5 DEF Next, After, Reader, Live
  <1>6. CASE events' # events
    <2>1. PICK w \in writes : WriteLands(w)
      BY Zenon, <1>0, <1>3, <1>4, <1>6 DEF Next
    <2> QED BY Zenon, <1>2, <2>1 DEF Reader, Live
  <1> QED BY Zenon, <1>5, <1>6

\* The reader's own steps.
LEMMA ReaderStep ==
  ASSUME SingleWriter, RecInv, Ledger, Reader, ReaderNext PROVE Reader' /\ UNCHANGED vars
  <1>0. /\ TypeOK /\ JobTypeOK /\ job.write = NoWrite /\ NoWrite \notin writes
    BY SMTT(40) DEF RecInv, RecTypeOK, Reader, TypeOK, NoWrite
  <1>1. ASSUME job' = NoJob PROVE Reader'
    BY Zenon, <1>1 DEF NoJob, Reader, Reading
  <1>2. CASE ReadSnapshot
    <2>1. /\ job'.pc = "snap" /\ job'.balance = snapshot.balance
          /\ job'.version = snapshot.lastVersion /\ job'.write = NoWrite /\ UNCHANGED vars
      BY Zenon, <1>0, <1>2 DEF ReadSnapshot, JobTypeOK
    <2>2. /\ snapshot.balance = After(snapshot.lastVersion)
          /\ \A a \in Actors : Live(a) => snapshot.lastVersion <= version[a]
      BY Zenon DEF Ledger, LedgerConsistent, SnapshotsChained, ActorOnTop
    <2>3. UNCHANGED <<events, st, version, snapshot>>
      BY Zenon, <2>1 DEF vars, actorVars, storeVars
    <2> QED BY Zenon, <2>1, <2>2, <2>3 DEF Reader, Reading, After, Live
  <1>3. CASE ReadPage
    <2>1. PICK n \in Nat, b \in Int :
            /\ n > job.version /\ Filled(n) /\ b = AddDeltas(job.balance, job.version, n)
            /\ job' = [job EXCEPT !.pc = "page", !.version = n, !.balance = b]
      BY Zenon, <1>3, PageRead
    <2>2. /\ job'.pc = "page" /\ job'.balance = b /\ job'.version = n /\ job'.write = NoWrite
          /\ job'.torn = job.torn /\ UNCHANGED vars /\ Reading
      BY Zenon, <1>0, <1>3, <2>1 DEF ReadPage, JobTypeOK
    <2>3. job.version <= n
      BY <1>0, <2>1 DEF JobTypeOK
    <2>4. ~job.torn => b = After(n)
      BY Zenon, <2>1, <2>2, <2>3, ReadsLedger
    <2>5. After(n)' = After(n)
      BY Zenon, <2>2 DEF After, vars, storeVars
    <2> QED BY Zenon, <2>2, <2>4, <2>5 DEF Reader, Reading, After
  <1>4. CASE ReadEvents
    <2>1. PICK n \in Nat, b \in Int :
            /\ IsLast(n, job.version) /\ Filled(n) /\ b = AddDeltas(job.balance, job.version, n)
            /\ \/ job' = NoJob
               \/ b < 0 /\ job' = [job EXCEPT !.pc = "negative", !.balance = b, !.version = n]
      BY Zenon, <1>4, EventsRead
    <2>2. job.version <= n /\ UNCHANGED vars /\ Reading
      BY Zenon, <1>4, <2>1 DEF IsLast, ReadEvents
    <2>3. ~job.torn => b \in 0 .. MaxInt64
      BY Zenon, <2>1, <2>2, ReadsLedger
    <2>4. job' # NoJob => job.torn
      BY <2>1, <2>3, TxAssumption
    <2>5. CASE job' # NoJob
      <3>1. job'.pc = "negative" /\ job'.torn = job.torn /\ job'.write = NoWrite
        BY Zenon, <1>0, <2>1, <2>5 DEF JobTypeOK
      <3> QED BY Zenon, <2>2, <2>4, <2>5, <3>1 DEF Reader, Reading
    <2> QED BY Zenon, <1>1, <2>2, <2>5
  <1>5. CASE JobFails
    <2>1. writes' = writes
      BY Zenon, <1>0, <1>5 DEF JobFails
    <2> QED BY Zenon, <1>1, <1>5, <2>1 DEF JobFails, vars, storeVars
  <1> QED BY Zenon, <1>2, <1>3, <1>4, <1>5 DEF ReaderNext

\* A balance that is read while the one actor, its snapshots and its successors
\* go on is the sum of exactly the rows up to the version returned with it, and
\* not negative, unless the last row of a page was that of an INSERT reported as
\* failed and was replaced before the next page was read.
THEOREM ReadsAreConsistent == ASSUME SingleWriter PROVE ReaderSpec => []ReadsConsistent
  <1> DEFINE Inv == RecInv /\ Ledger /\ Reader
  <1>1. RecInit => Inv
    BY RecInitially, LedgerInit DEF RecInit, NoJob, Reader, Reading
  <1>2. Inv /\ [ReaderNext \/ Served]_recVars => Inv'
    <2> SUFFICES ASSUME Inv, [ReaderNext \/ Served]_recVars PROVE Inv'
      BY Zenon
    <2>1. CASE Served
      BY Zenon, <2>1, OthersStep, ReaderUndisturbed, LedgerStep
         DEF Served, RecInv, RecTypeOK, RecGrounded
    <2>2. CASE ReaderNext
      BY Zenon, <2>2, JobStep, ReaderStep, LedgerStep DEF JobNext, RecInv, RecTypeOK, RecGrounded
    <2>3. CASE UNCHANGED recVars
      <3>1. Reader' /\ UNCHANGED vars
        BY Zenon, <2>3 DEF recVars, vars, actorVars, storeVars, Reader, Reading, After, Live
      <3>2. RecInv'
        BY Zenon, <2>3, RecStep
      <3> QED BY Zenon, <3>1, <3>2, LedgerStep DEF RecInv, RecTypeOK, RecGrounded
    <2> QED BY Zenon, <2>1, <2>2, <2>3
  <1>3. Inv => ReadsConsistent
    <2> SUFFICES ASSUME Inv PROVE ReadsConsistent
      BY Zenon
    <2>1. job.pc = "negative" => job.torn
      BY Zenon DEF Reader, Reading
    <2>2. ASSUME Reading, ~job.torn, NEW n \in DOMAIN events \cup {job.version},
                 IsLast(n, job.version)
          PROVE  AddDeltas(job.balance, job.version, n) = LogSum(n)
      <3>1. n \in Nat /\ job.version <= n /\ Filled(n)
        BY Zenon, <2>2 DEF RecInv, RecTypeOK, JobTypeOK, TypeOK, RecGrounded, Grounded, LogFilled,
           IsLast, Reading
      <3> QED BY Zenon, <2>2, <3>1, ReadsLedger
    <2> QED BY Zenon, <2>1, <2>2 DEF ReadsConsistent
  <1> HIDE DEF Inv
  <1> QED BY <1>1, <1>2, <1>3, PTL DEF ReaderSpec
-----------------------------------------------------------------------------
(* What a compensation does to the balance.                                *)

\* Every number a party has read, or computed with one addition, is an int64.
InRange ==
  /\ \A v \in DOMAIN events : events[v].delta \in Int64
  /\ \A w \in writes : w.delta \in Int64
  /\ snapshot.balance \in Int64
  /\ \A s \in snaps : s.balance \in Int64
  /\ \A a \in Actors : balance[a] \in Int64 /\ (st[a] = "writing" => cur[a].after \in Int64)
  /\ job.balance \in Int64

\* The sum of the rows after the snapshot up to version n.
SumTo(n) == RowSum(events, snapshot.balance, snapshot.lastVersion, n)

\* What the job knows while nobody else changes the tables: the balance up to the
\* row it has come to; then that this is the last row; then that nothing but its INSERT can
\* be at the version after it, and is there once it has left for the table.
Knows ==
  /\ job.pc # "writing" => job.write = NoWrite
  /\ job.quiet =>
       /\ job.pc # "off" => job.version >= snapshot.lastVersion /\ job.balance = SumTo(job.version)
       /\ job.pc \in {"negative", "insert"} => IsLast(job.version, snapshot.lastVersion)
       /\ job.pc = "writing" =>
            /\ job.write.version = job.version + 1 /\ job.write.delta = Wrap(-job.balance)
            /\ job.version + 1 \in DOMAIN events => events[job.version + 1] = job.write
            /\ job.write \notin writes => job.version + 1 \in DOMAIN events

LEMMA InRangeOthers == ASSUME RecInv, InRange, Others PROVE InRange'
  <1> USE DEF actorVars, storeVars
  <1>0. TypeOK /\ Next /\ job'.balance = job.balance /\ 0 \in Int64
    BY TxAssumption DEF RecInv, RecTypeOK, JobTypeOK, Others, Int64
  <1>1. ASSUME NEW a \in Actors, LoadSnapshot(a) \/ LoadDone(a) \/ LoadFailed(a) \/ Stop(a)
        PROVE  InRange'
    BY ZenonT(40), <1>0, <1>1 DEF LoadSnapshot, LoadDone, LoadFailed, Stop, InRange, TypeOK
  <1>2. ASSUME NEW a \in Actors, LoadEvent(a) PROVE InRange'
    <2>1. /\ balance' = [balance EXCEPT ![a] = Wrap(@ + events[version[a] + 1].delta)]
          /\ version[a] + 1 \in DOMAIN events /\ UNCHANGED <<st, cur, storeVars>>
      BY Zenon, <1>2 DEF LoadEvent, RowsAhead
    <2>2. Wrap(balance[a] + events[version[a] + 1].delta) \in Int64
      BY Zenon, <2>1, WrapRange DEF InRange
    <2> QED BY Zenon, <1>0, <2>1, <2>2 DEF InRange, TypeOK
  <1>3. ASSUME NEW a \in Actors, NEW tx \in Tx, HandleWrite(a, tx) PROVE InRange'
    <2>1. Amount[tx] \in Int64 /\ Wrap(balance[a] + Amount[tx]) \in Int64
      BY Zenon, TxAssumption, WrapRange DEF InRange, Int64
    <2> DEFINE w == [version |-> newVersion(a), tx |-> tx, delta |-> Amount[tx],
                     after |-> Wrap(balance[a] + Amount[tx]), ts |-> clock + 1]
    <2>2. w.delta \in Int64 /\ w.after \in Int64
      BY Zenon, <2>1
    <2>3. /\ cur' = [cur EXCEPT ![a] = w] /\ writes' = writes \cup {w}
          /\ st' = [st EXCEPT ![a] = "writing"] /\ UNCHANGED <<balance, events, snapshot, snaps>>
      BY Zenon, <1>3 DEF HandleWrite
    <2> HIDE DEF w
    <2>4. \A b \in Actors : st'[b] = "writing" => cur'[b].after \in Int64
      BY Zenon, <1>0, <2>2, <2>3 DEF InRange, TypeOK
    <2>5. \A v \in writes' : v.delta \in Int64
      BY Zenon, <2>2, <2>3 DEF InRange
    <2> QED BY Zenon, <1>0, <2>3, <2>4, <2>5 DEF InRange
  <1>4. ASSUME NEW a \in Actors, HandleCommit(a) PROVE InRange'
    <2>1. /\ st[a] = "writing" /\ st' = [st EXCEPT ![a] = "idle"]
          /\ balance' = [balance EXCEPT ![a] = cur[a].after]
          /\ cur' = [cur EXCEPT ![a] = NoWrite] /\ UNCHANGED <<events, snapshot, writes>>
      BY Zenon, <1>4 DEF HandleCommit
    <2>2. cur[a].after \in Int64
      BY Zenon, <2>1 DEF InRange
    <2>3. \A s \in snaps' : s \in snaps \/ s.balance = cur[a].after
      <3>1. snaps' = snaps \/ takeSnapshotAsync(a)
        BY Zenon, <1>4 DEF HandleCommit
      <3> QED BY <3>1 DEF takeSnapshotAsync
    <2>4. \A b \in Actors :
            balance'[b] \in Int64 /\ (st'[b] = "writing" => cur'[b].after \in Int64)
      BY Zenon, <1>0, <2>1, <2>2 DEF InRange, TypeOK
    <2>5. \A s \in snaps' : s.balance \in Int64
      BY Zenon, <2>2, <2>3 DEF InRange
    <2> QED BY Zenon, <1>0, <2>1, <2>4, <2>5 DEF InRange
  <1>5. ASSUME NEW a \in Actors, HandleError(a) \/ Crash(a) PROVE InRange'
    BY ZenonT(40), <1>0, <1>5 DEF HandleError, Crash, OnError, Abandon, InRange, TypeOK
  <1>6. ASSUME NEW a \in Actors, NEW tx \in Tx, HandleDuplicate(a, tx) \/ HandleReject(a, tx)
        PROVE  InRange'
    BY Zenon, <1>0, <1>6 DEF HandleDuplicate, HandleReject, vars, InRange
  <1>7. ASSUME NEW w \in writes, WriteLands(w) PROVE InRange'
    BY Zenon, <1>0, <1>7 DEF WriteLands, Upsert, InRange
  <1>8. ASSUME NEW s \in snaps, SnapshotLands(s) \/ SnapshotLost(s) PROVE InRange'
    <2>1. UNCHANGED <<balance, st, cur, events, writes>>
      BY Zenon, <1>8 DEF SnapshotLands, SnapshotLost, actorVars
    <2>2. \A z \in snaps' : z \in snaps
      BY Zenon, <1>8 DEF SnapshotLands, SnapshotLost
    <2>3. snapshot'.balance = snapshot.balance \/ snapshot'.balance = s.balance
      BY SMT, <1>8 DEF SnapshotLands, SnapshotLost
    <2> QED BY Zenon, <1>0, <2>1, <2>2, <2>3 DEF InRange
  <1> QED BY Zenon, <1>0, <1>1, <1>2, <1>3, <1>4, <1>5, <1>6, <1>7, <1>8 DEF Next, ActorNext

LEMMA InRangeJob == ASSUME RecInv, InRange, JobNext PROVE InRange'
  <1> USE DEF actorVars, storeVars
  <1>0. TypeOK /\ JobTypeOK /\ 0 \in Int64
    BY TxAssumption DEF RecInv, RecTypeOK, Int64
  <1>1. ASSUME job'.balance \in Int64, UNCHANGED <<actorVars, events, snapshot, snaps>>,
               \A w \in writes' : w \in writes \/ w.delta \in Int64
        PROVE  InRange'
    BY Zenon, <1>1 DEF InRange
  <1>2. CASE ReadSnapshot
    BY Zenon, <1>0, <1>1, <1>2 DEF ReadSnapshot, vars, JobTypeOK, InRange
  <1>7. ASSUME NEW n \in Nat, job.version <= n
        PROVE  AddDeltas(job.balance, job.version, n) \in Int64
    <2>1. job.version \in Nat
      BY Zenon, <1>0 DEF JobTypeOK
    <2> QED BY Zenon, <1>7, <2>1, AddDeltasIs, RowSumRange DEF InRange
  <1>8. CASE ReadPage
    <2>1. PICK n \in Nat, b \in Int :
            /\ n > job.version /\ b = AddDeltas(job.balance, job.version, n)
            /\ job' = [job EXCEPT !.pc = "page", !.version = n, !.balance = b]
      BY Zenon, <1>8, PageRead
    <2>2. job.version <= n
      BY <1>0, <2>1 DEF JobTypeOK
    <2>3. job'.balance \in Int64
      BY Zenon, <1>0, <1>7, <2>1, <2>2 DEF JobTypeOK
    <2> QED BY Zenon, <1>1, <1>8, <2>3 DEF ReadPage, vars
  <1>3. CASE ReadEvents
    <2>1. PICK n \in Nat, b \in Int :
            /\ IsLast(n, job.version) /\ b = AddDeltas(job.balance, job.version, n)
            /\ \/ job' = NoJob
               \/ job' = [job EXCEPT !.pc = "negative", !.balance = b, !.version = n]
      BY Zenon, <1>3, EventsRead
    <2>2. job.version <= n
      BY Zenon, <2>1 DEF IsLast
    <2>3. b \in Int64 /\ (job'.balance = 0 \/ job'.balance = b)
      <3>1. b \in Int64
        BY Zenon, <1>7, <2>1, <2>2
      <3>2. ASSUME job' = NoJob PROVE job'.balance = 0
        BY Zenon, <3>2 DEF NoJob
      <3>3. job' = [job EXCEPT !.pc = "negative", !.balance = b, !.version = n]
              => job'.balance = b
        BY Zenon, <1>0 DEF JobTypeOK
      <3> QED BY Zenon, <2>1, <3>1, <3>2, <3>3
    <2> QED BY Zenon, <1>0, <1>1, <1>3, <2>3 DEF ReadEvents, vars
  <1>4. CASE QueryMaxVersion
    BY Zenon, <1>0, <1>1, <1>4 DEF QueryMaxVersion, vars, JobTypeOK, InRange
  <1>5. CASE InsertCompensation
    <2>1. Wrap(-job.balance) \in Int64
      BY TxAssumption DEF InRange, Wrap, Int64
    <2>2. Compensation.delta \in Int64
      BY Zenon, <2>1 DEF Compensation
    <2>3. /\ job'.balance = job.balance /\ writes' = writes \cup {Compensation}
          /\ UNCHANGED <<actorVars, events, snapshot, snaps>>
      BY Zenon, <1>0, <1>5 DEF InsertCompensation, JobTypeOK
    <2> QED BY Zenon, <1>1, <2>2, <2>3 DEF InRange
  <1>6. CASE Compensated \/ JobFails
    <2>1. /\ job' = NoJob /\ UNCHANGED <<actorVars, events, snapshot, snaps>>
          /\ \A w \in writes' : w \in writes
      BY Zenon, <1>6 DEF Compensated, JobFails, vars
    <2>2. job'.balance = 0
      BY Zenon, <2>1 DEF NoJob
    <2> QED BY Zenon, <1>0, <1>1, <2>1, <2>2
  <1> QED BY Zenon, <1>2, <1>3, <1>4, <1>5, <1>6, <1>8 DEF JobNext, ReaderNext

\* The sum up to the row before the job's is not changed by the job's row.
LEMMA SumKept ==
  ASSUME TypeOK, TypeOK', snapshot' = snapshot,
         NEW n \in Nat, snapshot.lastVersion <= n,
         \A v \in 1 .. n : Delta(events', v) = Delta(events, v)
  PROVE  SumTo(n)' = SumTo(n)
  <1>1. /\ \A v \in DOMAIN events : events[v].delta \in Int
        /\ \A v \in DOMAIN events' : events'[v].delta \in Int
        /\ snapshot.balance \in Int /\ snapshot.lastVersion \in Nat
    BY Zenon DEF TypeOK, Row, SnapshotRow
  <1>2. \A v \in snapshot.lastVersion + 1 .. n : Delta(events', v) = Delta(events, v)
    BY <1>1
  <1>3. RowSum(events', snapshot.balance, snapshot.lastVersion, n)
          = RowSum(events, snapshot.balance, snapshot.lastVersion, n)
    <2> DEFINE after == events'
    <2>1. \A v \in DOMAIN after : after[v].delta \in Int
      BY Zenon, <1>1
    <2>2. \A v \in snapshot.lastVersion + 1 .. n : Delta(after, v) = Delta(events, v)
      BY Zenon, <1>2
    <2> HIDE DEF after
    <2>3. RowSum(after, snapshot.balance, snapshot.lastVersion, n)
            = RowSum(events, snapshot.balance, snapshot.lastVersion, n)
      BY ZenonT(40), <1>1, <2>1, <2>2, RowSumSame
    <2> QED BY Zenon, <2>3 DEF after
  <1> QED BY Zenon, <1>3 DEF SumTo

\* The job's INSERT leaves only for the table.
LEMMA Leaves ==
  ASSUME TypeOK, Marked, Next, job.write \in writes, job.write \notin writes'
  PROVE  WriteLands(job.write)
  <1> USE DEF actorVars, storeVars
  <1>1. ASSUME NEW a \in Actors, ActorNext(a) PROVE job.write \in writes'
    <2>1. st[a] = "writing" => job.write # cur[a]
      BY Zenon DEF Marked
    <2>2. CASE HandleError(a) \/ Crash(a)
      BY Zenon, <2>1, <2>2 DEF HandleError, Crash, Abandon
    <2> QED BY Zenon, <1>1, <2>2 DEF ActorNext, LoadSnapshot, LoadEvent, LoadDone, LoadFailed, Stop,
          HandleDuplicate, HandleReject, HandleWrite, HandleCommit, vars
  <1>2. ASSUME NEW s \in snaps, SnapshotLands(s) \/ SnapshotLost(s) PROVE job.write \in writes'
    BY Zenon, <1>2 DEF SnapshotLands, SnapshotLost
  <1>3. ASSUME NEW w \in writes, WriteLands(w) PROVE w = job.write
    BY Zenon, <1>3 DEF WriteLands
  <1> QED BY Zenon, <1>1, <1>2, <1>3 DEF Next

LEMMA KnowsOthers == ASSUME RecInv, Knows, Others PROVE Knows'
  <1>0. /\ TypeOK /\ TypeOK' /\ JobTypeOK /\ Next /\ Marked
        /\ job'.pc = job.pc /\ job'.balance = job.balance
        /\ job'.version = job.version /\ job'.write = job.write
        /\ job'.quiet => job.pc = "off" \/ (job.quiet /\ Undisturbed)
    BY Zenon, OthersStep DEF RecInv, RecTypeOK, Others, JobTypeOK
  <1>1. CASE ~job'.quiet \/ job.pc = "off"
    BY Zenon, <1>0, <1>1 DEF Knows
  <1>2. CASE job'.quiet /\ job.pc # "off"
    <2>1. job.quiet /\ snapshot' = snapshot /\ events' \in {events, Upsert(events, job.write)}
      BY Zenon, <1>0, <1>2 DEF Undisturbed
    <2>2. /\ job.version \in Nat /\ job.write \in Row
          /\ snapshot.lastVersion \in Nat /\ DOMAIN events \subseteq Nat \ {0}
          /\ DOMAIN events' \subseteq Nat \ {0}
      BY Zenon, <1>0 DEF JobTypeOK, TypeOK, SnapshotRow
    <2>3. CASE job.pc # "writing"
      <3>1. events' = events
        <4>1. job.write.version = 0
          <5>1. job.write = NoWrite
            BY Zenon, <2>3 DEF Knows
          <5> QED BY <5>1 DEF NoWrite
        <4>2. 0 \in DOMAIN Upsert(events, job.write)
          BY Zenon, <4>1 DEF Upsert
        <4> QED BY Zenon, <2>1, <2>2, <4>2
      <3>3. SumTo(job.version)' = SumTo(job.version)
        BY Zenon, <1>0, <2>1, <3>1 DEF SumTo
      <3>4. IsLast(job.version, snapshot.lastVersion)' = IsLast(job.version, snapshot.lastVersion)
        BY Zenon, <1>0, <2>1, <3>1 DEF IsLast
      <3> QED BY Zenon, <1>0, <2>1, <2>3, <3>3, <3>4 DEF Knows
    <2>4. CASE job.pc = "writing"
      <3>1. /\ job.version >= snapshot.lastVersion
            /\ job.write.version = job.version + 1 /\ job.write.delta = Wrap(-job.balance)
            /\ job.version + 1 \in DOMAIN events => events[job.version + 1] = job.write
            /\ job.write \notin writes => job.version + 1 \in DOMAIN events
            /\ job.balance = SumTo(job.version)
        BY Zenon, <2>1, <2>4 DEF Knows
      <3>2. /\ DOMAIN events \subseteq DOMAIN events'
            /\ job.version + 1 \in DOMAIN events' => events'[job.version + 1] = job.write
            /\ \A v \in 1 .. job.version : Delta(events', v) = Delta(events, v)
        BY <2>1, <2>2, <3>1 DEF Upsert, Delta
      <3>3. SumTo(job.version)' = SumTo(job.version)
        <4>1. PICK n \in Nat : n = job.version
          BY Zenon, <2>2
        <4>2. SumTo(n)' = SumTo(n)
          BY Zenon, <1>0, <2>1, <3>1, <3>2, <4>1, SumKept
        <4> QED BY Zenon, <1>0, <4>1, <4>2 DEF SumTo
      <3>4. ASSUME job.write \notin writes' PROVE job.version + 1 \in DOMAIN events'
        <4>1. CASE job.write \in writes
          <5>1. WriteLands(job.write)
            BY Zenon, <1>0, <3>4, <4>1, Leaves
          <5>2. job.version + 1 \in DOMAIN events'
            BY Zenon, <3>1, <5>1 DEF WriteLands, Newer, Upsert
          <5> QED BY Zenon, <5>2
        <4> QED BY Zenon, <3>1, <3>2, <4>1
      <3> QED BY Zenon, <1>0, <2>1, <2>4, <3>1, <3>2, <3>3, <3>4 DEF Knows
    <2> QED BY Zenon, <2>3, <2>4
  <1> QED BY Zenon, <1>1, <1>2

LEMMA KnowsJob == ASSUME RecInv, Knows, JobNext PROVE Knows'
  <1> USE DEF actorVars, storeVars
  <1>0. /\ TypeOK /\ JobTypeOK /\ job.version \in Nat /\ DOMAIN events \subseteq Nat \ {0}
        /\ snapshot.lastVersion \in Nat /\ Filled(snapshot.lastVersion)
    BY Zenon DEF RecInv, RecTypeOK, JobTypeOK, TypeOK, SnapshotRow, RecGrounded, Grounded, SnapshotsFilled
  <1>1. ASSUME job' = NoJob PROVE Knows'
    BY Zenon, <1>1 DEF NoJob, Knows
  <1>2. CASE ReadSnapshot
    <2>1. /\ job'.pc = "snap" /\ job'.balance = snapshot.balance /\ job'.write = job.write
          /\ job'.version = snapshot.lastVersion /\ UNCHANGED <<events, snapshot>>
          /\ job.write = NoWrite
      BY Zenon, <1>0, <1>2 DEF ReadSnapshot, JobTypeOK, vars, Knows
    <2>2. SumTo(job.version)' = snapshot.balance
      <3>1. RowSum(events, snapshot.balance, snapshot.lastVersion, snapshot.lastVersion)
              = snapshot.balance
        BY Zenon, <1>0, RowSumNone
      <3> QED BY Zenon, <2>1, <3>1 DEF SumTo
    <2>3. job'.version >= snapshot.lastVersion
      BY <1>0, <2>1
    <2> QED BY Zenon, <2>1, <2>2, <2>3 DEF Knows
  <1>6. ASSUME job.quiet, Reading, NEW n \in Nat, job.version <= n
        PROVE  /\ n >= snapshot.lastVersion
               /\ AddDeltas(job.balance, job.version, n) = SumTo(n)
    <2>1. job.version >= snapshot.lastVersion /\ job.balance = SumTo(job.version)
      BY Zenon, <1>6 DEF Knows, Reading
    <2>2. /\ snapshot.balance \in Int /\ \A v \in DOMAIN events : events[v].delta \in Int
          /\ snapshot.lastVersion <= job.version
      BY <1>0, <2>1 DEF TypeOK, SnapshotRow, Row
    <2>3. RowSum(events, SumTo(job.version), job.version, n) = SumTo(n)
      <3> DEFINE b == snapshot.balance
                 m == snapshot.lastVersion
                 k == job.version
      <3>1. b \in Int /\ m \in Nat /\ k \in Nat /\ m <= k /\ k <= n
        BY Zenon, <1>0, <1>6, <2>2
      <3> HIDE DEF b, m, k
      <3>2. RowSum(events, RowSum(events, b, m, k), k, n) = RowSum(events, b, m, n)
        BY Zenon, <2>2, <3>1, RowSumJoin
      <3> QED BY Zenon, <3>2 DEF SumTo, b, m, k
    <2> QED BY <1>0, <1>6, <2>1, <2>3, AddDeltasIs
  <1>3. CASE ReadPage
    <2>1. PICK n \in Nat, b \in Int :
            /\ n > job.version /\ b = AddDeltas(job.balance, job.version, n)
            /\ job' = [job EXCEPT !.pc = "page", !.version = n, !.balance = b]
      BY Zenon, <1>3, PageRead
    <2>2. /\ job'.pc = "page" /\ job'.balance = b /\ job'.version = n /\ Reading
          /\ job'.quiet = job.quiet /\ job'.write = job.write /\ UNCHANGED <<events, snapshot>>
          /\ job.write = NoWrite
      BY Zenon, <1>0, <1>3, <2>1 DEF ReadPage, Reading, vars, JobTypeOK, Knows
    <2>3. job.version <= n
      BY <1>0, <2>1
    <2>4. job.quiet => n >= snapshot.lastVersion /\ b = SumTo(n)
      BY Zenon, <1>6, <2>1, <2>2, <2>3
    <2> QED BY Zenon, <2>2, <2>4 DEF Knows, SumTo
  <1>7. CASE ReadEvents
    <2>1. PICK n \in Nat, b \in Int :
            /\ IsLast(n, job.version) /\ b = AddDeltas(job.balance, job.version, n)
            /\ \/ job' = NoJob
               \/ job' = [job EXCEPT !.pc = "negative", !.balance = b, !.version = n]
      BY Zenon, <1>7, EventsRead
    <2>2. CASE job' # NoJob
      <3>1. /\ job'.pc = "negative" /\ job'.balance = b /\ job'.version = n /\ Reading
            /\ job'.quiet = job.quiet /\ job'.write = job.write /\ UNCHANGED <<events, snapshot>>
            /\ job.write = NoWrite
        BY Zenon, <1>0, <1>7, <2>1, <2>2 DEF ReadEvents, Reading, vars, JobTypeOK, Knows
      <3>2. job.quiet => n >= snapshot.lastVersion /\ b = SumTo(n)
        BY Zenon, <1>6, <2>1, <3>1 DEF IsLast
      <3>3. job.quiet => IsLast(n, snapshot.lastVersion)
        BY Zenon, <2>1, <3>2 DEF IsLast
      <3> QED BY Zenon, <3>1, <3>2, <3>3 DEF Knows, SumTo, IsLast
    <2> QED BY Zenon, <1>1, <2>2
  <1>4. CASE QueryMaxVersion
    <2>1. PICK max \in DOMAIN events \cup {0} :
            IsLast(max, 0) /\ job' = [job EXCEPT !.pc = "insert", !.version = max]
      BY Zenon, <1>4 DEF QueryMaxVersion
    <2>2. /\ job'.pc = "insert" /\ job'.version = max /\ job'.balance = job.balance
          /\ job'.quiet = job.quiet /\ job'.write = job.write /\ UNCHANGED <<events, snapshot>>
          /\ job.write = NoWrite /\ job.pc = "negative"
      BY <1>0, <1>4, <2>1, ZenonT(40) DEF QueryMaxVersion, vars, JobTypeOK, Knows
    <2>3. ASSUME job.quiet PROVE job.version = max
      <3>1. IsLast(job.version, snapshot.lastVersion) /\ Filled(job.version)
        BY Zenon, <2>2, <2>3 DEF Knows, RecInv, RecGrounded
      <3>2. job.version \in DOMAIN events \cup {0}
        BY <1>0, <3>1 DEF Filled
      <3> QED BY <1>0, <2>1, <3>1, <3>2 DEF IsLast
    <2> QED BY Zenon, <2>2, <2>3 DEF Knows, SumTo, IsLast
  <1>5. CASE InsertCompensation
    <2>1. /\ job'.pc = "writing" /\ job'.version = job.version /\ job'.balance = job.balance
          /\ job'.quiet = job.quiet /\ job'.write = Compensation
          /\ job'.write \in writes' /\ UNCHANGED <<events, snapshot>>
          /\ job.pc = "insert"
      BY Zenon, <1>0, <1>5 DEF InsertCompensation, JobTypeOK
    <2>2. Compensation.version = job.version + 1 /\ Compensation.delta = Wrap(-job.balance)
      BY Zenon DEF Compensation, nextVersion
    <2>3. ASSUME job.quiet
          PROVE  /\ job.version >= snapshot.lastVersion /\ job.version + 1 \notin DOMAIN events
                 /\ job.balance = SumTo(job.version)
      BY <1>0, <2>1, <2>3 DEF Knows, IsLast
    <2>4. SumTo(job.version)' = SumTo(job.version)
      BY Zenon, <2>1 DEF SumTo
    <2> QED BY Zenon, <2>1, <2>2, <2>3, <2>4 DEF Knows
  <1> QED BY Zenon, <1>1, <1>2, <1>3, <1>4, <1>5, <1>7
      DEF JobNext, ReaderNext, Compensated, JobFails

\* When the INSERT of a job that nobody disturbed has reached the table, the
\* balance is zero, in int64 too: also the deficit that has no negation.
LEMMA Restored ==
  ASSUME RecInv, InRange, Knows, job.pc = "writing", job.quiet, job.write \notin writes
  PROVE  AddDeltas(snapshot.balance, snapshot.lastVersion, job.write.version) = 0
  <1>1. /\ job.version \in Nat /\ snapshot.lastVersion \in Nat /\ snapshot.balance \in Int
        /\ \A v \in DOMAIN events : events[v].delta \in Int
    BY Zenon DEF RecInv, RecTypeOK, JobTypeOK, TypeOK, SnapshotRow, Row
  <1>2. /\ job.version >= snapshot.lastVersion
        /\ job.write.version = job.version + 1 /\ job.write.delta = Wrap(-job.balance)
        /\ job.version + 1 \in DOMAIN events /\ events[job.version + 1] = job.write
        /\ job.balance = SumTo(job.version)
    BY Zenon DEF Knows
  <1>3. SumTo(job.version + 1) = Wrap(SumTo(job.version) + Delta(events, job.version + 1))
    BY Zenon, <1>1, <1>2, RowSumNext DEF SumTo
  <1>4. Delta(events, job.version + 1) = Wrap(-job.balance)
    BY Zenon, <1>2 DEF Delta
  <1>5. Wrap(job.balance + Wrap(-job.balance)) = 0
    BY SMTT(40), TxAssumption DEF InRange, Int64, Wrap
  <1> QED BY Zenon, <1>2, <1>3, <1>4, <1>5, AddDeltasIs DEF SumTo

\* A compensation that nobody disturbs brings the balance to zero: it replaces
\* no row and counts none twice, with any number of actors and of jobs' rows
\* before it.
THEOREM CompensationIsExact == RecSpec => CompensationRestores
  <1> DEFINE Inv == RecInv /\ InRange /\ Knows
  <1>1. RecInit => Inv
    <2>1. RecInit => InRange /\ Knows
      BY SMTT(40), TxAssumption DEF RecInit, Init, NoJob, NoWrite, InRange, Int64, Knows
    <2> QED BY Zenon, <2>1, RecInitially
  <1>2. Inv /\ [RecNext]_recVars => Inv'
    <2> SUFFICES ASSUME Inv, [RecNext]_recVars PROVE Inv'
      BY Zenon
    <2>1. RecInv'
      BY Zenon, RecStep
    <2>2. CASE UNCHANGED recVars
      <3>1. InRange'
        BY Zenon, <2>2 DEF recVars, vars, actorVars, storeVars, InRange
      <3>2. Knows'
        BY Zenon, <2>2 DEF recVars, vars, actorVars, storeVars, Knows, SumTo, IsLast
      <3> QED BY Zenon, <2>1, <3>1, <3>2
    <2> QED BY Zenon, <2>1, <2>2, InRangeOthers, InRangeJob, KnowsOthers, KnowsJob DEF RecNext
  <1>3. Inv => (job.pc = "writing" /\ job.write \notin writes /\ job.quiet /\ job'.pc = "off"
                  => LET s == snapshot IN AddDeltas(s.balance, s.lastVersion, job.write.version) = 0)
    BY Zenon, Restored
  <1> HIDE DEF Inv
  <1> QED BY <1>1, <1>2, <1>3, PTL DEF RecSpec, CompensationRestores
=============================================================================
