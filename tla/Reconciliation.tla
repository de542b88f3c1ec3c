--------------------------- MODULE Reconciliation ---------------------------
(***************************************************************************)
(* Readers of a wallet's tables beside its actors: the reconciliation job  *)
(* and the gateway's balance handler.  Both add up the rows after the      *)
(* snapshot, without a lock and without telling an actor; the job then     *)
(* compensates a negative balance by a blind INSERT of its own.            *)
(*                                                                         *)
(* The job's list of wallets is still empty in the source (a TODO): the    *)
(* module has its loop's body for one wallet.  NoTx stands for the job's   *)
(* transaction id, which no client uses.                                   *)
(***************************************************************************)
EXTENDS Wallet

VARIABLE job
  \* pc: off, snap, page, negative, insert, writing; balance: read so far;
  \* version: of the last row; write: the INSERT.  Two history flags.  quiet
  \* (of RecSpec): nobody else has changed the tables since the snapshot was read.
  \* torn (of ReaderSpec): the row at which a page ended was replaced before the
  \* next page was read.

recVars == <<vars, job>>

NoJob == [pc |-> "off", balance |-> 0, version |-> 0, write |-> NoWrite,
          quiet |-> TRUE, torn |-> FALSE]

RecInit == Init /\ job = NoJob
-----------------------------------------------------------------------------
(* computeTrueBalance and computeBalance: two queries, of which the driver *)
(* fetches the second page by page.                                        *)

\* Mutant: the rows are read from the first version on.
ReadSnapshotOnly ==
  /\ job.pc = "off"
  /\ job' = [job EXCEPT !.pc = "snap", !.balance = snapshot.balance]
  /\ UNCHANGED vars

ReadSnapshot ==
  /\ job.pc = "off"
  /\ job' = [job EXCEPT !.pc = "snap", !.balance = snapshot.balance,
                        !.version = snapshot.lastVersion]
  /\ UNCHANGED vars

\* The last row's version, or the version read from if there is no later row.
IsLast(n, from) == n >= from /\ \A v \in DOMAIN events : v <= n

\* b and the deltas of the rows from + 1 .. n, in int64.
AddDeltas(b, from, n) ==
  LET sum[v \in from .. n] ==
        IF v = from THEN b
        ELSE Wrap(sum[v - 1] + IF v \in DOMAIN events THEN events[v].delta ELSE 0)
  IN sum[n]

Reading == job.pc \in {"snap", "page"}

\* A page that is not the last one; it may end at any row.
ReadPage ==
  /\ Reading
  /\ \E n \in DOMAIN events :
       /\ n > job.version
       /\ job' = [job EXCEPT !.pc = "page", !.version = n,
                             !.balance = AddDeltas(@, job.version, n)]
  /\ UNCHANGED vars

Discrepancy(b) == b < 0

\* The last page.  The handler answers with the sum; the job goes on only with a
\* negative one.
ReadEvents ==
  /\ Reading
  /\ \E n \in DOMAIN events \cup {job.version} :
       LET b == AddDeltas(job.balance, job.version, n) IN
       /\ IsLast(n, job.version)
       /\ job' = IF Discrepancy(b)
                 THEN [job EXCEPT !.pc = "negative", !.balance = b, !.version = n]
                 ELSE NoJob
  /\ UNCHANGED vars
-----------------------------------------------------------------------------
(* issueCompensatingTransaction.                                           *)

QueryMaxVersion ==
  /\ job.pc = "negative"
  /\ \E max \in DOMAIN events \cup {0} :
       /\ IsLast(max, 0)
       /\ job' = [job EXCEPT !.pc = "insert", !.version = max]
  /\ UNCHANGED vars

\* Mutants: the version of the last row; one version too many.
nextVersionSame(max) == max

nextVersionSkips(max) == max + 2

nextVersion(max) == max + 1

Compensation ==
  LET deficit == Wrap(-job.balance) IN
  [version |-> nextVersion(job.version), tx |-> NoTx, delta |-> deficit,
   after |-> Wrap(job.balance + deficit), ts |-> clock + 1]

InsertCompensation ==
  /\ job.pc = "insert"
  /\ clock < MaxWrites
  /\ job' = [job EXCEPT !.pc = "writing", !.write = Compensation]
  /\ writes' = writes \cup {Compensation}
  /\ clock' = clock + 1
  /\ UNCHANGED <<actorVars, events, snapshot, snaps, base, acked>>

\* ExecuteBatch returned nil.
Compensated ==
  /\ job.pc = "writing" /\ job.write \notin writes
  /\ job' = NoJob
  /\ UNCHANGED vars

\* A query or the INSERT fails and the job goes on with the next wallet; or it
\* was the handler that has read a negative balance.
JobFails ==
  /\ job.pc # "off"
  /\ job' = NoJob
  /\ writes' = IF LateWrites THEN writes ELSE writes \ {job.write}
  /\ UNCHANGED <<actorVars, events, snapshot, snaps, clock, base, acked>>
-----------------------------------------------------------------------------
ReaderNext == ReadSnapshot \/ ReadPage \/ ReadEvents \/ JobFails

JobNext ==
  \/ ReaderNext
  \/ QueryMaxVersion \/ InsertCompensation \/ Compensated

Undisturbed ==
  /\ snapshot' = snapshot
  /\ events' \in {events, Upsert(events, job.write)}

\* The actors and Cassandra go on as in Wallet.
Others ==
  /\ Next
  /\ job' = [job EXCEPT !.quiet = job.pc = "off" \/ (@ /\ Undisturbed)]

RecNext == JobNext \/ Others

RecSpec == RecInit /\ [][RecNext]_recVars

\* The balance handler alone, which compensates nothing.
PageReplaced == job.pc = "page" /\ events'[job.version] # events[job.version]

Served ==
  /\ Next
  /\ job' = [job EXCEPT !.torn = @ \/ PageReplaced]

ReaderSpec == RecInit /\ [][ReaderNext \/ Served]_recVars
-----------------------------------------------------------------------------
(* Properties.                                                             *)

\* The wallet's and the job's state keep their types, and what the job
\* compensates is a deficit.
JobTypeOK ==
  /\ job \in [pc : {"off", "snap", "page", "negative", "insert", "writing"},
              balance : Int, version : Nat, write : Row,
              quiet : BOOLEAN, torn : BOOLEAN]
  /\ job.pc \in {"negative", "insert", "writing"} => job.balance < 0

RecTypeOK == TypeOK /\ JobTypeOK

\* Nobody counts, snapshots or extends the log above a hole: with the job's
\* INSERTs among the actors', and however far the actors have moved since the
\* job asked for the last version, every version below the one a party has read
\* or is writing is filled.
RecGrounded ==
  /\ Grounded
  /\ job.pc # "off" => Filled(job.version)
  /\ job.write \in writes => Filled(job.write.version - 1)

\* A balance read in pages, between the steps of the one actor, of its snapshots
\* and of its successors, is the sum of exactly the rows up to the version that
\* is returned with it, and not negative; it may count a row whose INSERT was
\* reported as failed.  The exception is a reader that is torn: such a row was
\* the last of a page, and the actor has written another one in its place.  A row
\* inside a page, or under the snapshot, is never replaced.
ReadsConsistent ==
  /\ job.pc = "negative" => job.torn
  /\ Reading /\ ~job.torn =>
       \A n \in DOMAIN events \cup {job.version} :
         IsLast(n, job.version) => AddDeltas(job.balance, job.version, n) = LogSum(n)

\* A compensation brings the balance to zero, unless somebody else has changed
\* the tables since the job read them: it replaces no row and counts none twice.
CompensationRestores ==
  [][job.pc = "writing" /\ job.write \notin writes /\ job.quiet /\ job'.pc = "off"
       => LET s == snapshot IN AddDeltas(s.balance, s.lastVersion, job.write.version) = 0]_recVars

=============================================================================
