---------------------------- MODULE StressProofs ----------------------------
(***************************************************************************)
(* Proofs about Stress, for any number of runs, callers of Stop,           *)
(* generators and requests and any size of a batch.                        *)
(***************************************************************************)
EXTENDS Stress, TLAPS

-----------------------------------------------------------------------------
(* Types.                                                                  *)

LEMMA TypeInit == Init => TypeOK
  <1> SUFFICES ASSUME Init PROVE TypeOK
    OBVIOUS
  <1>1. NewRun \in RunType
    BY StressAssumption DEF NewRun, RunType
  <1>2. run \in [Runs -> RunType]
    BY <1>1 DEF Init
  <1>3. net \in NetType
    BY DEF Init, NetType
  <1>4. eng \in EngType
    BY DEF Init, EngType
  <1> QED BY <1>2, <1>3, <1>4 DEF Init, TypeOK

\* The fields of the engine's and the Router's records.
LEMMA Fields ==
  ASSUME TypeOK
  PROVE  /\ \A r \in Runs : run[r] \in RunType /\ run[r].busy \in 0 .. Concurrency
                            /\ run[r].sent \in Nat /\ run[r].ctx \in BOOLEAN
                            /\ run[r].expired \in BOOLEAN
         /\ net.queue \in Nat /\ net.wire \in Nat /\ net.forgotten \in Nat
         /\ net.batch \in Nat /\ net.sent \in Nat
         /\ net.handled \in Nat /\ net.extra \in Int
         /\ eng.cancel \in Runs \cup {None} /\ eng.done \in Runs \cup {None}
  BY DEF TypeOK, RunType, NetType, EngType

\* A step that gives run r fields of the right types keeps the type of run.
LEMMA RunKept ==
  ASSUME TypeOK, NEW r \in Runs, NEW x \in RunType, run' = [run EXCEPT ![r] = x]
  PROVE  run' \in [Runs -> RunType]
  BY DEF TypeOK

LEMMA TypeRun ==
  ASSUME TypeOK, NEW r \in Runs,
         \/ Start(r) \/ Tick(r) \/ Enqueue(r) \/ EnqueueDead(r) \/ DispatchFails(r)
         \/ GenerateEnds(r) \/ DrainLoad(r) \/ DrainTest(r) \/ RunOver(r) \/ RunDone(r)
         \/ WindowEnds(r) \/ ReporterEnds(r)
  PROVE  run' \in [Runs -> RunType]
  <1>1. CASE Start(r)
    <2>1. [run[r] EXCEPT !.pc = "gen", !.reporter = "run"] \in RunType
      BY Zenon, Fields DEF RunType
    <2>2. run' = [run EXCEPT ![r] = [run[r] EXCEPT !.pc = "gen", !.reporter = "run"]]
      BY Zenon, <1>1 DEF Start, TypeOK
    <2> QED BY Zenon, <2>1, <2>2, RunKept
  <1>2. CASE Tick(r)
    <2>1. run[r].busy + 1 \in 0 .. Concurrency
      BY <1>2, Fields, StressAssumption DEF Tick
    <2> QED BY <1>2, <2>1 DEF Tick, TypeOK, RunType
  <1>3. CASE Enqueue(r) \/ EnqueueDead(r) \/ DispatchFails(r)
    <2>1. run[r].busy - 1 \in 0 .. Concurrency
      BY <1>3, Fields, StressAssumption DEF Enqueue, EnqueueDead, DispatchFails
    <2> QED BY <1>3, <2>1 DEF Enqueue, EnqueueDead, DispatchFails, TypeOK, RunType
  <1>4. CASE GenerateEnds(r) \/ RunDone(r)
    BY <1>4 DEF GenerateEnds, RunDone, TypeOK, RunType
  <1>5. CASE DrainLoad(r)
    <2>1. [run[r] EXCEPT !.pc = "load", !.sent = net.sent] \in RunType
      BY Zenon, Fields DEF RunType
    <2>2. run' = [run EXCEPT ![r] = [run[r] EXCEPT !.pc = "load", !.sent = net.sent]]
      BY Zenon, <1>5 DEF DrainLoad, TypeOK
    <2> QED BY Zenon, <2>1, <2>2, RunKept
  <1>6. CASE DrainTest(r)
    <2>1. [run[r] EXCEPT !.pc = IF DrainOver(r) THEN "end" ELSE "drain", !.sent = 0,
                           !.expired = run[r].expired /\ ~DrainOver(r)] \in RunType
      BY Zenon, Fields DEF RunType
    <2>2. run' = [run EXCEPT ![r] = [run[r] EXCEPT !.pc = IF DrainOver(r) THEN "end" ELSE "drain", !.sent = 0,
                           !.expired = run[r].expired /\ ~DrainOver(r)]]
      BY Zenon, <1>6 DEF DrainTest, TypeOK
    <2> QED BY Zenon, <2>1, <2>2, RunKept
  <1>7. CASE RunOver(r)
    <2>1. [run[r] EXCEPT !.pc = "flag", !.stop = TRUE] \in RunType
      BY Zenon, Fields DEF RunType
    <2>2. run' = [run EXCEPT ![r] = [run[r] EXCEPT !.pc = "flag", !.stop = TRUE]]
      BY Zenon, <1>7 DEF RunOver, TypeOK
    <2> QED BY Zenon, <2>1, <2>2, RunKept
  <1>8. CASE WindowEnds(r)
    <2>1. [run[r] EXCEPT !.expired = TRUE] \in RunType
      BY Zenon, Fields DEF RunType
    <2>2. run' = [run EXCEPT ![r] = [run[r] EXCEPT !.expired = TRUE]]
      BY <1>8 DEF WindowEnds, TypeOK
    <2> QED BY Zenon, <2>1, <2>2, RunKept
  <1>9. CASE ReporterEnds(r)
    <2>1. [run[r] EXCEPT !.reporter = "end"] \in RunType
      BY Fields DEF RunType
    <2>2. run' = [run EXCEPT ![r] = [run[r] EXCEPT !.reporter = "end"]]
      BY <1>9 DEF ReporterEnds, TypeOK
    <2> QED BY Zenon, <2>1, <2>2, RunKept
  <1> QED BY <1>1, <1>2, <1>3, <1>4, <1>5, <1>6, <1>7, <1>8, <1>9
-----------------------------------------------------------------------------
(* The Router's counters: each step keeps their types and the accounts.    *)

LEMMA Counters ==
  ASSUME TypeOK
  PROVE  /\ net.queue \in Nat /\ net.wire \in Nat /\ net.forgotten \in Nat
         /\ net.batch \in Nat /\ net.sent \in Nat
         /\ net.handled \in Nat /\ net.extra \in Int
  BY Fields

Balanced == net.sent + net.batch + net.extra = net.handled + net.wire

Accounts == Balanced /\ net.extra >= net.forgotten

\* The steps of the counters keep their types and the accounts.
NetKept == net' \in NetType /\ Accounts'

LEMMA NetUnchanged == ASSUME TypeOK, Accounts, UNCHANGED net PROVE NetKept
  BY DEF TypeOK, NetKept, Accounts, Balanced

LEMMA NetAccept == ASSUME TypeOK, Accounts, Accept PROVE NetKept
  <1>1. net.queue + 1 \in Nat
    BY Fields
  <1>2. net' \in NetType
    BY Zenon, <1>1 DEF Accept, TypeOK, NetType
  <1>3. /\ net'.wire = net.wire /\ net'.forgotten = net.forgotten
        /\ net'.batch = net.batch /\ net'.sent = net.sent
        /\ net'.handled = net.handled /\ net'.extra = net.extra
    BY DEF Accept, TypeOK, NetType
  <1> QED BY <1>2, <1>3, Counters DEF NetKept, Accounts, Balanced

LEMMA NetStall == ASSUME TypeOK, Accounts, Stall PROVE NetKept
  <1>1. net' \in NetType
    BY Zenon DEF Stall, TypeOK, NetType
  <1>2. /\ net'.wire = net.wire /\ net'.forgotten = net.forgotten
        /\ net'.batch = net.batch /\ net'.sent = net.sent
        /\ net'.handled = net.handled /\ net'.extra = net.extra
    BY DEF Stall, TypeOK, NetType
  <1> QED BY <1>1, <1>2, Counters DEF NetKept, Accounts, Balanced

LEMMA NetCountError == ASSUME TypeOK, Accounts, CountError PROVE NetKept
  <1>1. net.handled + 1 \in Nat /\ net.extra + 1 \in Int
    BY Fields
  <1>2. net' \in NetType
    BY Zenon, <1>1 DEF CountError, TypeOK, NetType
  <1>3. /\ net'.wire = net.wire /\ net'.forgotten = net.forgotten
        /\ net'.batch = net.batch /\ net'.sent = net.sent
        /\ net'.handled = net.handled + 1 /\ net'.extra = net.extra + 1
    BY DEF CountError, TypeOK, NetType
  <1> QED BY <1>2, <1>3, Counters DEF NetKept, Accounts, Balanced

LEMMA NetSend == ASSUME TypeOK, Accounts, Send PROVE NetKept
  <1>1. PICK n \in 1 .. BatchSize :
          /\ n <= net.queue
          /\ net' = [net EXCEPT !.queue = @ - n, !.wire = @ + n, !.batch = n]
    BY Zenon DEF Send, Taken
  <1>2. n \in Nat /\ net.queue - n \in Nat /\ net.wire + n \in Nat
    BY <1>1, Fields, StressAssumption
  <1>3. net' \in NetType
    BY Zenon, <1>1, <1>2 DEF TypeOK, NetType
  <1>4. /\ net'.wire = net.wire + n /\ net'.forgotten = net.forgotten
        /\ net'.batch = n /\ net.batch = 0 /\ net'.sent = net.sent
        /\ net'.handled = net.handled /\ net'.extra = net.extra
    BY Zenon, <1>1 DEF Send, TypeOK, NetType
  <1> QED BY <1>2, <1>3, <1>4, Counters DEF NetKept, Accounts, Balanced

LEMMA NetCountSent == ASSUME TypeOK, Accounts, CountSent PROVE NetKept
  <1>1. net.sent + net.batch \in Nat
    BY Fields
  <1>2. net' \in NetType
    BY Zenon, <1>1 DEF CountSent, TypeOK, NetType
  <1>3. /\ net'.wire = net.wire /\ net'.forgotten = net.forgotten
        /\ net'.batch = 0 /\ net'.sent = net.sent + net.batch
        /\ net'.handled = net.handled /\ net'.extra = net.extra
    BY DEF CountSent, TypeOK, NetType
  <1> QED BY <1>2, <1>3, Counters DEF NetKept, Accounts, Balanced

LEMMA NetRecv == ASSUME TypeOK, Accounts, Recv PROVE NetKept
  <1>1. PICK f \in {0, 1} :
          /\ f <= net.forgotten
          /\ net' = [net EXCEPT !.wire = @ - 1, !.forgotten = @ - f, !.handled = @ + 1]
    BY Zenon DEF Recv
  <1>2. net.wire - 1 \in Nat /\ net.forgotten - f \in Nat /\ net.handled + 1 \in Nat
    BY <1>1, Fields DEF Recv
  <1>3. net' \in NetType
    BY Zenon, <1>1, <1>2 DEF TypeOK, NetType
  <1>4. /\ net'.wire = net.wire - 1 /\ net'.forgotten = net.forgotten - f
        /\ net'.batch = net.batch /\ net'.sent = net.sent
        /\ net'.handled = net.handled + 1 /\ net'.extra = net.extra
    BY <1>1 DEF TypeOK, NetType
  <1> QED BY <1>1, <1>2, <1>3, <1>4, Counters DEF NetKept, Accounts, Balanced

LEMMA NetTimeout == ASSUME TypeOK, Accounts, CallbackTimeout PROVE NetKept
  <1>1. net.forgotten + 1 \in Nat /\ net.handled + 1 \in Nat /\ net.extra + 1 \in Int
    BY Fields
  <1>2. net' \in NetType
    BY Zenon, <1>1 DEF CallbackTimeout, TypeOK, NetType
  <1>3. /\ net'.wire = net.wire /\ net'.forgotten = net.forgotten + 1
        /\ net'.batch = net.batch /\ net'.sent = net.sent
        /\ net'.handled = net.handled + 1 /\ net'.extra = net.extra + 1
    BY DEF CallbackTimeout, TypeOK, NetType
  <1> QED BY <1>2, <1>3, Counters DEF NetKept, Accounts, Balanced

LEMMA NetFailAll == ASSUME TypeOK, Accounts, NEW r \in Runs, FailAll(r) PROVE NetKept
  <1>1. PICK q \in 0 .. net.queue, w \in 0 .. net.wire, f \in 0 .. net.forgotten,
             waiting \in 0 .. run[r].busy :
          /\ f <= q + w
          /\ net' = [net EXCEPT !.queue = @ - q, !.wire = @ - w, !.forgotten = @ - f,
                                !.handled = @ + Failed(q, w, f) + waiting,
                                !.extra = @ + q - f + waiting,
                                !.stalled = FALSE]
    BY Zenon DEF FailAll
  <1>2. /\ q \in Nat /\ w \in Nat /\ f \in Nat /\ waiting \in Nat
        /\ net.queue - q \in Nat /\ net.wire - w \in Nat /\ net.forgotten - f \in Nat
        /\ net.handled + Failed(q, w, f) + waiting \in Nat
        /\ net.extra + q - f + waiting \in Int
    BY <1>1, Fields, StressAssumption DEF Failed
  <1>3. net' \in NetType
    BY Zenon, <1>1, <1>2 DEF TypeOK, NetType
  <1>4. /\ net'.wire = net.wire - w /\ net'.forgotten = net.forgotten - f
        /\ net'.batch = net.batch /\ net'.sent = net.sent
        /\ net'.handled = net.handled + Failed(q, w, f) + waiting
        /\ net'.extra = net.extra + q - f + waiting
    BY Zenon, <1>1 DEF TypeOK, NetType
  <1>5. Balanced'
    BY <1>2, <1>4, Counters DEF Accounts, Balanced, Failed
  <1>6. net'.extra >= net'.forgotten
    BY <1>2, <1>4, Counters DEF Accounts
  <1> QED BY <1>3, <1>5, <1>6 DEF NetKept, Accounts

LEMMA NetStep == ASSUME TypeOK, Accounts, [Next]_vars PROVE NetKept
  <1>1. ASSUME NEW r \in Runs, Enqueue(r) \/ DispatchFails(r) PROVE NetKept
    BY <1>1, NetAccept, NetCountError DEF Enqueue, DispatchFails
  <1>2. CASE Execute \/ TimeoutRace
    BY <1>2, NetAccept, NetCountError DEF Execute, TimeoutRace
  <1>3. CASE Send \/ Stall \/ CountSent \/ Recv \/ CallbackTimeout
    BY <1>3, NetSend, NetStall, NetCountSent, NetRecv, NetTimeout
  <1>4. ASSUME NEW r \in Runs,
               \/ Start(r) \/ Tick(r) \/ EnqueueDead(r) \/ GenerateEnds(r) \/ DrainLoad(r) \/ DrainTest(r)
               \/ RunOver(r) \/ RunDone(r) \/ WindowEnds(r) \/ ReporterEnds(r)
        PROVE  NetKept
    BY <1>4, NetUnchanged DEF Start, Tick, EnqueueDead, GenerateEnds, DrainLoad, DrainTest, RunOver,
       RunDone, WindowEnds, ReporterEnds
  <1>5. ASSUME NEW c \in Stoppers, Stop(c) \/ StopReturns(c) PROVE NetKept
    BY <1>5, NetUnchanged DEF Stop, StopReturns
  <1>6. CASE UNCHANGED vars
    BY <1>6, NetUnchanged DEF vars
  <1> QED BY <1>1, <1>2, <1>3, <1>4, <1>5, <1>6, NetFailAll DEF Next, RunNext
-----------------------------------------------------------------------------
(* The engine and its runs.                                                *)

LEMMA TypeStep == ASSUME TypeOK, Accounts, [Next]_vars PROVE TypeOK'
  <1>1. net' \in NetType
    BY NetStep DEF NetKept
  <1>2. run' \in [Runs -> RunType]
    <2>1. ASSUME NEW c \in Stoppers, Stop(c) PROVE run' \in [Runs -> RunType]
      <3>1. CASE eng.cancel \in Runs
        <4>1. [run[eng.cancel] EXCEPT !.ctx = TRUE] \in RunType
          BY Zenon, <3>1, Fields DEF RunType
        <4>2. run' = [run EXCEPT ![eng.cancel] = [run[eng.cancel] EXCEPT !.ctx = TRUE]]
          BY <2>1, <3>1 DEF Stop, TypeOK
        <4> QED BY Zenon, <4>1, <4>2 DEF TypeOK
      <3>2. CASE eng.cancel \notin Runs
        BY Zenon, <2>1, <3>2 DEF Stop, TypeOK
      <3> QED BY <3>1, <3>2
    <2>2. ASSUME UNCHANGED run PROVE run' \in [Runs -> RunType]
      BY <2>2 DEF TypeOK
    <2>3. ASSUME NEW c \in Stoppers, StopReturns(c) PROVE UNCHANGED run
      BY <2>3 DEF StopReturns
    <2>4. ASSUME NEW r \in Runs, FailAll(r) PROVE UNCHANGED run
      BY <2>4 DEF FailAll
    <2>5. CASE Execute \/ Send \/ Stall \/ CountSent \/ Recv \/ CallbackTimeout \/ TimeoutRace
               \/ UNCHANGED vars
      BY Zenon, <2>2, <2>5 DEF Execute, Send, Stall, CountSent, Recv, CallbackTimeout, TimeoutRace, vars
    <2> QED BY <2>1, <2>2, <2>3, <2>4, <2>5, TypeRun DEF Next, RunNext
  <1>3. eng' \in EngType
    <2>1. ASSUME NEW r \in Runs, Start(r) PROVE eng' \in EngType
      BY <2>1 DEF Start, Started, EngType
    <2>2. ASSUME NEW r \in Runs, RunOver(r) PROVE eng' \in EngType
      BY Zenon, <2>2 DEF RunOver, TypeOK, EngType
    <2>3. ASSUME NEW c \in Stoppers, Stop(c) PROVE eng' \in EngType
      BY Zenon, <2>3 DEF Stop, TypeOK, EngType
    <2>4. ASSUME UNCHANGED eng PROVE eng' \in EngType
      BY <2>4 DEF TypeOK
    <2>5. ASSUME NEW r \in Runs,
                 \/ Tick(r) \/ Enqueue(r) \/ EnqueueDead(r) \/ DispatchFails(r) \/ GenerateEnds(r)
                 \/ DrainLoad(r) \/ DrainTest(r) \/ RunDone(r)
                 \/ WindowEnds(r) \/ ReporterEnds(r) \/ FailAll(r)
          PROVE  UNCHANGED eng
      BY Zenon, <2>5 DEF Tick, Enqueue, EnqueueDead, DispatchFails, GenerateEnds, Generated, DrainLoad,
         DrainTest, RunDone, WindowEnds, ReporterEnds, FailAll
    <2>6. ASSUME NEW c \in Stoppers, StopReturns(c) PROVE UNCHANGED eng
      BY <2>6 DEF StopReturns
    <2>7. CASE Execute \/ Send \/ Stall \/ CountSent \/ Recv \/ CallbackTimeout \/ TimeoutRace
               \/ UNCHANGED vars
      BY Zenon, <2>4, <2>7 DEF Execute, Send, Stall, CountSent, Recv, CallbackTimeout, TimeoutRace, vars
    <2> QED BY <2>1, <2>2, <2>3, <2>4, <2>5, <2>6, <2>7 DEF Next, RunNext
  <1>4. stopper' \in [Stoppers -> Runs \cup {None}]
    BY Zenon, Fields DEF Next, RunNext, Start, Tick, Enqueue, EnqueueDead, DispatchFails, GenerateEnds, DrainLoad,
       DrainTest, RunOver, RunDone, WindowEnds, ReporterEnds, FailAll, Stop, StopReturns,
       Execute, Send, Stall, CountSent, Recv, CallbackTimeout, TimeoutRace, vars, TypeOK
  <1>5. (made' = made \/ made' = made + 1) /\ (faults' = faults \/ faults' = faults + 1)
    BY Zenon DEF Next, RunNext, Start, Tick, Enqueue, EnqueueDead, DispatchFails, GenerateEnds, DrainLoad,
       DrainTest, RunOver, RunDone, WindowEnds, ReporterEnds, FailAll, Stop, StopReturns,
       Execute, Send, Stall, CountSent, Recv, CallbackTimeout, TimeoutRace, vars
  <1>6. made' \in Nat /\ faults' \in Nat
    BY <1>5 DEF TypeOK
  <1> QED BY <1>1, <1>2, <1>3, <1>4, <1>6 DEF TypeOK

\* What every step but Start, RunOver and Stop does to a run.
Onward(q) ==
  /\ Active(q)' => Active(q)
  /\ run'[q].ctx = run[q].ctx

LEMMA RunsOnward ==
  ASSUME TypeOK, NEW r \in Runs, NEW q \in Runs,
         \/ Tick(r) \/ Enqueue(r) \/ EnqueueDead(r) \/ DispatchFails(r) \/ GenerateEnds(r) \/ DrainLoad(r)
         \/ DrainTest(r) \/ RunDone(r) \/ WindowEnds(r) \/ ReporterEnds(r)
  PROVE  UNCHANGED eng /\ Onward(q)
  <1> USE DEF Onward, Active, TypeOK, RunType
  <1>1. CASE Tick(r) \/ Enqueue(r) \/ EnqueueDead(r) \/ DispatchFails(r)
    BY <1>1 DEF Tick, Enqueue, EnqueueDead, DispatchFails
  <1>2. CASE GenerateEnds(r)
    BY <1>2 DEF GenerateEnds, Generated
  <1>3. CASE DrainLoad(r)
    BY <1>3 DEF DrainLoad
  <1>4. CASE DrainTest(r)
    BY <1>4 DEF DrainTest
  <1>5. CASE RunDone(r) \/ WindowEnds(r) \/ ReporterEnds(r)
    BY <1>5 DEF RunDone, WindowEnds, ReporterEnds
  <1> QED BY <1>1, <1>2, <1>3, <1>4, <1>5

Alone == OneRun /\ Stoppable

LEMMA AloneStep == ASSUME TypeOK, Alone, [Next]_vars PROVE Alone'
  <1>1. ASSUME UNCHANGED eng, \A q \in Runs : Onward(q) PROVE Alone'
    BY <1>1 DEF Alone, Onward, OneRun, Stoppable, Active
  <1>2. ASSUME UNCHANGED <<eng, run>> PROVE Alone'
    BY <1>1, <1>2 DEF Onward, Active
  <1>3. ASSUME NEW r \in Runs, Start(r) PROVE Alone'
    <2>1. /\ eng' = [running |-> TRUE, cancel |-> r, done |-> r] /\ ~eng.running
          /\ \A q \in Runs : q # r => run'[q] = run[q]
          /\ run'[r].pc = "gen"
      BY <1>3 DEF Start, Started, TypeOK, RunType
    <2>2. \A q \in Runs : Active(q)' => q = r
      BY <2>1 DEF Alone, OneRun, Active
    <2> QED BY <2>1, <2>2 DEF Alone, OneRun, Stoppable, Active
  <1>4. ASSUME NEW r \in Runs, RunOver(r) PROVE Alone'
    <2>1. /\ run[r].pc = "end" /\ run'[r].pc = "flag"
          /\ \A q \in Runs : q # r => run'[q] = run[q]
      BY <1>4 DEF RunOver, TypeOK, RunType
    <2>2. \A q \in Runs : ~Active(q)'
      BY <2>1 DEF Alone, OneRun, Active
    <2> QED BY <2>2 DEF Alone, OneRun, Stoppable, Active
  <1>5. ASSUME NEW c \in Stoppers, Stop(c) PROVE Alone'
    <2>1. /\ \A q \in Runs : run'[q].pc = run[q].pc
          /\ \A q \in Runs : run'[q].ctx = IF q = eng.cancel THEN TRUE ELSE run[q].ctx
          /\ eng'.running = eng.running
      BY <1>5 DEF Stop, TypeOK, RunType, EngType
    <2>2. OneRun'
      BY <2>1 DEF Alone, OneRun, Active
    <2>3. Stoppable'
      BY Zenon, <2>1 DEF Alone, Stoppable, Active
    <2> QED BY <2>2, <2>3 DEF Alone
  <1>6. CASE Execute \/ Send \/ Stall \/ CountSent \/ Recv \/ CallbackTimeout \/ TimeoutRace
             \/ UNCHANGED vars
    BY Zenon, <1>2, <1>6 DEF Execute, Send, Stall, CountSent, Recv, CallbackTimeout, TimeoutRace, vars
  <1>7. ASSUME NEW r \in Runs, FailAll(r) PROVE Alone'
    BY <1>2, <1>7 DEF FailAll
  <1>8. ASSUME NEW c \in Stoppers, StopReturns(c) PROVE Alone'
    BY <1>2, <1>8 DEF StopReturns
  <1> QED BY <1>1, <1>3, <1>4, <1>5, <1>6, <1>7, <1>8, RunsOnward DEF Next, RunNext
-----------------------------------------------------------------------------
(* The theorems.                                                           *)

IInv == TypeOK /\ Accounts /\ Alone

LEMMA Inductive == Spec => []IInv
  <1>1. Init => IInv
    <2> SUFFICES ASSUME Init PROVE IInv
      OBVIOUS
    <2>1. Accounts
      BY DEF Init, Accounts, Balanced
    <2>2. Alone
      BY DEF Init, NewRun, Alone, OneRun, Stoppable, Active
    <2> QED BY <2>1, <2>2, TypeInit DEF IInv
  <1>2. IInv /\ [Next]_vars => IInv'
    BY TypeStep, NetStep, AloneStep DEF IInv, NetKept
  <1> QED BY <1>1, <1>2, PTL DEF Spec

\* The engine's, the runs' and the Router's fields keep their types: no counter
\* and no number of busy generators is ever negative.
THEOREM TypeCorrect == Spec => []TypeOK
  <1>1. IInv => TypeOK
    BY DEF IInv
  <1> QED BY <1>1, Inductive, PTL

\* However many callers of Start and Stop there are, at most one run is active.
THEOREM AtMostOneRun == Spec => []OneRun
  <1>1. IInv => OneRun
    BY DEF IInv, Alone
  <1> QED BY <1>1, Inductive, PTL

\* An active run can be stopped until somebody has stopped it: no other run's
\* end or start takes its cancel function away.
THEOREM RunStaysStoppable == Spec => []Stoppable
  <1>1. IInv => Stoppable
    BY DEF IInv, Alone
  <1> QED BY <1>1, Inductive, PTL

\* The Router's counters account for every request through failures of streams
\* and timeouts that race results, and what they call in flight is on the wire.
THEOREM CountsConserved == Spec => []Conserved
  <1>1. IInv => Conserved
    <2> SUFFICES ASSUME IInv PROVE Conserved
      OBVIOUS
    <2>1. Balanced /\ net.extra >= net.forgotten
      BY DEF IInv, Accounts
    <2> QED BY <2>1, Counters DEF IInv, Balanced, Conserved
  <1> QED BY <1>1, Inductive, PTL
=============================================================================
