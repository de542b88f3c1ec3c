------------------------------- MODULE Stress -------------------------------
(***************************************************************************)
(* cmd/client's StressEngine: the runs that Start begins, the calls of     *)
(* Stop, each run's generators, drain and metrics reporter, and the        *)
(* Router's counters, by which the drain decides that a run is complete.   *)
(*                                                                         *)
(* A request is one of a number of equals.  The streamers that work are    *)
(* one queue (envelopeCh and batch) and one wire; Gateway has their        *)
(* details.  Callbacks are not counted: CallbackPending only displays.     *)
(***************************************************************************)
EXTENDS Integers, FiniteSets

CONSTANTS
  Stoppers,     \* callers of Stop: HTTP handlers and the signal handler
  Concurrency,  \* generator goroutines of a run
  BatchSize,    \* targetSize
  Room,         \* envelopes that fit in envelopeCh and in the flusher's batch
  MaxRuns,      \* bound: runs started
  MaxRequests,  \* bound: requests made
  MaxFaults     \* bound: streams that break, timers that race a result

ASSUME StressAssumption ==
  /\ Concurrency \in Nat \ {0} /\ BatchSize \in Nat \ {0} /\ Room \in Nat \ {0}
  /\ MaxRuns \in Nat /\ MaxRequests \in Nat /\ MaxFaults \in Nat

None == 0

Runs == 1 .. MaxRuns

VARIABLES
  eng,     \* StressEngine: running, and the runs e.cancel and e.done are of
  run,     \* per run, see NewRun
  stopper, \* per caller of Stop, the run it waits for, or None
  net,     \* the Router: see Init
  made, faults

vars == <<eng, run, stopper, net, made, faults>>

\* pc: off, gen, drain, load, end, flag, ended.
NewRun ==
  [pc |-> "off",
   ctx |-> FALSE,      \* cancel was called
   busy |-> 0,         \* generators inside EmulateGatewayFlow
   sent |-> 0,         \* drainInFlight's copy of reqSent
   expired |-> FALSE,  \* the drain window is over
   reporter |-> "off", \* run, end
   stop |-> FALSE]     \* the reporter's stop channel is closed

Init ==
  /\ eng = [running |-> FALSE, cancel |-> None, done |-> None]
  /\ run = [r \in Runs |-> NewRun]
  /\ stopper = [s \in Stoppers |-> None]
  /\ net = [queue |-> 0,      \* accepted, not sent
            wire |-> 0,       \* sent, not answered
            forgotten |-> 0,  \* of both, without a callback since a timeout
            batch |-> 0,      \* sent, not yet in reqSent
            sent |-> 0,       \* reqSent
            handled |-> 0,    \* respRecv + errCount
            extra |-> 0,      \* history: handled, but never in reqSent or twice
            stalled |-> FALSE] \* the peer does not read: Send of the stream waits
  /\ made = 0 /\ faults = 0

Active(r) == run[r].pc \in {"gen", "drain", "load", "end"}
-----------------------------------------------------------------------------
(* Start and Stop.                                                         *)

\* Mutant: a cancel function that is there is kept.
StartedKeeps(r) ==
  [running |-> TRUE, cancel |-> IF eng.cancel = None THEN r ELSE eng.cancel, done |-> r]

Started(r) == [running |-> TRUE, cancel |-> r, done |-> r]

Start(r) ==
  /\ run[r].pc = "off" /\ \A q \in 1 .. r - 1 : run[q].pc # "off"
  /\ ~eng.running
  /\ eng' = Started(r)
  /\ run' = [run EXCEPT ![r].pc = "gen", ![r].reporter = "run"]
  /\ UNCHANGED <<stopper, net, made, faults>>

\* cancel and done are taken under mu, and cancel is called.  (A run that
\* begins between the two has a cancel function of its own.)
Stop(s) ==
  /\ stopper[s] = None /\ eng.done # None
  /\ stopper' = [stopper EXCEPT ![s] = eng.done]
  /\ run' = [run EXCEPT ![eng.cancel].ctx = TRUE]
  /\ eng' = [eng EXCEPT !.cancel = None, !.done = None]
  /\ UNCHANGED <<net, made, faults>>

StopReturns(s) ==
  /\ stopper[s] # None /\ run[stopper[s]].pc = "ended"
  /\ stopper' = [stopper EXCEPT ![s] = None]
  /\ UNCHANGED <<eng, run, net, made, faults>>
-----------------------------------------------------------------------------
(* A run's goroutines.                                                     *)

\* A generator's ticker; select may prefer it to a context that is done.
Tick(r) ==
  /\ run[r].pc = "gen" /\ run[r].busy < Concurrency /\ made < MaxRequests
  /\ made' = made + 1
  /\ run' = [run EXCEPT ![r].busy = @ + 1]
  /\ UNCHANGED <<eng, stopper, net, faults>>

\* envelopeCh takes the envelope when it has room.
Accept ==
  /\ net.queue < Room
  /\ net' = [net EXCEPT !.queue = @ + 1]

\* An error of a request that is not in reqSent, or was counted before.
CountError == net' = [net EXCEPT !.handled = @ + 1, !.extra = @ + 1]

Enqueue(r) ==
  /\ run[r].busy > 0
  /\ run' = [run EXCEPT ![r].busy = @ - 1]
  /\ Accept
  /\ UNCHANGED <<eng, stopper, made, faults>>

\* The streamer has failed and FailAll has passed: the envelope stays in its
\* envelopeCh and the callback in its map, and nobody counts either.
EnqueueDead(r) ==
  /\ run[r].busy > 0 /\ faults > 0
  /\ run' = [run EXCEPT ![r].busy = @ - 1]
  /\ UNCHANGED <<eng, stopper, net, made, faults>>

\* handleExecute: a request from outside, at any time; its dispatch may fail.
Execute ==
  /\ made < MaxRequests
  /\ made' = made + 1
  /\ Accept \/ CountError
  /\ UNCHANGED <<eng, run, stopper, faults>>

\* No address, no connection or two dead streamers.
DispatchFails(r) ==
  /\ run[r].busy > 0
  /\ run' = [run EXCEPT ![r].busy = @ - 1]
  /\ CountError
  /\ UNCHANGED <<eng, stopper, made, faults>>

\* Mutant: the run counts as over before its drain.
GeneratedOver(e) == [e EXCEPT !.running = FALSE]

Generated(e) == e

\* The context is done, by cancel or by the duration, and wg.Wait returns.
GenerateEnds(r) ==
  /\ run[r].pc = "gen" /\ run[r].busy = 0
  /\ run' = [run EXCEPT ![r].pc = "drain"]
  /\ eng' = Generated(eng)
  /\ UNCHANGED <<stopper, net, made, faults>>

DrainLoad(r) ==
  /\ run[r].pc = "drain"
  /\ run' = [run EXCEPT ![r].pc = "load", ![r].sent = net.sent]
  /\ UNCHANGED <<eng, stopper, net, made, faults>>

\* Mutant: no deadline.
DrainOverNever(r) == net.handled >= run[r].sent

DrainOver(r) == net.handled >= run[r].sent \/ run[r].expired

\* currentTPS.Store(0) follows the end of the drain.
DrainTest(r) ==
  /\ run[r].pc = "load"
  /\ run' = [run EXCEPT ![r].pc = IF DrainOver(r) THEN "end" ELSE "drain",
                        ![r].sent = 0, ![r].expired = @ /\ ~DrainOver(r)]
  /\ UNCHANGED <<eng, stopper, net, made, faults>>

WindowEnds(r) ==
  /\ run[r].pc \in {"drain", "load"} /\ ~run[r].expired
  /\ run' = [run EXCEPT ![r].expired = TRUE]
  /\ UNCHANGED <<eng, stopper, net, made, faults>>

\* The deferred stopMetrics, and running.Store(false).
RunOver(r) ==
  /\ run[r].pc = "end"
  /\ run' = [run EXCEPT ![r].pc = "flag", ![r].stop = TRUE]
  /\ eng' = [eng EXCEPT !.running = FALSE]
  /\ UNCHANGED <<stopper, net, made, faults>>

\* close(done).
RunDone(r) ==
  /\ run[r].pc = "flag"
  /\ run' = [run EXCEPT ![r].pc = "ended"]
  /\ UNCHANGED <<eng, stopper, net, made, faults>>

ReporterEnds(r) ==
  /\ run[r].reporter = "run"
  /\ run[r].ctx \/ run[r].stop
  /\ run' = [run EXCEPT ![r].reporter = "end"]
  /\ UNCHANGED <<eng, stopper, net, made, faults>>
-----------------------------------------------------------------------------
(* The streamers' counting.                                                *)

\* Mutant: what is sent is the batch's capacity.
TakenAll(n) == BatchSize

Taken(n) == n

\* A full batch, or what the ticker finds.  Send waits for a peer that does not
\* read.
Send ==
  /\ net.batch = 0 /\ ~net.stalled
  /\ \E n \in 1 .. BatchSize :
       /\ n <= net.queue
       /\ net' = [net EXCEPT !.queue = @ - Taken(n), !.wire = @ + n, !.batch = n]
  /\ UNCHANGED <<eng, run, stopper, made, faults>>

\* The peer stops reading, and the stream's window is used up.
Stall ==
  /\ ~net.stalled
  /\ net' = [net EXCEPT !.stalled = TRUE]
  /\ UNCHANGED <<eng, run, stopper, made, faults>>

\* reqSent.Add, after Send has returned.
CountSent ==
  /\ net.batch > 0
  /\ net' = [net EXCEPT !.sent = @ + net.batch, !.batch = 0]
  /\ UNCHANGED <<eng, run, stopper, made, faults>>

\* A result arrives, in respRecv or errCount.  It is counted whether or not (f = 1) there is a callback.
Recv ==
  /\ net.wire > 0
  /\ \E f \in {0, 1} :
       /\ f <= net.forgotten /\ (f = 1 \/ net.forgotten < net.queue + net.wire)
       /\ net' = [net EXCEPT !.wire = @ - 1, !.forgotten = @ - f, !.handled = @ + 1]
  /\ UNCHANGED <<eng, run, stopper, made, faults>>

\* callbackTimeout for a request of handleExecute, ...
CallbackTimeout ==
  /\ net.forgotten < net.queue + net.wire
  /\ net' = [net EXCEPT !.forgotten = @ + 1, !.handled = @ + 1, !.extra = @ + 1]
  /\ UNCHANGED <<eng, run, stopper, made, faults>>

\* ... and for one that is counted elsewhere, too: its result has just arrived
\* and select takes the timer, or its streamer is not in the map and keeps the
\* callback.  (A FailAll between the counting of a result and its
\* LoadAndDelete counts a second time, too.)
TimeoutRace ==
  /\ made > 0 /\ faults < MaxFaults
  /\ faults' = faults + 1
  /\ CountError
  /\ UNCHANGED <<eng, run, stopper, made>>

\* Mutant: only callbacks with a respCh are counted.
FailedWaiting(q, w, f) == 0

\* Callbacks of a streamer with q requests queued and w on the wire, f of which
\* have timed out.
Failed(q, w, f) == q + w - f

\* A stream fails with its part of the queue and the wire.  FailAll counts
\* every callback that is left, those of generators that wait for room in
\* envelopeCh included.
FailAll(r) ==
  /\ faults < MaxFaults
  /\ faults' = faults + 1
  /\ \E q \in 0 .. net.queue, w \in 0 .. net.wire, f \in 0 .. net.forgotten,
        waiting \in 0 .. run[r].busy :
       /\ f <= q + w
       /\ net.forgotten - f <= (net.queue - q) + (net.wire - w)
       /\ net' = [net EXCEPT !.queue = @ - q, !.wire = @ - w, !.forgotten = @ - f,
                             !.handled = @ + Failed(q, w, f) + waiting,
                             !.extra = @ + q - f + waiting,
                             !.stalled = FALSE]
  /\ UNCHANGED <<eng, run, stopper, made>>
-----------------------------------------------------------------------------
RunNext(r) ==
  \/ Enqueue(r) \/ GenerateEnds(r) \/ DrainLoad(r)
  \/ DrainTest(r) \/ RunOver(r) \/ RunDone(r)

Next ==
  \/ \E r \in Runs :
       \/ Start(r) \/ Tick(r) \/ EnqueueDead(r) \/ DispatchFails(r)
       \/ RunNext(r) \/ WindowEnds(r) \/ ReporterEnds(r) \/ FailAll(r)
  \/ \E s \in Stoppers : Stop(s) \/ StopReturns(s)
  \/ Execute \/ Send \/ Stall \/ CountSent \/ Recv \/ CallbackTimeout \/ TimeoutRace

Spec == Init /\ [][Next]_vars

\* The duration and the drain window run out, the flusher sends unless the peer
\* has stopped reading, and goroutines that can run do.  Nobody has to answer a
\* request, to end a stall, to fail, to call Start or to call Stop.
Fairness ==
  /\ \A r \in Runs : WF_vars(RunNext(r)) /\ WF_vars(WindowEnds(r)) /\ WF_vars(ReporterEnds(r))
  /\ WF_vars(Send) /\ WF_vars(CountSent)

FairSpec == Spec /\ Fairness
-----------------------------------------------------------------------------
(* Properties.                                                             *)

EngType == [running : BOOLEAN, cancel : Runs \cup {None}, done : Runs \cup {None}]

RunType ==
  [pc : {"off", "gen", "drain", "load", "end", "flag", "ended"}, ctx : BOOLEAN,
   busy : 0 .. Concurrency, sent : Nat, expired : BOOLEAN,
   reporter : {"off", "run", "end"}, stop : BOOLEAN]

NetType ==
  [queue : Nat, wire : Nat, forgotten : Nat, batch : Nat, sent : Nat,
   handled : Nat, extra : Int, stalled : BOOLEAN]

\* Every variable keeps the type of the Go value it models; no counter is ever
\* negative, and no goroutine is counted out of a run twice.
TypeOK ==
  /\ eng \in EngType
  /\ run \in [Runs -> RunType]
  /\ stopper \in [Stoppers -> Runs \cup {None}]
  /\ net \in NetType
  /\ made \in Nat /\ faults \in Nat

\* At most one run generates load or waits for its requests, and running says
\* whether there is one, however Start, Stop and the end of a run interleave.
OneRun ==
  /\ \A q, r \in Runs : Active(q) /\ Active(r) => q = r
  /\ \A r \in Runs : Active(r) => eng.running

\* A run can be stopped until somebody has done so: its cancel function is the
\* engine's, also after earlier runs have ended by themselves or been stopped by
\* several callers at once.
Stoppable ==
  \A r \in Runs : Active(r) /\ ~run[r].ctx => eng.cancel = r /\ eng.done = r

\* Every request sent is in reqSent or about to be, and is counted as handled
\* once it is answered or failed; the rest of the handled ones are errors of
\* requests that were never sent or are counted twice.  So what drainInFlight
\* takes for unfinished, sent - handled, is never more than what is on the wire
\* of a stream that works: a drain does not wait for requests that a broken
\* stream, a timeout or an answer has settled.
Conserved ==
  /\ net.sent + net.batch + net.extra = net.handled + net.wire
  /\ net.sent - net.handled <= net.wire

\* A generator of the run waits for room in envelopeCh, which a peer that does
\* not read keeps full.
Blocked(r) == net.stalled /\ run[r].busy > 0

\* Every run ends, although requests may never be answered, whoever waits in
\* Stop is released, and no run leaves its metrics reporter behind; unless a
\* generator is blocked for good, which neither cancel nor the duration ends.
RunEnds ==
  \A r \in Runs :
    []<>~Blocked(r) => (Active(r) ~> run[r].pc = "ended" /\ run[r].reporter = "end")

=============================================================================
