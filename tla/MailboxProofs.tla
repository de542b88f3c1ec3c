---------------------------- MODULE MailboxProofs ----------------------------
(***************************************************************************)
(* Proofs about Mailbox, for any number of producers, envelopes and sends. *)
(***************************************************************************)
EXTENDS Mailbox, FiniteSetTheorems, SequenceTheorems, TLAPS

(***************************************************************************)
(* The inductive invariant.  An envelope is queued from its tail.Swap until *)
(* it goes back to the pool, also while the link to it is missing.          *)
(***************************************************************************)
Queued(n) == n \in Nodes \ pool /\ \A p \in Producers : ppc[p] = "swap" => env[p] # n

\* The envelopes of Sends before the swap are private, and no two Sends that
\* are not past their link share one.
Private ==
  /\ \A p \in Producers : ppc[p] \in {"swap", "link"} => env[p] \in Nodes \ pool
  /\ \A p, q \in Producers :
       p # q /\ ppc[p] \in {"swap", "link"} /\ ppc[q] \in {"swap", "link"} => env[p] # env[q]

\* Head and tail are queued, at the ends of the positions in use.
Ends ==
  /\ Queued(head) /\ Queued(tail)
  /\ pos[head] = Taken
  /\ pos[tail] = Len(order)

Placed ==
  /\ \A n \in Nodes : Queued(n) => pos[head] <= pos[n] /\ pos[n] <= Len(order)
  /\ \A n, m \in Nodes : Queued(n) /\ Queued(m) /\ pos[n] = pos[m] => n = m

\* Links lead from a queued envelope to the one at the next position.
Chained ==
  \A n \in Nodes : next[n] # Nil => Queued(n) /\ Queued(next[n]) /\ pos[next[n]] = pos[n] + 1

\* A Send between swap and link owns the gap behind its predecessor.
Linking ==
  \A p \in Producers : ppc[p] = "link" =>
    /\ Queued(env[p]) /\ prev[p] \in Nodes /\ Queued(prev[p])
    /\ pos[env[p]] = pos[prev[p]] + 1
    /\ next[prev[p]] = Nil

\* Only the tail and the predecessors of such Sends have no link.
Gaps ==
  \A n \in Nodes : Queued(n) /\ next[n] = Nil =>
    n = tail \/ \E p \in Producers : ppc[p] = "link" /\ prev[p] = n

Shape == Private /\ Ends /\ Placed /\ Chained /\ Linking /\ Gaps

\* How the status, the loop, Drain and the senders go together.
Control ==
  /\ IsDead <=> cpc = "done"
  /\ status = "init" => cpc = "none"
  /\ cpc = "exit" => status = "stopping"
  /\ dpc # "none" => IsDead
  /\ drained # <<>> => dpc # "none"
  /\ \A p \in Producers : ppc[p] # "idle" => sends[p] # 0

\* A queued envelope still to be taken holds the message of its position.
Contents ==
  \A n \in Nodes : Queued(n) /\ pos[n] > Len(out) + Len(drained) => msg[n] = order[pos[n]]

\* NoLostWakeup has to hold from the empty dequeue on.
Awake ==
  /\ cpc \in {"empty", "wait"} /\ next[head] # Nil =>
       wake = 1 \/ \E p \in Producers : ppc[p] = "wake"
  /\ cpc = "wait" /\ status = "stopping" => wake = 1 \/ stopWake

\* What was linked at the Stop lies in front of every gap, ...
Ahead ==
  /\ \A k \in linked : k <= Len(order)
  /\ \A k \in linked : \A p \in Producers : ppc[p] = "link" => k < pos[env[p]]

\* ... so a dequeue that finds nothing after the Stop has taken all of it.
Caught(n) == \A k \in linked : k <= n
Emptied ==
  /\ stopBusy /\ status = "stopping" /\ cpc \in {"empty", "exit"} => Caught(Len(out))
  /\ StopHandlesBacklog

\* Handle, and after it Drain, see each message once and in the order of the
\* tail.Swap calls, although links are stored late and envelopes are reused.
InOrder ==
  /\ Taken <= Len(order)
  /\ \A i \in DOMAIN out : out[i] = order[i]
  /\ \A i \in DOMAIN drained : drained[i] = order[Len(out) + i]

IInv == TypeOK /\ Shape /\ Control /\ Contents /\ InOrder /\ Awake /\ Ahead /\ Emptied
-----------------------------------------------------------------------------
(* Types.                                                                  *)

LEMMA TypeInit == Init => TypeOK
  <1> SUFFICES ASSUME Init PROVE TypeOK
    BY Zenon
  <1> USE NilAssumption, SendAssumption DEF Init
  <1>1. head \in Nodes /\ tail \in Nodes /\ pool \subseteq Nodes
    BY Zenon DEF New
  <1>2. ctxDone \in BOOLEAN /\ stopWake \in BOOLEAN /\ stopBusy \in BOOLEAN
    BY Zenon
  <1> QED BY <1>1, <1>2 DEF TypeOK

LEMMA TypeStep == TypeOK /\ Control /\ Private /\ Ends /\ [Next]_vars => TypeOK'
  <1> SUFFICES ASSUME TypeOK, Control, Private, Ends, [Next]_vars PROVE TypeOK'
    BY Zenon
  <1> USE NilAssumption, SendAssumption
  <1>1. ASSUME NEW p \in Producers, SendCheck(p) PROVE TypeOK'
    BY SMTT(40), <1>1 DEF SendCheck, Goto, TypeOK, queueVars, loopVars, history
  <1>2. ASSUME NEW p \in Producers, SendGet(p) PROVE TypeOK'
    <2>1. <<p, sends[p]>> \in Msg
      BY <1>2 DEF SendGet, TypeOK, Control, Msg
    <2> QED BY SMTT(40), <1>2, <2>1 DEF SendGet, Goto, TypeOK, loopVars, history
  <1>3. ASSUME NEW p \in Producers, SendSwap(p) PROVE TypeOK'
    <2>1. env[p] \in Nodes /\ msg[env[p]] \in Msg \cup {Nil}
      BY Zenon, <1>3 DEF SendSwap, Private, TypeOK
    <2> QED BY SMTT(40), <1>3, <2>1 DEF SendSwap, Goto, TypeOK, loopVars
  <1>4. ASSUME NEW p \in Producers, SendLink(p) PROVE TypeOK'
    BY ZenonT(40), <1>4 DEF SendLink, Goto, TypeOK, loopVars, history
  <1>5. ASSUME NEW p \in Producers, SendWake(p) PROVE TypeOK'
    <2>1. <<p, sends[p]>> \in Msg
      BY <1>5 DEF SendWake, TypeOK, Control, Msg
    <2>2. returned' \subseteq Msg
      BY Zenon, <1>5, <2>1 DEF SendWake, TypeOK
    <2>3. wake' \in 0 .. 1
      BY <1>5 DEF SendWake
    <2> QED BY ZenonT(40), <1>5, <2>2, <2>3 DEF SendWake, Goto, TypeOK, queueVars
  <1>6. CASE Start
    BY Zenon, <1>6 DEF Start, TypeOK, queueVars, senderVars, history
  <1>7. CASE Stop
    BY <1>7 DEF Stop, Reachable, TypeOK, queueVars, senderVars
  <1>8. CASE StopWake \/ Cancel \/ DrainStart
    <2>1. CASE StopWake
      <3>1. wake' \in 0 .. 1
        BY <2>1 DEF StopWake
      <3> QED BY ZenonT(40), <2>1, <3>1 DEF StopWake, TypeOK, queueVars, senderVars, history
    <2>2. CASE Cancel
      BY ZenonT(40), <2>2 DEF Cancel, TypeOK, queueVars, senderVars, history
    <2>3. CASE DrainStart
      BY ZenonT(40), <2>3 DEF DrainStart, TypeOK, queueVars, senderVars, history
    <2> QED BY Zenon, <1>8, <2>1, <2>2, <2>3
  <1>9. CASE Dequeue
    <2>1. CASE next[head] = Nil
      BY Zenon, <1>9, <2>1 DEF Dequeue, TypeOK, senderVars, history
    <2>2. CASE next[head] # Nil
      <3>1. head' \in Nodes /\ pool' \subseteq Nodes /\ pending' \in Int
        BY <1>9, <2>2 DEF Dequeue, PutEnvelope, TypeOK
      <3>2. next' \in [Nodes -> Nodes \cup {Nil}] /\ msg' \in [Nodes -> Msg \cup {Nil}]
        BY Zenon, <1>9, <2>2 DEF Dequeue, PutEnvelope, TypeOK
      <3> QED BY Zenon, <1>9, <2>2, <3>1, <3>2 DEF Dequeue, TypeOK, senderVars, history
    <2> QED BY Zenon, <2>1, <2>2
  <1>10. CASE Handle
    BY <1>10 DEF Handle, TypeOK, senderVars
  <1>11. CASE LoopEmpty \/ LoopWake \/ LoopExit
    <2>1. CASE LoopEmpty
      BY Zenon, <2>1 DEF LoopEmpty, TypeOK, queueVars, senderVars, history
    <2>2. CASE LoopWake
      BY <2>2 DEF LoopWake, TypeOK, queueVars, senderVars, history
    <2>3. CASE LoopExit
      BY Zenon, <2>3 DEF LoopExit, TypeOK, queueVars, senderVars, history
    <2> QED BY Zenon, <1>11, <2>1, <2>2, <2>3
  <1>12. CASE Drain
    <2>1. CASE next[head] = Nil
      BY ZenonT(40), <1>12, <2>1 DEF Drain, TypeOK, senderVars
    <2>2. CASE next[head] # Nil
      <3>1. next[head] \in Nodes /\ msg[next[head]] \in Msg \cup {Nil}
        BY Zenon, <2>2 DEF TypeOK
      <3>2. head' \in Nodes /\ pool' \subseteq Nodes /\ pending' \in Int
        BY <1>12, <2>2, <3>1 DEF Drain, TypeOK
      <3>3. next' \in [Nodes -> Nodes \cup {Nil}] /\ msg' \in [Nodes -> Msg \cup {Nil}]
        <4>1. next' = [next EXCEPT ![head] = Nil]
          BY Zenon, <1>12, <2>2 DEF Drain
        <4>2. msg' = [[msg EXCEPT ![head] = Nil] EXCEPT ![next[head]] = Nil]
          BY Zenon, <1>12, <2>2 DEF Drain
        <4> QED BY Zenon, <4>1, <4>2, <3>1 DEF TypeOK
      <3>4. drained' \in Seq(Msg \cup {Nil})
        <4>1. drained' = Append(drained, msg[next[head]])
          BY Zenon, <1>12, <2>2 DEF Drain
        <4>2. drained \in Seq(Msg \cup {Nil})
          BY Zenon DEF TypeOK
        <4> QED BY <4>1, <4>2, <3>1
      <3> QED BY Zenon, <1>12, <2>2, <3>2, <3>3, <3>4 DEF Drain, TypeOK, senderVars
    <2> QED BY Zenon, <2>1, <2>2
  <1>13. CASE UNCHANGED vars
    BY ZenonT(40), <1>13 DEF vars, queueVars, senderVars, loopVars, history, TypeOK
  <1> QED
    BY Zenon, <1>1, <1>2, <1>3, <1>4, <1>5, <1>6, <1>7, <1>8, <1>9, <1>10, <1>11, <1>12, <1>13
    DEF Next, SendNext, Loop
-----------------------------------------------------------------------------
(* Control.                                                                *)

LEMMA ControlStep == TypeOK /\ Control /\ [Next]_vars => Control'
  <1> SUFFICES ASSUME TypeOK, Control, [Next]_vars PROVE Control'
    BY Zenon
  <1> USE DEF Control, IsDead
  <1>1. ASSUME NEW p \in Producers, SendNext(p) PROVE Control'
    <2>1. UNCHANGED <<status, cpc, dpc, drained>>
      BY Zenon, <1>1 DEF SendNext, SendCheck, SendGet, SendSwap, SendLink, SendWake, loopVars, history
    <2>2. \A q \in Producers : ppc'[q] # "idle" => sends'[q] # 0
      <3>1. CASE SendCheck(p)
        BY <3>1 DEF SendCheck, Goto, TypeOK
      <3>2. CASE SendGet(p) \/ SendSwap(p) \/ SendLink(p) \/ SendWake(p)
        BY Zenon, <3>2 DEF SendGet, SendSwap, SendLink, SendWake, Goto, TypeOK
      <3> QED BY Zenon, <1>1, <3>1, <3>2 DEF SendNext
    <2> QED BY Zenon, <2>1, <2>2
  <1>2. CASE Start \/ Stop \/ StopWake \/ Cancel \/ DrainStart
    BY Zenon, <1>2 DEF Start, Stop, Accepting, StopWake, Cancel, DrainStart, senderVars, history
  <1>3. CASE Loop
    BY Zenon, <1>3 DEF Loop, Dequeue, Handle, LoopEmpty, LoopWake, LoopExit, senderVars, history
  <1>4. CASE Drain
    BY Zenon, <1>4 DEF Drain, senderVars
  <1>5. CASE UNCHANGED vars
    BY Zenon, <1>5 DEF vars, senderVars, loopVars, history
  <1> QED
    BY Zenon, <1>1, <1>2, <1>3, <1>4, <1>5 DEF Next
-----------------------------------------------------------------------------
(* The shape of the queue.                                                 *)

LEMMA ShapeInit == Init => Shape
  <1> SUFFICES ASSUME Init PROVE Shape
    BY Zenon
  <1> PICK dummy \in Nodes : head = dummy /\ tail = dummy /\ pool = Nodes \ {dummy}
    BY Zenon DEF Init, New
  <1>1. \A p \in Producers : ppc[p] = "idle"
    BY Zenon DEF Init
  <1>2. \A n \in Nodes : Queued(n) <=> n = dummy
    BY Zenon, <1>1 DEF Queued
  <1>3. Len(order) = 0 /\ Taken = 0 /\ \A n \in Nodes : pos[n] = 0 /\ next[n] = Nil
    BY DEF Init, Taken
  <1> QED BY <1>1, <1>2, <1>3 DEF Shape, Private, Ends, Placed, Chained, Linking, Gaps

\* Steps that leave the queue and the Sends in the middle of it alone.
LEMMA ShapeKept ==
  ASSUME TypeOK, Shape, UNCHANGED <<head, tail, next, pool, pos, order>>, Taken' = Taken,
         \A p \in Producers :
           /\ ppc'[p] \in {"swap", "link"} => ppc[p] = ppc'[p]
           /\ ppc[p] \in {"swap", "link"} =>
                ppc'[p] = ppc[p] /\ env'[p] = env[p] /\ prev'[p] = prev[p]
  PROVE  Shape'
  <1>1. \A n : Queued(n)' <=> Queued(n)
    BY Zenon DEF Queued
  <1>2. Private'
    BY Zenon DEF Shape, Private
  <1>3. Ends' /\ Placed' /\ Chained'
    BY Zenon, <1>1 DEF Shape, Ends, Placed, Chained, TypeOK
  <1>4. Linking'
    BY ZenonT(40), <1>1 DEF Shape, Linking, Private
  <1>5. Gaps'
    BY ZenonT(40), <1>1 DEF Shape, Gaps
  <1> QED BY Zenon, <1>2, <1>3, <1>4, <1>5 DEF Shape

LEMMA ShapeGet ==
  ASSUME TypeOK, Shape, NEW p \in Producers, SendGet(p)
  PROVE  Shape'
  <1> PICK n \in pool :
        /\ pool' = pool \ {n}
        /\ next' = [next EXCEPT ![n] = Nil]
        /\ env' = [env EXCEPT ![p] = n]
    BY Zenon DEF SendGet
  <1>1. /\ ppc' = [ppc EXCEPT ![p] = "swap"]
        /\ UNCHANGED <<head, tail, prev, pos, order, out, drained, cpc>>
        /\ ppc[p] = "get"
    BY Zenon DEF SendGet, Goto, loopVars, history
  <1>2. n \in Nodes /\ ~Queued(n) /\ next[n] = Nil
    BY Zenon, NilAssumption DEF TypeOK, Queued, Shape, Chained
  <1>3. next' = next
    BY Zenon, <1>2 DEF TypeOK
  <1>4. \A m : Queued(m)' <=> Queued(m)
    BY Zenon, <1>1 DEF Queued, TypeOK
  <1>5. Private'
    BY ZenonT(40), <1>1 DEF Shape, Private, TypeOK
  <1>6. Ends' /\ Placed' /\ Chained'
    BY Zenon, <1>1, <1>3, <1>4 DEF Shape, Ends, Placed, Chained, Taken, TypeOK
  <1>7. Linking'
    BY ZenonT(40), <1>1, <1>3, <1>4 DEF Shape, Linking, Private, TypeOK
  <1>8. Gaps'
    BY Zenon, <1>1, <1>3, <1>4 DEF Shape, Gaps, TypeOK
  <1> QED BY Zenon, <1>5, <1>6, <1>7, <1>8 DEF Shape

LEMMA ShapeSwap ==
  ASSUME TypeOK, Shape, NEW p \in Producers, SendSwap(p)
  PROVE  Shape'
  <1> DEFINE e == env[p]
  <1>1. /\ ppc' = [ppc EXCEPT ![p] = "link"]
        /\ prev' = [prev EXCEPT ![p] = tail]
        /\ tail' = e
        /\ pos' = [pos EXCEPT ![e] = Len(order) + 1]
        /\ UNCHANGED <<head, next, pool, env, out, drained, cpc>>
        /\ ppc[p] = "swap"
    BY Zenon DEF SendSwap, Goto, loopVars
  <1>2. Len(order) \in Nat /\ Len(order') = Len(order) + 1
    BY DEF SendSwap, TypeOK
  <1>3. e \in Nodes \ pool /\ ~Queued(e)
    BY Zenon, <1>1 DEF Shape, Private, Queued
  <1>4. next[e] = Nil
    BY Zenon, <1>3 DEF Shape, Chained
  <1>5. \A n : Queued(n)' <=> Queued(n) \/ n = e
    BY Zenon, <1>1, <1>3 DEF Queued, Shape, Private, TypeOK
  <1>6. \A n \in Nodes : n # e => pos'[n] = pos[n]
    BY Zenon, <1>1, <1>3 DEF TypeOK
  <1>7. pos'[e] = Len(order) + 1
    BY Zenon, <1>1, <1>3 DEF TypeOK
  <1>8. Private'
    BY Zenon, <1>1 DEF Shape, Private, TypeOK
  <1>9. Ends'
    BY Zenon, <1>1, <1>2, <1>3, <1>5, <1>6, <1>7 DEF Shape, Ends, Taken, TypeOK
  <1>10. Placed'
    BY SMTT(40), <1>1, <1>2, <1>3, <1>5, <1>6, <1>7 DEF Shape, Ends, Placed, TypeOK
  <1>11. Chained'
    BY ZenonT(40), <1>1, <1>3, <1>4, <1>5, <1>6 DEF Shape, Chained, TypeOK
  <1>12. Linking'
    BY <1>1, <1>2, <1>3, <1>4, <1>5, <1>6, <1>7 DEF Shape, Ends, Chained, Placed, Linking, TypeOK
  <1>13. Gaps'
    BY Zenon, <1>1, <1>3, <1>5 DEF Shape, Gaps, TypeOK
  <1> QED BY Zenon, <1>8, <1>9, <1>10, <1>11, <1>12, <1>13 DEF Shape

LEMMA ShapeLink ==
  ASSUME TypeOK, Shape, NEW p \in Producers, SendLink(p)
  PROVE  Shape'
  <1>1. /\ ppc' = [ppc EXCEPT ![p] = "wake"]
        /\ next' = [next EXCEPT ![prev[p]] = env[p]]
        /\ UNCHANGED <<head, tail, pool, env, prev, pos, order, out, drained, cpc>>
        /\ ppc[p] = "link"
    BY Zenon DEF SendLink, Goto, loopVars, history
  <1>2. /\ Queued(env[p]) /\ prev[p] \in Nodes /\ Queued(prev[p])
        /\ pos[env[p]] = pos[prev[p]] + 1
    BY Zenon, <1>1 DEF Shape, Linking
  <1>3. \A n : Queued(n)' <=> Queued(n)
    BY Zenon, <1>1 DEF Queued, TypeOK
  <1>4. \A n \in Nodes : next'[n] = IF n = prev[p] THEN env[p] ELSE next[n]
    BY Zenon, <1>1 DEF TypeOK
  <1>5. \A q \in Producers : ppc'[q] = "link" => ppc[q] = "link" /\ q # p /\ prev[q] # prev[p]
    <2> SUFFICES ASSUME NEW q \in Producers, ppc'[q] = "link" PROVE ppc[q] = "link" /\ q # p /\ prev[q] # prev[p]
      BY Zenon
    <2>1. ppc[q] = "link" /\ q # p
      BY Zenon, <1>1 DEF TypeOK
    <2>2. Queued(env[q]) /\ pos[env[q]] = pos[prev[q]] + 1
      BY Zenon, <2>1 DEF Shape, Linking
    <2>3. env[q] # env[p]
      BY Zenon, <1>1, <2>1 DEF Shape, Private
    <2>4. pos[env[q]] # pos[env[p]]
      BY Zenon, <1>2, <2>2, <2>3 DEF Shape, Placed, Queued
    <2> QED BY Zenon, <1>2, <2>1, <2>2, <2>4
  <1>6. Private'
    BY Zenon, <1>1 DEF Shape, Private, TypeOK
  <1>7. Ends' /\ Placed'
    BY Zenon, <1>1, <1>3 DEF Shape, Ends, Placed, Taken
  <1>8. Chained'
    BY ZenonT(40), <1>1, <1>2, <1>3, <1>4 DEF Shape, Chained
  <1>9. Linking'
    BY ZenonT(40), <1>1, <1>3, <1>4, <1>5 DEF Shape, Linking
  <1>10. Gaps'
    <2> SUFFICES ASSUME NEW n \in Nodes, Queued(n)', next'[n] = Nil
                 PROVE  n = tail' \/ \E q \in Producers : ppc'[q] = "link" /\ prev'[q] = n
      BY Zenon DEF Gaps
    <2>1. env[p] # Nil
      BY Zenon, <1>2, NilAssumption DEF Queued
    <2>2. n # prev[p] /\ next[n] = Nil /\ Queued(n)
      BY Zenon, <1>3, <1>4, <2>1
    <2>3. CASE n = tail
      BY Zenon, <1>1, <2>3
    <2>4. ASSUME NEW q \in Producers, ppc[q] = "link", prev[q] = n
          PROVE  ppc'[q] = "link" /\ prev'[q] = n
      BY Zenon, <1>1, <2>2, <2>4 DEF TypeOK
    <2> QED BY Zenon, <2>2, <2>3, <2>4 DEF Shape, Gaps
  <1> QED BY Zenon, <1>6, <1>7, <1>8, <1>9, <1>10 DEF Shape

\* What dequeue and Drain do to the queue when they find an envelope.
Take ==
  /\ next[head] # Nil
  /\ head' = next[head]
  /\ next' = [next EXCEPT ![head] = Nil]
  /\ pool' = pool \cup {head}
  /\ Taken' = Taken + 1
  /\ UNCHANGED <<tail, ppc, env, prev, pos, order>>

LEMMA Counts == TypeOK => Taken \in Nat /\ Len(order) \in Nat /\ Len(out) \in Nat /\ Len(drained) \in Nat
  BY DEF TypeOK, Taken

LEMMA ShapeTake ==
  ASSUME TypeOK, Shape, Take
  PROVE  Shape'
  <1>1. /\ head \in Nodes /\ next[head] \in Nodes
        /\ Queued(next[head]) /\ pos[next[head]] = pos[head] + 1
    BY Zenon DEF Shape, Take, Chained, TypeOK
  <1>2. Taken \in Nat /\ Len(order) \in Nat /\ \A n \in Nodes : pos[n] \in Nat
    BY Zenon, Counts DEF TypeOK
  <1>3. \A n : Queued(n)' <=> Queued(n) /\ n # head
    BY Zenon DEF Take, Queued
  <1>4. \A n \in Nodes : Queued(n) /\ n # head => pos[n] >= pos[head] + 1
    BY <1>1, <1>2 DEF Shape, Ends, Placed
  <1>5. \A n \in Nodes : next'[n] = IF n = head THEN Nil ELSE next[n]
    BY Zenon, <1>1 DEF Take, TypeOK
  <1>6. \A p \in Producers : ppc[p] = "link" => env[p] # head /\ prev[p] # head
    <2> SUFFICES ASSUME NEW p \in Producers, ppc[p] = "link" PROVE env[p] # head /\ prev[p] # head
      BY Zenon
    <2>1. /\ prev[p] \in Nodes /\ Queued(prev[p]) /\ next[prev[p]] = Nil
          /\ pos[env[p]] = pos[prev[p]] + 1
      BY Zenon DEF Shape, Linking
    <2>2. pos[prev[p]] >= pos[head]
      BY Zenon, <2>1 DEF Shape, Placed
    <2> QED BY <1>1, <1>2, <2>1, <2>2 DEF Take
  <1>7. Private'
    BY Zenon, <1>6 DEF Shape, Private, Ends, Queued, Take
  <1>8. Ends'
    <2>1. head # next[head] /\ tail # head
      BY <1>1, <1>2 DEF Shape, Ends, Placed
    <2> QED BY Zenon, <1>1, <1>2, <1>3, <2>1 DEF Take, Shape, Ends
  <1>9. Placed'
    BY Zenon, <1>1, <1>2, <1>3, <1>4 DEF Take, Shape, Placed
  <1>10. Chained'
    <2> SUFFICES ASSUME NEW n \in Nodes, next'[n] # Nil
                 PROVE  (Queued(n) /\ Queued(next[n]) /\ pos[next[n]] = pos[n] + 1)'
      BY Zenon DEF Chained
    <2>1. n # head /\ next'[n] = next[n] /\ next[n] # Nil
      BY Zenon, <1>5
    <2>2. Queued(n) /\ Queued(next[n]) /\ pos[next[n]] = pos[n] + 1
      BY Zenon, <2>1 DEF Shape, Chained
    <2>3. pos[n] >= pos[head]
      BY Zenon, <2>2 DEF Shape, Placed
    <2>4. next[n] # head
      BY <1>1, <1>2, <2>2, <2>3
    <2> QED BY <2>1, <2>2, <2>4 DEF Take, Queued
  <1>11. Linking'
    BY Zenon, <1>3, <1>5, <1>6 DEF Take, Shape, Linking
  <1>12. Gaps'
    BY Zenon, <1>3, <1>5 DEF Take, Shape, Gaps
  <1> QED BY Zenon, <1>7, <1>8, <1>9, <1>10, <1>11, <1>12 DEF Shape

LEMMA TakeSteps ==
  ASSUME TypeOK, Control, next[head] # Nil, Dequeue \/ Drain
  PROVE  Take
  <1>1. CASE Dequeue
    BY <1>1 DEF Dequeue, PutEnvelope, Take, Taken, senderVars, history, TypeOK
  <1>2. CASE Drain
    <2>1. cpc = "done" /\ cpc' = cpc
      BY Zenon, <1>2 DEF Drain, Control
    <2>2. Len(drained') = Len(drained) + 1 /\ Len(drained) \in Nat /\ Len(out) \in Nat
      BY <1>2 DEF Drain, TypeOK
    <2> QED BY <1>2, <2>1, <2>2 DEF Drain, Take, Taken, senderVars
  <1> QED BY Zenon, <1>1, <1>2

LEMMA ShapeStep == TypeOK /\ Control /\ Shape /\ [Next]_vars => Shape'
  <1> SUFFICES ASSUME TypeOK, Control, Shape, [Next]_vars PROVE Shape'
    BY Zenon
  <1>1. ASSUME NEW p \in Producers, SendNext(p) PROVE Shape'
    <2>1. CASE SendCheck(p)
      <3>1. UNCHANGED <<head, tail, next, pool, pos, order>> /\ Taken' = Taken
        BY Zenon, <2>1 DEF SendCheck, queueVars, loopVars, history, Taken
      <3>2. \A q \in Producers :
              /\ ppc'[q] \in {"swap", "link"} => ppc[q] = ppc'[q]
              /\ ppc[q] \in {"swap", "link"} =>
                   ppc'[q] = ppc[q] /\ env'[q] = env[q] /\ prev'[q] = prev[q]
        BY Zenon, <2>1 DEF SendCheck, Goto, TypeOK
      <3> QED BY Zenon, <3>1, <3>2, ShapeKept
    <2>2. CASE SendWake(p)
      <3>1. UNCHANGED <<head, tail, next, pool, pos, order>> /\ Taken' = Taken
        BY Zenon, <2>2 DEF SendWake, queueVars, Taken
      <3>2. \A q \in Producers :
              /\ ppc'[q] \in {"swap", "link"} => ppc[q] = ppc'[q]
              /\ ppc[q] \in {"swap", "link"} =>
                   ppc'[q] = ppc[q] /\ env'[q] = env[q] /\ prev'[q] = prev[q]
        BY Zenon, <2>2 DEF SendWake, Goto, TypeOK
      <3> QED BY Zenon, <3>1, <3>2, ShapeKept
    <2> QED BY Zenon, <1>1, <2>1, <2>2, ShapeGet, ShapeSwap, ShapeLink DEF SendNext
  <1>2. ASSUME UNCHANGED <<head, tail, next, pool, pos, order, ppc, env, prev>>, Taken' = Taken
        PROVE  Shape'
    BY Zenon, <1>2, ShapeKept
  <1>3. CASE Start \/ Stop \/ StopWake \/ Cancel \/ DrainStart
    <2>1. UNCHANGED <<head, tail, next, pool, pos, order, ppc, env, prev>>
      BY Zenon, <1>3 DEF Start, Stop, StopWake, Cancel, DrainStart, queueVars, senderVars, history
    <2>2. Taken' = Taken
      BY Zenon, <1>3 DEF Start, Stop, StopWake, Cancel, DrainStart, history, Taken, Control
    <2> QED BY Zenon, <1>2, <2>1, <2>2
  <1>4. CASE Dequeue \/ Drain
    <2>1. CASE next[head] = Nil
      <3>1. UNCHANGED <<head, tail, next, pool, pos, order, ppc, env, prev>>
        BY Zenon, <1>4, <2>1 DEF Dequeue, Drain, senderVars, history
      <3>2. Taken' = Taken
        BY Zenon, <1>4, <2>1 DEF Dequeue, Drain, history, Taken
      <3> QED BY Zenon, <1>2, <3>1, <3>2
    <2>2. CASE next[head] # Nil
      BY Zenon, <1>4, <2>2, TakeSteps, ShapeTake
    <2> QED BY Zenon, <2>1, <2>2
  <1>5. CASE Handle
    <2>1. UNCHANGED <<head, tail, next, pool, pos, order, ppc, env, prev, drained>>
      BY Zenon, <1>5 DEF Handle, senderVars
    <2>2. Len(out') = Len(out) + 1 /\ Len(out) \in Nat /\ Len(drained) \in Nat
      BY <1>5 DEF Handle, TypeOK
    <2>3. Taken' = Taken
      BY <1>5, <2>1, <2>2 DEF Handle, Taken
    <2> QED BY Zenon, <1>2, <2>1, <2>3
  <1>6. CASE LoopEmpty \/ LoopWake \/ LoopExit
    <2>1. UNCHANGED <<head, tail, next, pool, pos, order, ppc, env, prev>>
      BY Zenon, <1>6 DEF LoopEmpty, LoopWake, LoopExit, queueVars, senderVars, history
    <2>2. Taken' = Taken
      BY Zenon, <1>6 DEF LoopEmpty, LoopWake, LoopExit, history, Taken
    <2> QED BY Zenon, <1>2, <2>1, <2>2
  <1>7. CASE UNCHANGED vars
    BY Zenon, <1>2, <1>7 DEF vars, queueVars, senderVars, loopVars, history, Taken
  <1> QED BY Zenon, <1>1, <1>3, <1>4, <1>5, <1>6, <1>7 DEF Next, Loop
-----------------------------------------------------------------------------
(* What the envelopes hold, and the order in which it comes out.           *)

LEMMA ContentsKept ==
  ASSUME Contents, InOrder, UNCHANGED <<msg, pos, order, out, drained, Taken>>,
         \A n \in Nodes : Queued(n)' => Queued(n)
  PROVE  Contents' /\ InOrder'
  BY Zenon DEF Contents, InOrder

LEMMA ContentsStep ==
  TypeOK /\ Control /\ Shape /\ Contents /\ InOrder /\ [Next]_vars => Contents' /\ InOrder'
  <1> SUFFICES ASSUME TypeOK, Control, Shape, Contents, InOrder, [Next]_vars
               PROVE  Contents' /\ InOrder'
    BY Zenon
  <1>1. ASSUME NEW p \in Producers, SendCheck(p) \/ SendLink(p) \/ SendWake(p)
        PROVE  Contents' /\ InOrder'
    <2>1. UNCHANGED <<msg, pos, order, out, drained, Taken>>
      BY Zenon, <1>1 DEF SendCheck, SendLink, SendWake, queueVars, loopVars, history, Taken
    <2>2. \A n \in Nodes : Queued(n)' => Queued(n)
      BY Zenon, <1>1 DEF SendCheck, SendLink, SendWake, Goto, queueVars, Queued, TypeOK
    <2> QED BY Zenon, <2>1, <2>2, ContentsKept
  <1>2. ASSUME NEW p \in Producers, SendGet(p) PROVE Contents' /\ InOrder'
    <2> PICK n \in pool :
          /\ pool' = pool \ {n}
          /\ msg' = [msg EXCEPT ![n] = <<p, sends[p]>>]
          /\ env' = [env EXCEPT ![p] = n]
      BY Zenon, <1>2 DEF SendGet
    <2>1. /\ UNCHANGED <<pos, order, out, drained, Taken>>
          /\ ppc[p] = "get" /\ ppc' = [ppc EXCEPT ![p] = "swap"]
      BY Zenon, <1>2 DEF SendGet, Goto, loopVars, history, Taken
    <2>2. \A m \in Nodes : Queued(m)' => Queued(m) /\ m # n
      BY Zenon, <2>1 DEF Queued, TypeOK
    <2>3. \A m \in Nodes : m # n => msg'[m] = msg[m]
      BY Zenon DEF TypeOK
    <2> QED BY Zenon, <2>1, <2>2, <2>3 DEF Contents, InOrder
  <1>3. ASSUME NEW p \in Producers, SendSwap(p) PROVE Contents' /\ InOrder'
    <2> DEFINE e == env[p]
    <2>1. /\ ppc' = [ppc EXCEPT ![p] = "link"]
          /\ pos' = [pos EXCEPT ![e] = Len(order) + 1]
          /\ order' = Append(order, msg[e])
          /\ UNCHANGED <<msg, pool, env, out, drained, cpc, Taken>>
          /\ ppc[p] = "swap"
      BY Zenon, <1>3 DEF SendSwap, Goto, loopVars, Taken
    <2>2. e \in Nodes
      BY Zenon, <2>1 DEF Shape, Private
    <2>3. /\ Len(order') = Len(order) + 1
          /\ order'[Len(order) + 1] = msg[e]
          /\ \A i \in 1 .. Len(order) : order'[i] = order[i]
      BY <2>1, <2>2 DEF TypeOK
    <2>4. Contents'
      <3> SUFFICES ASSUME NEW n \in Nodes, Queued(n)', pos'[n] > Len(out) + Len(drained)
                   PROVE  msg[n] = order'[pos'[n]]
        BY Zenon, <2>1 DEF Contents
      <3>1. CASE n = e
        BY Zenon, <2>1, <2>2, <2>3, <3>1 DEF TypeOK
      <3>2. CASE n # e
        <4>1. pos'[n] = pos[n] /\ Queued(n)
          BY Zenon, <2>1, <3>2 DEF Queued, TypeOK
        <4>2. pos[n] \in 1 .. Len(order)
          BY <4>1, Counts DEF Shape, Placed, TypeOK
        <4> QED BY Zenon, <2>3, <4>1, <4>2 DEF Contents
      <3> QED BY Zenon, <3>1, <3>2
    <2>5. InOrder'
      <3>1. Taken' <= Len(order')
        BY <2>1, <2>3, Counts DEF InOrder
      <3>2. \A i \in DOMAIN out : i \in 1 .. Len(order)
        BY Counts DEF InOrder, Taken, TypeOK
      <3>3. \A i \in DOMAIN drained : Len(out) + i \in 1 .. Len(order)
        BY Counts DEF InOrder, Taken, TypeOK
      <3> QED BY Zenon, <2>1, <2>3, <3>1, <3>2, <3>3 DEF InOrder
    <2> QED BY Zenon, <2>4, <2>5
  <1>4. CASE Start \/ Stop \/ StopWake \/ Cancel \/ DrainStart \/ LoopEmpty \/ LoopWake \/ LoopExit
    <2>1. UNCHANGED <<msg, pos, order, out, drained, pool, ppc, env>>
      BY Zenon, <1>4 DEF Start, Stop, StopWake, Cancel, DrainStart, LoopEmpty, LoopWake, LoopExit,
                  queueVars, senderVars, history
    <2>2. Taken' = Taken
      BY Zenon, <1>4 DEF Start, Stop, StopWake, Cancel, DrainStart, LoopEmpty, LoopWake, LoopExit,
                  history, Taken, Control
    <2> QED BY Zenon, <2>1, <2>2, ContentsKept DEF Queued
  <1>5. CASE (Dequeue \/ Drain) /\ next[head] = Nil
    <2>1. UNCHANGED <<msg, pos, order, out, drained, pool, ppc, env>>
      BY Zenon, <1>5 DEF Dequeue, Drain, senderVars, history
    <2>2. Taken' = Taken
      BY Zenon, <1>5, <2>1 DEF Dequeue, Drain, Taken
    <2> QED BY Zenon, <2>1, <2>2, ContentsKept DEF Queued
  <1>6. CASE Dequeue /\ next[head] # Nil
    <2>1. Take
      BY Zenon, <1>6, TakeSteps
    <2>2. msg' = [msg EXCEPT ![head] = Nil] /\ UNCHANGED <<out, drained>>
      BY Zenon, <1>6 DEF Dequeue, PutEnvelope, history
    <2>3. \A n \in Nodes : Queued(n)' => Queued(n) /\ n # head
      BY Zenon, <2>1 DEF Take, Queued
    <2>4. Contents'
      BY Zenon, <2>1, <2>2, <2>3 DEF Take, Contents, TypeOK
    <2>5. Taken' <= Len(order)
      BY <2>1, Counts DEF Take, Shape, Ends, Placed, Chained, TypeOK
    <2> QED BY Zenon, <2>1, <2>2, <2>4, <2>5 DEF Take, InOrder
  <1>7. CASE Handle
    <2>1. /\ out' = Append(out, msg[head]) /\ msg' = [msg EXCEPT ![head] = Nil]
          /\ UNCHANGED <<order, pos, drained, pool, ppc, env>>
          /\ cpc = "handle" /\ cpc' = "dequeue"
      BY Zenon, <1>7 DEF Handle, senderVars
    <2>2. drained = <<>>
      BY Zenon, <2>1 DEF Control
    <2>3. /\ Len(out) \in Nat /\ Len(drained) = 0
          /\ Len(out') = Len(out) + 1
          /\ out'[Len(out) + 1] = msg[head]
          /\ \A i \in 1 .. Len(out) : out'[i] = out[i]
      BY <2>1, <2>2 DEF TypeOK
    <2>4. pos[head] = Len(out) + 1 /\ Queued(head) /\ Taken = Len(out) + 1
      BY <2>1, <2>3 DEF Shape, Ends, Taken
    <2>5. msg[head] = order[Len(out) + 1]
      BY <2>3, <2>4 DEF Contents, TypeOK
    <2>6. Contents'
      <3> SUFFICES ASSUME NEW n \in Nodes, Queued(n), pos[n] > Len(out) + 1
                   PROVE  msg'[n] = order[pos[n]]
        BY <2>1, <2>3 DEF Contents, Queued
      <3>1. n # head /\ msg'[n] = msg[n]
        BY <2>1, <2>3, <2>4 DEF TypeOK
      <3> QED BY <2>3, <3>1 DEF Contents, TypeOK
    <2>7. Taken' = Taken
      BY <2>1, <2>3 DEF Taken
    <2>8. \A i \in DOMAIN out' : out'[i] = order[i]
      <3>1. DOMAIN out' = 1 .. Len(out) + 1 /\ DOMAIN out = 1 .. Len(out)
        BY <2>1 DEF TypeOK
      <3> QED BY <2>3, <2>5, <3>1 DEF InOrder
    <2> QED BY <2>1, <2>2, <2>6, <2>7, <2>8 DEF InOrder
  <1>8. CASE Drain /\ next[head] # Nil
    <2> DEFINE h == next[head]
    <2>1. Take
      BY Zenon, <1>8, TakeSteps
    <2>2. /\ msg' = [[msg EXCEPT ![head] = Nil] EXCEPT ![h] = Nil]
          /\ drained' = Append(drained, msg[h])
          /\ UNCHANGED <<out, cpc>>
      BY Zenon, <1>8 DEF Drain
    <2>3. Taken = Len(out) + Len(drained) /\ Len(out) \in Nat /\ Len(drained) \in Nat
      BY <1>8 DEF Drain, Control, Taken, TypeOK
    <2>4. h \in Nodes /\ Queued(h) /\ pos[h] = Taken + 1 /\ pos[h] <= Len(order)
      BY ZenonT(40), <2>1 DEF Take, Shape, Ends, Placed, Chained, TypeOK
    <2>5. msg[h] = order[Len(out) + Len(drained) + 1]
      BY <2>3, <2>4 DEF Contents
    <2>6. /\ Len(drained') = Len(drained) + 1
          /\ drained'[Len(drained) + 1] = msg[h]
          /\ \A i \in 1 .. Len(drained) : drained'[i] = drained[i]
          /\ DOMAIN drained' = 1 .. Len(drained) + 1 /\ DOMAIN drained = 1 .. Len(drained)
      BY <2>2, <2>4 DEF TypeOK
    <2>7. Contents'
      <3> SUFFICES ASSUME NEW n \in Nodes, Queued(n)', pos[n] > Len(out) + Len(drained) + 1
                   PROVE  msg'[n] = order[pos[n]]
        <4>1. Len(out') + Len(drained') = Len(out) + Len(drained) + 1
          BY <2>2, <2>3, <2>6
        <4>2. pos' = pos /\ order' = order
          BY Zenon, <2>1 DEF Take
        <4> QED BY Zenon, <4>1, <4>2 DEF Contents
      <3>1. Queued(n) /\ n # head
        BY Zenon, <2>1 DEF Take, Queued
      <3>2. n # h
        BY <2>3, <2>4
      <3>3. msg'[n] = msg[n]
        BY Zenon, <2>2, <3>1, <3>2 DEF TypeOK
      <3> QED BY <2>3, <3>1, <3>3 DEF Contents, TypeOK
    <2>8. Taken' <= Len(order)
      BY Zenon, <2>1, <2>4 DEF Take
    <2>9. \A i \in DOMAIN drained' : drained'[i] = order[Len(out) + i]
      <3> SUFFICES ASSUME NEW i \in DOMAIN drained' PROVE drained'[i] = order[Len(out) + i]
        BY Zenon
      <3>1. i \in 1 .. Len(drained) \/ i = Len(drained) + 1
        BY <2>3, <2>6
      <3>2. CASE i \in 1 .. Len(drained)
        BY Zenon, <2>6, <3>2 DEF InOrder
      <3>3. CASE i = Len(drained) + 1
        <4>1. Len(out) + i = Len(out) + Len(drained) + 1
          BY <2>3, <3>3
        <4> QED BY Zenon, <2>5, <2>6, <3>3, <4>1
      <3> QED BY Zenon, <3>1, <3>2, <3>3
    <2> QED BY Zenon, <2>1, <2>2, <2>7, <2>8, <2>9 DEF Take, InOrder
  <1>9. CASE UNCHANGED vars
    BY Zenon, <1>9, ContentsKept DEF vars, queueVars, senderVars, loopVars, history, Taken, Queued
  <1> QED BY Zenon, <1>1, <1>2, <1>3, <1>4, <1>5, <1>6, <1>7, <1>8, <1>9 DEF Next, SendNext, Loop
-----------------------------------------------------------------------------
(* The wake channel.                                                       *)

LEMMA AwakeStep == TypeOK /\ Control /\ Shape /\ Awake /\ [Next]_vars => Awake'
  <1> SUFFICES ASSUME TypeOK, Control, Shape, Awake, [Next]_vars PROVE Awake'
    BY Zenon
  <1>1. ASSUME NEW p \in Producers, SendCheck(p) PROVE Awake'
    BY Zenon, <1>1 DEF SendCheck, Goto, queueVars, loopVars, Awake, TypeOK
  <1>2. ASSUME NEW p \in Producers, SendGet(p) PROVE Awake'
    <2>1. next'[head] # Nil => next[head] # Nil
      BY Zenon, <1>2 DEF SendGet, TypeOK
    <2>2. \A q \in Producers : ppc[q] = "wake" => ppc'[q] = "wake"
      BY Zenon, <1>2 DEF SendGet, Goto, TypeOK
    <2> QED BY Zenon, <1>2, <2>1, <2>2 DEF SendGet, loopVars, Awake
  <1>3. ASSUME NEW p \in Producers, SendSwap(p) PROVE Awake'
    BY Zenon, <1>3 DEF SendSwap, Goto, loopVars, Awake, TypeOK
  <1>4. ASSUME NEW p \in Producers, SendLink(p) PROVE Awake'
    BY Zenon, <1>4 DEF SendLink, Goto, loopVars, Awake, TypeOK
  <1>5. ASSUME NEW p \in Producers, SendWake(p) PROVE Awake'
    BY Zenon, <1>5 DEF SendWake, Awake
  <1>6. CASE Start \/ Stop \/ StopWake \/ Cancel \/ DrainStart
    BY Zenon, <1>6 DEF Start, Stop, StopWake, Cancel, DrainStart, queueVars, senderVars, Awake
  <1>7. CASE Dequeue \/ Handle
    BY Zenon, <1>7 DEF Dequeue, Handle, Awake
  <1>8. CASE LoopEmpty \/ LoopWake \/ LoopExit
    BY Zenon, <1>8 DEF LoopEmpty, LoopWake, LoopExit, queueVars, senderVars, Awake
  <1>9. CASE Drain
    BY Zenon, <1>9 DEF Drain, Control, Awake
  <1>10. CASE UNCHANGED vars
    BY Zenon, <1>10 DEF vars, queueVars, senderVars, loopVars, Awake
  <1> QED
    BY Zenon, <1>1, <1>2, <1>3, <1>4, <1>5, <1>6, <1>7, <1>8, <1>9, <1>10 DEF Next, SendNext, Loop
-----------------------------------------------------------------------------
(* Stop and the backlog.                                                   *)

LEMMA AheadStep == TypeOK /\ Control /\ Shape /\ Ahead /\ [Next]_vars => Ahead'
  <1> SUFFICES ASSUME TypeOK, Control, Shape, Ahead, [Next]_vars PROVE Ahead'
    BY Zenon
  <1>1. ASSUME UNCHANGED <<order, pos, linked>>,
               \A q \in Producers : ppc'[q] = "link" => ppc[q] = "link" /\ env'[q] = env[q]
        PROVE  Ahead'
    BY Zenon, <1>1 DEF Ahead
  <1>2. ASSUME NEW p \in Producers, SendCheck(p) \/ SendGet(p) \/ SendLink(p) \/ SendWake(p)
        PROVE  Ahead'
    <2>1. UNCHANGED <<order, pos, linked>>
      BY Zenon, <1>2 DEF SendCheck, SendGet, SendLink, SendWake, history
    <2>2. \A q \in Producers : ppc'[q] = "link" => ppc[q] = "link" /\ env'[q] = env[q]
      BY Zenon, <1>2 DEF SendCheck, SendGet, SendLink, SendWake, Goto, TypeOK
    <2> QED BY Zenon, <1>1, <2>1, <2>2
  <1>3. ASSUME NEW p \in Producers, SendSwap(p) PROVE Ahead'
    <2>1. /\ ppc' = [ppc EXCEPT ![p] = "link"]
          /\ pos' = [pos EXCEPT ![env[p]] = Len(order) + 1]
          /\ UNCHANGED <<env, linked>>
          /\ ppc[p] = "swap"
      BY Zenon, <1>3 DEF SendSwap, Goto
    <2>2. Len(order') = Len(order) + 1 /\ Len(order) \in Nat
      BY <1>3 DEF SendSwap, TypeOK
    <2>3. env[p] \in Nodes /\ pos'[env[p]] = Len(order) + 1
      BY Zenon, <2>1 DEF Shape, Private, TypeOK
    <2>4. \A q \in Producers : q # p /\ ppc[q] = "link" => pos'[env[q]] = pos[env[q]]
      <3> SUFFICES ASSUME NEW q \in Producers, q # p, ppc[q] = "link"
                   PROVE  pos'[env[q]] = pos[env[q]]
        BY Zenon
      <3>1. env[q] \in Nodes /\ env[q] # env[p]
        BY Zenon, <2>1 DEF Shape, Private
      <3> QED BY Zenon, <2>1, <3>1 DEF TypeOK
    <2>5. \A k \in linked : k \in Nat /\ k <= Len(order)
      BY Zenon DEF Ahead, TypeOK
    <2>6. \A q \in Producers : q # p => ppc'[q] = ppc[q]
      BY Zenon, <2>1 DEF TypeOK
    <2> QED BY <2>1, <2>2, <2>3, <2>4, <2>5, <2>6 DEF Ahead
  <1>4. CASE Stop
    BY <1>4 DEF Stop, Reachable, senderVars, Ahead, TypeOK
  <1>5. CASE Start \/ StopWake \/ Cancel \/ DrainStart
    BY Zenon, <1>1, <1>5 DEF Start, StopWake, Cancel, DrainStart, senderVars, history
  <1>6. CASE Loop
    BY Zenon, <1>1, <1>6 DEF Loop, Dequeue, Handle, LoopEmpty, LoopWake, LoopExit, senderVars, history
  <1>7. CASE Drain
    BY Zenon, <1>1, <1>7 DEF Drain, senderVars
  <1>8. CASE UNCHANGED vars
    BY Zenon, <1>1, <1>8 DEF vars, senderVars, history
  <1> QED BY Zenon, <1>2, <1>3, <1>4, <1>5, <1>6, <1>7, <1>8 DEF Next, SendNext

\* A dequeue finds nothing only behind everything that was linked at the Stop.
LEMMA EmptyCaught ==
  ASSUME TypeOK, Shape, Ahead, next[head] = Nil
  PROVE  Caught(Taken)
  <1> SUFFICES ASSUME NEW k \in linked PROVE k <= Taken
    BY Zenon DEF Caught
  <1>1. k \in Nat /\ Taken \in Nat /\ Len(order) \in Nat
    BY Zenon, Counts DEF TypeOK
  <1>2. head = tail \/ \E p \in Producers : ppc[p] = "link" /\ prev[p] = head
    BY Zenon DEF Shape, Ends, Gaps, TypeOK
  <1>3. CASE head = tail
    BY Zenon, <1>3 DEF Shape, Ends, Ahead
  <1>4. ASSUME NEW p \in Producers, ppc[p] = "link", prev[p] = head PROVE k <= Taken
    <2>1. k < pos[env[p]] /\ pos[env[p]] = Taken + 1
      BY Zenon, <1>4 DEF Shape, Ends, Linking, Ahead
    <2> QED BY <1>1, <2>1
  <1> QED BY Zenon, <1>2, <1>3, <1>4

LEMMA EmptiedStep ==
  TypeOK /\ Control /\ Shape /\ Ahead /\ Emptied /\ [Next]_vars => Emptied'
  <1> SUFFICES ASSUME TypeOK, Control, Shape, Ahead, Emptied, [Next]_vars PROVE Emptied'
    BY Zenon
  <1> USE DEF Emptied, StopHandlesBacklog, Caught, IsDead
  <1>1. ASSUME NEW p \in Producers, SendNext(p) PROVE Emptied'
    BY <1>1 DEF SendNext, SendCheck, SendGet, SendSwap, SendLink, SendWake, loopVars, history
  <1>2. CASE Start \/ StopWake \/ Cancel \/ DrainStart
    BY <1>2 DEF Start, StopWake, Cancel, DrainStart, history
  <1>3. CASE Stop
    BY Zenon, <1>3 DEF Stop, Accepting, Control
  <1>4. CASE Dequeue
    <2>1. cpc = "dequeue" /\ UNCHANGED <<status, ctxDone, dpc, out, drained, linked, stopBusy>>
      BY Zenon, <1>4 DEF Dequeue, history
    <2>2. status # "dead" /\ dpc = "none" /\ drained = <<>>
      BY Zenon, <2>1 DEF Control, TypeOK
    <2>3. next[head] = Nil => \A k \in linked : k <= Len(out)
      BY <2>1, <2>2, EmptyCaught DEF Taken, TypeOK
    <2>4. cpc' \in {"empty", "exit"} => next[head] = Nil
      BY Zenon, <1>4 DEF Dequeue
    <2> QED BY Zenon, <2>1, <2>2, <2>3, <2>4
  <1>5. CASE Handle
    <2>1. /\ cpc = "handle" /\ cpc' = "dequeue"
          /\ UNCHANGED <<status, dpc>>
      BY Zenon, <1>5 DEF Handle
    <2>2. status # "dead" /\ dpc = "none"
      BY Zenon, <2>1 DEF Control
    <2> QED BY Zenon, <2>1, <2>2
  <1>6. CASE LoopEmpty \/ LoopWake \/ LoopExit
    BY <1>6 DEF LoopEmpty, LoopWake, LoopExit, Control, history
  <1>7. CASE Drain
    <2>1. cpc = "done" /\ UNCHANGED <<status, cpc, ctxDone, out, linked, stopBusy>>
      BY Zenon, <1>7 DEF Drain, Control
    <2>2. dpc' = "done" => next[head] = Nil /\ drained' = drained
      BY Zenon, <1>7 DEF Drain
    <2>3. next[head] = Nil => \A k \in linked : k <= Len(out) + Len(drained)
      BY SMTT(40), <2>1, EmptyCaught DEF Taken, TypeOK
    <2> QED BY Zenon, <2>1, <2>2, <2>3
  <1>8. CASE UNCHANGED vars
    BY Zenon, <1>8 DEF vars, loopVars, history
  <1> QED BY Zenon, <1>1, <1>2, <1>3, <1>4, <1>5, <1>6, <1>7, <1>8 DEF Next, Loop
-----------------------------------------------------------------------------
(* The theorems.                                                           *)

LEMMA Inductive == Spec => []IInv
  <1>1. Init => IInv
    <2> SUFFICES ASSUME Init PROVE IInv
      BY Zenon
    <2>1. Control
      BY Zenon DEF Init, Control, IsDead
    <2>2. Contents /\ InOrder
      BY DEF Init, Contents, InOrder, Taken
    <2>3. Awake /\ Ahead /\ Emptied
      BY Zenon DEF Init, Awake, Ahead, Emptied, StopHandlesBacklog, IsDead
    <2> QED BY Zenon, <2>1, <2>2, <2>3, TypeInit, ShapeInit DEF IInv
  <1>2. IInv /\ [Next]_vars => IInv'
    <2> SUFFICES ASSUME IInv, [Next]_vars PROVE IInv'
      BY Zenon
    <2>1. TypeOK'
      BY Zenon, TypeStep DEF IInv, Shape
    <2>2. Control' /\ Shape'
      BY Zenon, ControlStep, ShapeStep DEF IInv
    <2>3. Contents' /\ InOrder'
      BY Zenon, ContentsStep DEF IInv
    <2>4. Awake' /\ Ahead' /\ Emptied'
      BY Zenon, AwakeStep, AheadStep, EmptiedStep DEF IInv
    <2> QED BY Zenon, <2>1, <2>2, <2>3, <2>4 DEF IInv
  <1> QED BY <1>1, <1>2, PTL DEF Spec

\* The fields and channels of an Actor keep their types, for any number of
\* senders, envelopes and calls.
THEOREM TypeCorrect == Spec => []TypeOK
  <1>1. IInv => TypeOK
    BY Zenon DEF IInv
  <1> QED BY <1>1, Inductive, PTL

\* dequeue and Drain take the messages out in the order of the tail.Swap
\* calls, each of them once, however late the links are stored.
THEOREM FifoOrder == Spec => []InOrder
  <1>1. IInv => InOrder
    BY Zenon DEF IInv
  <1> QED BY <1>1, Inductive, PTL

\* The loop never sleeps on a message or on a Stop without a token to come.
THEOREM NoWakeupIsLost == Spec => []NoLostWakeup
  <1>1. IInv => NoLostWakeup
    BY Zenon DEF IInv, Awake, NoLostWakeup
  <1> QED BY <1>1, Inductive, PTL

\* PutEnvelope never gives away an envelope that the queue or a Send in
\* progress still refers to.
THEOREM RecyclingIsSafe == Spec => []RecycledUnused
  <1>1. IInv => RecycledUnused
    <2> SUFFICES ASSUME IInv, NEW n \in pool
                 PROVE  /\ n # head /\ n # tail
                        /\ \A m \in Nodes \ pool : next[m] # n
                        /\ \A p \in Producers : ppc[p] \in {"swap", "link"} => n # env[p]
                        /\ \A p \in Producers : ppc[p] = "link" => n # prev[p]
      BY Zenon DEF RecycledUnused
    <2>1. n \in Nodes /\ ~Queued(n) /\ n # Nil
      BY Zenon, NilAssumption DEF IInv, TypeOK, Queued
    <2> QED BY Zenon, <2>1 DEF IInv, Shape, Private, Ends, Chained, Linking
  <1> QED BY <1>1, Inductive, PTL

\* What the loop could reach when Stop was called is handled, or at least
\* returned by Drain, whatever Sends are still in progress.
THEOREM StopKeepsBacklog == Spec => []StopHandlesBacklog
  <1>1. IInv => StopHandlesBacklog
    BY Zenon DEF IInv, Emptied
  <1> QED BY <1>1, Inductive, PTL
-----------------------------------------------------------------------------
(* The counter of queued messages.                                         *)

\* The Sends that have counted their message and not swapped it in.
Swapping == {p \in Producers : ppc[p] = "swap"}

LEMMA SwappingFinite == IsFiniteSet(Swapping) /\ Cardinality(Swapping) \in Nat
  <1>1. Swapping \subseteq Producers
    BY Zenon DEF Swapping
  <1> QED BY Zenon, <1>1, SendAssumption, FS_Subset, FS_CardinalityType

LEMMA PendingKept ==
  ASSUME PendingExact, UNCHANGED <<pending, order, Taken, Swapping>>
  PROVE  PendingExact'
  BY Zenon DEF PendingExact, Swapping

LEMMA PendingStep ==
  ASSUME TypeOK, Control, PendingExact, [Next]_vars
  PROVE  PendingExact'
  <1>0. /\ Taken \in Nat /\ Len(order) \in Nat /\ pending \in Int
        /\ pending = Len(order) - Taken + Cardinality(Swapping)
    BY Zenon, Counts DEF TypeOK, PendingExact, Swapping
  <1>1. ASSUME NEW p \in Producers, SendCheck(p) \/ SendLink(p) \/ SendWake(p)
        PROVE  PendingExact'
    <2>1. UNCHANGED <<pending, order, out, drained, cpc>>
      BY Zenon, <1>1 DEF SendCheck, SendLink, SendWake, queueVars, loopVars, history
    <2>2. Swapping' = Swapping
      BY <1>1, SMTT(40) DEF SendCheck, SendLink, SendWake, Goto, Swapping, TypeOK
    <2> QED BY Zenon, <2>1, <2>2, PendingKept DEF Taken
  <1>2. ASSUME NEW p \in Producers, SendGet(p) PROVE PendingExact'
    <2>1. UNCHANGED <<order, Taken>> /\ pending' = pending + 1
      BY Zenon, <1>2 DEF SendGet, loopVars, history, Taken
    <2>2. p \notin Swapping /\ Swapping' = Swapping \cup {p}
      BY <1>2, SMTT(40) DEF SendGet, Goto, Swapping, TypeOK
    <2>3. Cardinality(Swapping') = Cardinality(Swapping) + 1
      BY Zenon, <2>2, SwappingFinite, FS_AddElement
    <2>4. pending' = Len(order) - Taken + Cardinality(Swapping')
      BY <1>0, <2>1, <2>3, SwappingFinite
    <2> QED BY Zenon, <2>1, <2>4 DEF PendingExact, Swapping
  <1>3. ASSUME NEW p \in Producers, SendSwap(p) PROVE PendingExact'
    <2>1. UNCHANGED <<pending, Taken>> /\ Len(order') = Len(order) + 1
      BY <1>3 DEF SendSwap, loopVars, Taken, TypeOK
    <2>2. p \in Swapping /\ Swapping' = Swapping \ {p}
      BY <1>3, SMTT(40) DEF SendSwap, Goto, Swapping, TypeOK
    <2>3. Cardinality(Swapping') = Cardinality(Swapping) - 1
      BY Zenon, <2>2, SwappingFinite, FS_RemoveElement
    <2>4. pending' = Len(order') - Taken + Cardinality(Swapping')
      BY <1>0, <2>1, <2>3, SwappingFinite
    <2> QED BY Zenon, <2>1, <2>4 DEF PendingExact, Swapping
  <1>4. CASE Dequeue \/ Drain
    <2>0. UNCHANGED <<order, ppc>>
      BY Zenon, <1>4 DEF Dequeue, Drain, senderVars, history
    <2>1. CASE next[head] = Nil
      <3>1. UNCHANGED <<pending, Taken>>
        BY Zenon, <1>4, <2>1 DEF Dequeue, Drain, history, Taken
      <3> QED BY Zenon, <2>0, <3>1, PendingKept DEF Swapping
    <2>2. CASE next[head] # Nil
      <3>1. Taken' = Taken + 1
        BY Zenon, <1>4, <2>2, TakeSteps DEF Take
      <3>2. pending' = pending - 1
        BY Zenon, <1>4, <2>2 DEF Dequeue, Drain
      <3>3. pending' = Len(order) - Taken' + Cardinality(Swapping)
        BY <1>0, <3>1, <3>2, SwappingFinite
      <3> QED BY Zenon, <2>0, <3>3 DEF PendingExact, Swapping
    <2> QED BY Zenon, <2>1, <2>2
  <1>5. CASE Handle
    <2>1. UNCHANGED <<pending, order, ppc, drained>> /\ cpc = "handle" /\ cpc' = "dequeue"
          /\ Len(out') = Len(out) + 1
      BY <1>5 DEF Handle, senderVars, TypeOK
    <2>2. Taken' = Taken
      BY <2>1, Counts DEF Taken
    <2> QED BY Zenon, <2>1, <2>2, PendingKept DEF Swapping
  <1>6. CASE Start \/ Stop \/ StopWake \/ Cancel \/ LoopEmpty \/ LoopWake \/ LoopExit
             \/ DrainStart \/ UNCHANGED vars
    <2>1. UNCHANGED <<pending, order, ppc, out, drained>>
      BY Zenon, <1>6 DEF Start, Stop, StopWake, Cancel, LoopEmpty, LoopWake, LoopExit, DrainStart,
         vars, queueVars, senderVars, history
    <2>2. (cpc' = "handle") = (cpc = "handle")
      BY Zenon, <1>6 DEF Start, Stop, StopWake, Cancel, LoopEmpty, LoopWake, LoopExit, DrainStart,
         vars, loopVars, Control
    <2> QED BY Zenon, <2>1, <2>2, PendingKept DEF Swapping, Taken
  <1> QED BY Zenon, <1>1, <1>2, <1>3, <1>4, <1>5, <1>6 DEF Next, SendNext, Loop

\* The number HandleBatch compares with the mailbox limit is exact: it counts
\* the queued messages and those of the Sends about to swap theirs in.
THEOREM PendingCounts == Spec => []PendingExact
  <1>1. Init => PendingExact
    <2> SUFFICES ASSUME Init PROVE PendingExact
      BY Zenon
    <2>1. {p \in Producers : ppc[p] = "swap"} = {}
      BY Zenon DEF Init
    <2>2. pending = 0 /\ Len(order) = 0 /\ Taken = 0
      BY DEF Init, Taken
    <2> QED BY <2>1, <2>2, FS_EmptySet DEF PendingExact
  <1>2. IInv /\ PendingExact /\ [Next]_vars => PendingExact'
    BY Zenon, PendingStep DEF IInv
  <1> QED BY <1>1, <1>2, Inductive, PTL DEF Spec
-----------------------------------------------------------------------------
(***************************************************************************)
(* Mailbox implements FifoMailbox.                                         *)
(***************************************************************************)

\* The abstract state.
APhase == IF Accepting THEN "open" ELSE IF IsDead THEN "dead" ELSE "stopping"
Within == {q \in Producers : ppc[q] \in {"get", "swap"}}
AInside == {<<p, sends[p]>> : p \in Within}
AQueue == SubSeq(order, Len(out) + Len(drained) + 1, Len(order))

\* The envelope of a Send before its swap holds the message of that Send.
Own == \A p \in Producers : ppc[p] = "swap" => msg[env[p]] = <<p, sends[p]>>

LEMMA OwnStep == IInv /\ Own /\ [Next]_vars => Own'
  <1> SUFFICES ASSUME IInv, Own, [Next]_vars PROVE Own'
    BY Zenon
  <1>0. /\ TypeOK /\ Private /\ Queued(head) /\ Chained
        /\ \A p \in Producers : ppc[p] = "swap" => env[p] # head /\ env[p] \in Nodes \ pool
    BY Zenon DEF IInv, Shape, Ends, Queued, Private
  <1>1. ASSUME NEW p \in Producers, SendGet(p) PROVE Own'
    BY <1>0, <1>1 DEF SendGet, Goto, Own, TypeOK
  <1>2. ASSUME NEW p \in Producers, SendCheck(p) \/ SendSwap(p) \/ SendLink(p) \/ SendWake(p)
        PROVE  Own'
    BY Zenon, <1>0, <1>2 DEF SendCheck, SendSwap, SendLink, SendWake, Goto, Own, TypeOK, queueVars
  <1>3. CASE Dequeue
    BY Zenon, <1>0, <1>3 DEF Dequeue, PutEnvelope, Own, TypeOK, senderVars
  <1>4. CASE Handle
    BY Zenon, <1>0, <1>4 DEF Handle, Own, TypeOK, senderVars
  <1>5. CASE Drain
    <2>1. next[head] # Nil => \A p \in Producers : ppc[p] = "swap" => env[p] # next[head]
      BY Zenon, <1>0 DEF Chained, Queued, TypeOK
    <2> QED BY Zenon, <1>0, <1>5, <2>1 DEF Drain, Own, TypeOK, senderVars
  <1>6. CASE Start \/ Stop \/ StopWake \/ Cancel \/ LoopEmpty \/ LoopWake \/ LoopExit
             \/ DrainStart \/ UNCHANGED vars
    BY Zenon, <1>6 DEF Start, Stop, StopWake, Cancel, LoopEmpty, LoopWake, LoopExit, DrainStart,
       vars, queueVars, senderVars, Own
  <1> QED BY Zenon, <1>1, <1>2, <1>3, <1>4, <1>5, <1>6 DEF Next, SendNext, Loop
-----------------------------------------------------------------------------
LEMMA QueueAppend ==
  ASSUME NEW S, NEW s \in Seq(S), NEW x \in S, NEW k \in 0 .. Len(s)
  PROVE  SubSeq(Append(s, x), k + 1, Len(Append(s, x))) = Append(SubSeq(s, k + 1, Len(s)), x)
  <1> DEFINE q == SubSeq(s, k + 1, Len(s))
             t == Append(s, x)
  <1>1. /\ t \in Seq(S) /\ Len(t) = Len(s) + 1
        /\ t[Len(s) + 1] = x /\ \A i \in 1 .. Len(s) : t[i] = s[i]
    BY AppendProperties
  <1>2. q \in Seq(S) /\ Len(q) = Len(s) - k /\ \A i \in 1 .. Len(s) - k : q[i] = s[k + i]
    BY SubSeqProperties
  <1>3. /\ SubSeq(t, k + 1, Len(t)) \in Seq(S)
        /\ Len(SubSeq(t, k + 1, Len(t))) = Len(s) + 1 - k
        /\ \A i \in 1 .. Len(s) + 1 - k : SubSeq(t, k + 1, Len(t))[i] = t[k + i]
    <2> HIDE DEF t
    <2>1. \A i \in k + 1 .. Len(t) : t[i] \in S
      BY <1>1
    <2>2. Len(t) \in Nat /\ Len(t) = Len(s) + 1 /\ k \in 0 .. Len(s) /\ Len(s) \in Nat
      BY <1>1
    <2>3. /\ SubSeq(t, k + 1, Len(t)) \in Seq(S)
          /\ Len(SubSeq(t, k + 1, Len(t))) = IF k + 1 <= Len(t) THEN Len(t) - (k + 1) + 1 ELSE 0
          /\ \A i \in 1 .. Len(t) - (k + 1) + 1 :
               SubSeq(t, k + 1, Len(t))[i] = t[(k + 1) + i - 1]
      BY SMTT(40), <2>1, <2>2, SubSeqProperties
    <2>4. \A i \in 1 .. Len(s) + 1 - k :
            i \in 1 .. Len(t) - (k + 1) + 1 /\ (k + 1) + i - 1 = k + i
      BY <2>2
    <2>5. k + 1 <= Len(t) /\ Len(t) - (k + 1) + 1 = Len(s) + 1 - k
      BY <2>2
    <2> QED BY Zenon, <2>3, <2>4, <2>5
  <1>4. /\ Append(q, x) \in Seq(S) /\ Len(Append(q, x)) = Len(s) - k + 1
        /\ Append(q, x)[Len(s) - k + 1] = x
        /\ \A i \in 1 .. Len(s) - k : Append(q, x)[i] = q[i]
    <2> HIDE DEF q
    <2> QED BY <1>2, AppendProperties
  <1> HIDE DEF q, t
  <1>5. \A i \in 1 .. Len(s) + 1 - k : SubSeq(t, k + 1, Len(t))[i] = Append(q, x)[i]
    <2> SUFFICES ASSUME NEW i \in 1 .. Len(s) + 1 - k
                 PROVE  SubSeq(t, k + 1, Len(t))[i] = Append(q, x)[i]
      BY Zenon
    <2>1. SubSeq(t, k + 1, Len(t))[i] = t[k + i]
      BY Zenon, <1>3
    <2>2. CASE i \in 1 .. Len(s) - k
      <3>1. t[k + i] = s[k + i]
        BY <1>1, <2>2
      <3> QED BY Zenon, <1>2, <1>4, <2>1, <2>2, <3>1
    <2>3. CASE i = Len(s) - k + 1
      <3>1. k + i = Len(s) + 1
        BY <2>3
      <3> QED BY Zenon, <1>1, <1>4, <2>1, <2>3, <3>1
    <2>4. Len(s) \in Nat
      BY Zenon, LenProperties
    <2>5. i \in 1 .. Len(s) - k \/ i = Len(s) - k + 1
      BY <2>4
    <2> QED BY Zenon, <2>2, <2>3, <2>5
  <1>6. Len(SubSeq(t, k + 1, Len(t))) = Len(Append(q, x))
    BY <1>3, <1>4
  <1>7. SubSeq(t, k + 1, Len(t)) = Append(q, x)
    BY Zenon, <1>3, <1>4, <1>5, <1>6, SeqEqual
  <1> QED BY Zenon, <1>7 DEF q, t

LEMMA QueueHead ==
  ASSUME NEW S, NEW s \in Seq(S), NEW k \in Nat, k < Len(s)
  PROVE  /\ SubSeq(s, k + 1, Len(s)) # <<>>
         /\ Head(SubSeq(s, k + 1, Len(s))) = s[k + 1]
         /\ Tail(SubSeq(s, k + 1, Len(s))) = SubSeq(s, k + 2, Len(s))
  <1>1. /\ SubSeq(s, k + 1, Len(s)) \in Seq(S)
        /\ Len(SubSeq(s, k + 1, Len(s))) = Len(s) - k /\ Len(s) - k # 0
    BY SubSeqProperties
  <1>2. k + 1 \in 1 .. Len(s) /\ Len(s) \in k + 1 .. Len(s)
    OBVIOUS
  <1>3. /\ Head(SubSeq(s, k + 1, Len(s))) = s[k + 1]
        /\ Tail(SubSeq(s, k + 1, Len(s))) = SubSeq(s, (k + 1) + 1, Len(s))
    BY Zenon, <1>2, HeadTailOfSubSeq
  <1>4. (k + 1) + 1 = k + 2
    OBVIOUS
  <1>5. SubSeq(s, k + 1, Len(s)) # <<>>
    BY Zenon, <1>1, EmptySeq
  <1> QED BY Zenon, <1>3, <1>4, <1>5
-----------------------------------------------------------------------------
LEMMA AbstractInit == Init => Abstract!Init
  <1> SUFFICES ASSUME Init PROVE Abstract!Init
    BY Zenon
  <1>1. AInside = {}
    BY Zenon DEF Init, AInside, Within
  <1>2. AQueue = <<>>
    BY SubSeqEmpty DEF Init, AQueue
  <1> QED BY Zenon, <1>1, <1>2 DEF Init, Abstract!Init, AInside, Within, AQueue, Accepting, IsDead

LEMMA AbstractStutter ==
  ASSUME UNCHANGED <<APhase, AInside, AQueue, out, drained>>
  PROVE  UNCHANGED Abstract!vars
  BY Zenon DEF Abstract!vars, APhase, AInside, Within, AQueue

LEMMA AbstractStep == IInv /\ Own /\ [Next]_vars => [Abstract!Next]_Abstract!vars
  <1> SUFFICES ASSUME IInv, Own, [Next]_vars PROVE [Abstract!Next]_Abstract!vars
    BY Zenon
  <1>0. /\ TypeOK /\ Control /\ InOrder /\ InOrder' /\ TypeOK'
        /\ order \in Seq(Msg \cup {Nil}) /\ Len(order) \in Nat
        /\ Len(out) \in Nat /\ Len(drained) \in Nat
        /\ Len(out) + Len(drained) <= Len(order)
    <2>1. TypeOK' /\ InOrder'
      BY Zenon, TypeStep, ContentsStep DEF IInv, Shape
    <2>2. TypeOK /\ Control /\ InOrder
      BY Zenon DEF IInv
    <2>3. /\ order \in Seq(Msg \cup {Nil}) /\ out \in Seq(Msg \cup {Nil})
          /\ drained \in Seq(Msg \cup {Nil})
      BY Zenon, <2>2 DEF TypeOK
    <2>4. Len(order) \in Nat /\ Len(out) \in Nat /\ Len(drained) \in Nat
      BY Zenon, <2>3, LenProperties
    <2>5. Len(out) + Len(drained) <= Len(order)
      BY <2>2, <2>4 DEF InOrder, Taken
    <2> QED BY Zenon, <2>1, <2>2, <2>3, <2>4, <2>5
  <1>1. ASSUME NEW p \in Producers, SendCheck(p) PROVE [Abstract!Next]_Abstract!vars
    <2>0. PICK m : m = <<p, sends[p] + 1>>
      BY Zenon
    <2>1. UNCHANGED <<APhase, AQueue, out, drained>>
      BY Zenon, <1>1 DEF SendCheck, loopVars, history, APhase, AQueue, Accepting, IsDead
    <2>2. CASE ~Accepting
      <3>1. Within' = Within /\ \A q \in Within : sends'[q] = sends[q]
        BY Zenon, <1>0, <1>1, <2>2 DEF SendCheck, Goto, Within, TypeOK
      <3>2. AInside' = AInside
        BY Zenon, <3>1 DEF AInside
      <3> QED BY Zenon, <2>1, <3>2, AbstractStutter
    <2>3. CASE Accepting
      <3>1. m \in Msg
        <4>1. sends[p] + 1 \in 1 .. MaxSends[p]
          BY <1>0, <1>1, SendAssumption, SMTT(40) DEF SendCheck, TypeOK
        <4> QED BY <2>0, <4>1 DEF Msg
      <3>2. m \notin AInside /\ AInside' = AInside \cup {m}
        <4>1. p \notin Within /\ Within' = Within \cup {p}
          BY <1>0, <1>1, <2>3, SMTT(40) DEF SendCheck, Goto, Within, TypeOK
        <4>2. sends'[p] = sends[p] + 1 /\ \A q \in Within : sends'[q] = sends[q]
          BY Zenon, <1>0, <1>1, <4>1 DEF SendCheck, Within, TypeOK
        <4> QED BY Zenon, <2>0, <4>1, <4>2 DEF AInside
      <3>3. Abstract!LetIn(m)
        BY Zenon, <2>1, <2>3, <3>2 DEF Abstract!LetIn, APhase, AInside, Within, AQueue
      <3>4. \E x \in Msg : Abstract!LetIn(x)
        BY Zenon, <3>1, <3>3
      <3> QED BY Zenon, <3>4 DEF Abstract!Next
    <2> QED BY Zenon, <2>2, <2>3
  <1>2. ASSUME NEW p \in Producers, SendGet(p) \/ SendLink(p) \/ SendWake(p)
        PROVE  [Abstract!Next]_Abstract!vars
    <2>1. UNCHANGED <<APhase, AQueue, out, drained>>
      BY Zenon, <1>2 DEF SendGet, SendLink, SendWake, loopVars, history, APhase, AQueue, Accepting, IsDead
    <2>2. Within' = Within /\ sends' = sends
      BY <1>0, <1>2, SMTT(40) DEF SendGet, SendLink, SendWake, Goto, Within, TypeOK
    <2> QED BY Zenon, <2>1, <2>2, AbstractStutter DEF AInside
  <1>3. ASSUME NEW p \in Producers, SendSwap(p) PROVE [Abstract!Next]_Abstract!vars
    <2>0. PICK m : m = <<p, sends[p]>>
      BY Zenon
    <2>1. UNCHANGED <<APhase, out, drained>>
      BY Zenon, <1>3 DEF SendSwap, loopVars, APhase, Accepting, IsDead
    <2>2. order' = Append(order, m)
      BY Zenon, <1>3, <2>0 DEF SendSwap, Own
    <2>3. m \in Msg
      BY SMTT(40), <1>0, <1>3, <2>0 DEF SendSwap, Control, Msg, TypeOK
    <2>4. AQueue' = Append(AQueue, m)
      <3> DEFINE k == Len(out) + Len(drained)
      <3>1. k \in 0 .. Len(order) /\ m \in Msg \cup {Nil}
        BY <1>0, <2>3
      <3> HIDE DEF k
      <3>2. SubSeq(Append(order, m), k + 1, Len(Append(order, m)))
              = Append(SubSeq(order, k + 1, Len(order)), m)
        BY Zenon, <1>0, <3>1, QueueAppend
      <3> QED BY Zenon, <2>1, <2>2, <3>2 DEF AQueue, k
    <2>5. m \in AInside /\ AInside' = AInside \ {m}
      <3>1. p \in Within /\ Within' = Within \ {p} /\ sends' = sends
        BY Zenon, <1>0, <1>3 DEF SendSwap, Goto, Within, TypeOK
      <3> QED BY <2>0, <3>1 DEF AInside
    <2>6. Abstract!Enqueue(m)
      BY Zenon, <2>1, <2>4, <2>5 DEF Abstract!Enqueue, APhase, AInside, Within, AQueue
    <2>7. \E x \in Msg : Abstract!Enqueue(x)
      BY Zenon, <2>3, <2>6
    <2> QED BY Zenon, <2>7 DEF Abstract!Next
  <1>4. CASE Handle
    <2>1. UNCHANGED <<APhase, AInside, order, drained>> /\ cpc = "handle"
      BY Zenon, <1>4 DEF Handle, senderVars, APhase, AInside, Within, Accepting, IsDead
    <2>2. drained = <<>> /\ APhase # "dead"
      BY Zenon, <2>1 DEF IInv, Control, APhase, Accepting, IsDead
    <2>3. Len(out) + Len(drained) < Len(order)
      BY <1>0, <2>1 DEF InOrder, Taken
    <2>4. /\ AQueue # <<>> /\ Head(AQueue) = order[Len(out) + 1]
          /\ Tail(AQueue) = SubSeq(order, Len(out) + 2, Len(order))
      <3>1. Len(drained) = 0 /\ Len(out) + Len(drained) = Len(out)
        BY <1>0, <2>2
      <3> QED BY Zenon, <1>0, <2>3, <3>1, QueueHead DEF AQueue
    <2>5. /\ out' = Append(out, msg[head]) /\ Len(out') = Len(out) + 1
          /\ out'[Len(out) + 1] = msg[head]
      BY SMTT(40), <1>0, <1>4 DEF Handle, TypeOK
    <2>6. out'[Len(out) + 1] = order[Len(out) + 1]
      <3>1. Len(out) \in Nat /\ DOMAIN out' = 1 .. Len(out) + 1
        BY <1>0, <2>5 DEF TypeOK
      <3>2. out'[Len(out) + 1] = order'[Len(out) + 1]
        BY <1>0, <3>1 DEF InOrder
      <3> QED BY Zenon, <2>1, <3>2
    <2>7. AQueue' = Tail(AQueue)
      <3>1. Len(out') + Len(drained') + 1 = Len(out) + 2
        BY <1>0, <2>1, <2>2, <2>5
      <3> QED BY Zenon, <2>1, <2>4, <3>1 DEF AQueue
    <2>8. out' = Append(out, Head(AQueue))
      BY Zenon, <2>4, <2>5, <2>6
    <2>9. Abstract!Handle
      BY Zenon, <2>1, <2>2, <2>4, <2>7, <2>8 DEF Abstract!Handle, APhase, AInside, Within, AQueue
    <2> QED BY Zenon, <2>9 DEF Abstract!Next
  <1>5. CASE Drain
    <2>1. UNCHANGED <<APhase, AInside, order, out>> /\ dpc = "drain"
      BY Zenon, <1>5 DEF Drain, senderVars, APhase, AInside, Within, Accepting, IsDead
    <2>2. CASE next[head] = Nil
      <3>1. UNCHANGED <<AQueue, drained>>
        BY Zenon, <1>5, <2>1, <2>2 DEF Drain, AQueue
      <3> QED BY Zenon, <2>1, <3>1, AbstractStutter
    <2>3. CASE next[head] # Nil
      <3>1. APhase = "dead" /\ cpc' = cpc /\ cpc # "handle"
        BY Zenon, <1>5, <2>1 DEF Drain, IInv, Control, APhase, Accepting, IsDead
      <3>2. /\ drained' = Append(drained, msg[next[head]]) /\ Len(drained') = Len(drained) + 1
            /\ drained'[Len(drained) + 1] = msg[next[head]]
        BY SMTT(40), <1>0, <1>5, <2>3 DEF Drain, TypeOK
      <3>3. Len(out) + Len(drained) < Len(order)
        BY <1>0, <2>1, <3>1, <3>2 DEF InOrder, Taken
      <3>4. /\ AQueue # <<>> /\ Head(AQueue) = order[Len(out) + Len(drained) + 1]
            /\ Tail(AQueue) = SubSeq(order, Len(out) + Len(drained) + 2, Len(order))
        BY SMTT(40), <1>0, <3>3, QueueHead DEF AQueue
      <3>5. drained'[Len(drained) + 1] = order[Len(out) + (Len(drained) + 1)]
        BY <1>0, <2>1, <3>2 DEF InOrder
      <3>6. AQueue' = Tail(AQueue)
        <4>1. Len(out') + Len(drained') + 1 = Len(out) + Len(drained) + 2
          BY <1>0, <2>1, <3>2
        <4> QED BY Zenon, <2>1, <3>4, <4>1 DEF AQueue
      <3>7. drained' = Append(drained, Head(AQueue))
        <4>1. Len(out) + (Len(drained) + 1) = Len(out) + Len(drained) + 1
          BY <1>0
        <4> QED BY Zenon, <3>2, <3>4, <3>5, <4>1
      <3>8. Abstract!Drain
        BY Zenon, <2>1, <3>1, <3>4, <3>6, <3>7 DEF Abstract!Drain, APhase, AInside, Within, AQueue
      <3> QED BY Zenon, <3>8 DEF Abstract!Next
    <2> QED BY Zenon, <2>2, <2>3
  <1>6. CASE Stop
    <2>1. UNCHANGED <<AInside, AQueue, out, drained>>
      BY Zenon, <1>6 DEF Stop, senderVars, AInside, Within, AQueue
    <2>2. APhase = "open" /\ APhase' = "stopping"
      BY Zenon, <1>6 DEF Stop, APhase, Accepting, IsDead
    <2>3. Abstract!Stop
      BY Zenon, <2>1, <2>2 DEF Abstract!Stop, APhase, AInside, Within, AQueue
    <2> QED BY Zenon, <2>3 DEF Abstract!Next
  <1>7. CASE LoopExit
    <2>1. UNCHANGED <<AInside, AQueue, out, drained>>
      BY Zenon, <1>7 DEF LoopExit, senderVars, history, AInside, Within, AQueue
    <2>2. APhase # "dead" /\ APhase' = "dead"
      BY Zenon, <1>7 DEF LoopExit, IInv, Control, APhase, Accepting, IsDead
    <2>3. Abstract!Die
      BY Zenon, <2>1, <2>2 DEF Abstract!Die, APhase, AInside, Within, AQueue
    <2> QED BY Zenon, <2>3 DEF Abstract!Next
  <1>8. CASE Start \/ StopWake \/ Cancel \/ Dequeue \/ LoopEmpty \/ LoopWake \/ DrainStart
             \/ UNCHANGED vars
    <2>1. UNCHANGED <<AInside, AQueue, out, drained>>
      BY Zenon, <1>8 DEF Start, StopWake, Cancel, Dequeue, LoopEmpty, LoopWake, DrainStart, vars,
         senderVars, history, AInside, Within, AQueue
    <2>2. UNCHANGED APhase
      BY Zenon, <1>8 DEF Start, StopWake, Cancel, Dequeue, LoopEmpty, LoopWake, DrainStart, vars,
         loopVars, APhase, Accepting, IsDead
    <2> QED BY Zenon, <2>1, <2>2, AbstractStutter
  <1> QED BY Zenon, <1>1, <1>2, <1>3, <1>4, <1>5, <1>6, <1>7, <1>8 DEF Next, SendNext, Loop

\* Send, the loop, Stop and Drain implement the FIFO mailbox: each step of their
\* goroutines is a step of FifoMailbox or is invisible there.
THEOREM MailboxImplementsFifo == Spec => ImplementsFifo
  <1>1. Init => Own
    BY Zenon DEF Init, Own
  <1>2. Spec => []Own
    BY <1>1, OwnStep, Inductive, PTL DEF Spec
  <1> QED
    BY <1>2, AbstractInit, AbstractStep, Inductive, PTL DEF Spec, ImplementsFifo, Abstract!Spec
=============================================================================
