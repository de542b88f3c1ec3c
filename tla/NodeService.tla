----------------------------- MODULE NodeService -----------------------------
(***************************************************************************)
(* What a Node promises to its streams: requests arrive in batches, some   *)
(* are executed, each at most once, and each is answered at most once, on  *)
(* its own stream.  The answer tells whether the request was executed, and *)
(* what has been answered is not executed any more.                        *)
(***************************************************************************)
CONSTANTS
  Streams, Requests,
  Home,      \* the stream a request arrives on
  None

VARIABLES
  open,      \* requests received and not answered
  executed,  \* requests an actor has executed
  ended,     \* streams that have ended
  answers    \* per request its answers, to None if its stream had ended

vars == <<open, executed, ended, answers>>

Init ==
  /\ open = {} /\ executed = {} /\ ended = {}
  /\ answers = [r \in Requests |-> <<>>]

Answer(r) ==
  [req |-> r,
   to |-> IF Home[r] \in ended THEN None ELSE Home[r],
   code |-> IF r \in executed THEN "handled" ELSE "refused"]

\* A batch of one stream.
ArriveAll(s, S) ==
  /\ s \notin ended
  /\ \A r \in S : Home[r] = s /\ answers[r] = <<>> /\ r \notin open
  /\ open' = open \cup S
  /\ UNCHANGED <<executed, ended, answers>>

Execute(r) ==
  /\ r \in open \ executed
  /\ executed' = executed \cup {r}
  /\ UNCHANGED <<open, ended, answers>>

AnswerAll(S) ==
  /\ S \subseteq open
  /\ open' = open \ S
  /\ answers' = [r \in Requests |-> IF r \in S THEN <<Answer(r)>> ELSE answers[r]]
  /\ UNCHANGED <<executed, ended>>

End(s) ==
  /\ s \notin ended
  /\ ended' = ended \cup {s}
  /\ UNCHANGED <<open, executed, answers>>

Next ==
  \/ \E s \in Streams : End(s) \/ \E S \in SUBSET Requests : ArriveAll(s, S)
  \/ \E r \in Requests : Execute(r)
  \/ \E S \in SUBSET Requests : AnswerAll(S)

Spec == Init /\ [][Next]_vars
=============================================================================
