-------------------------- MODULE TakeoverContract --------------------------
(***************************************************************************)
(* What the durable takeover promises a client, without leases, fencing    *)
(* tokens, intents, reapers or retries: a request may be executed again    *)
(* only until its first content is committed, content is shown only after  *)
(* that and only by the first execution, the request is settled once, and  *)
(* pollers are told nothing but the settled outcome.                       *)
(***************************************************************************)
EXTENDS Integers

VARIABLES
  executions,  \* executions started so far; the last one is the valid one
  committed,   \* no further execution may start
  shown,       \* the client has received content
  result,      \* the settled outcome and the execution that produced it
  published    \* what pollers are told

cvars == <<executions, committed, shown, result, published>>

NoResult == [outcome |-> "none", by |-> 0]

Init ==
  /\ executions = 0
  /\ committed = FALSE
  /\ shown = FALSE
  /\ result = NoResult
  /\ published = "none"

\* The request is executed, for the first time or again.
Execute ==
  /\ result = NoResult
  /\ ~committed
  /\ executions' = executions + 1
  /\ UNCHANGED <<committed, shown, result, published>>

\* The first execution is about to show content: from now on it is the only
\* one there will ever be.
Commit ==
  /\ result = NoResult
  /\ executions = 1
  /\ committed' = TRUE
  /\ UNCHANGED <<executions, shown, result, published>>

Show ==
  /\ committed
  /\ executions = 1
  /\ result.outcome \in {"none", "resume_safety_blocked"}
  /\ shown' = TRUE
  /\ UNCHANGED <<executions, committed, result, published>>

Conclude(o, e) ==
  /\ result = NoResult
  /\ executions > 0
  /\ result' = [outcome |-> o, by |-> e]
  /\ committed' = TRUE
  /\ UNCHANGED <<executions, shown, published>>

\* The last execution reports its outcome.
Settle == \E o \in {"completed", "failed"} : Conclude(o, executions)

\* Nobody's outcome: the deadline ends an uncommitted request, a committed one
\* whose execution vanished can only be given up.
Expire == ~committed /\ Conclude("expired", 0)
GiveUp == committed /\ Conclude("resume_safety_blocked", 0)

Publish ==
  /\ result # NoResult
  /\ published' = IF result.outcome = "completed" THEN "completed" ELSE "failed"
  /\ UNCHANGED <<executions, committed, shown, result>>

Evict ==
  /\ published' = "none"
  /\ UNCHANGED <<executions, committed, shown, result>>

Next ==
  Execute \/ Commit \/ Show \/ Settle \/ Expire \/ GiveUp \/ Publish \/ Evict

Spec == Init /\ [][Next]_cvars
=============================================================================
