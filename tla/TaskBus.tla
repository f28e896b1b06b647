------------------------------ MODULE TaskBus -------------------------------
(***************************************************************************)
(* The task bus (internal/taskbus): tasks are enqueued under an            *)
(* idempotency key, dispatchers claim them in batches, run the handler of  *)
(* the task type and mark the result.  There are two stores: the in-memory *)
(* one, whose claims last until they are marked and which sweeps finished  *)
(* tasks, and the SQL one, whose claims may be taken over after            *)
(* claimTimeout and whose rows no dispatcher sweeps.                       *)
(*                                                                         *)
(* A batch holds copies of the tasks as they were claimed; marks go by the *)
(* task's id alone, whoever holds the claim meanwhile.                     *)
(***************************************************************************)
EXTENDS Naturals, FiniteSets

CONSTANTS
  Keys,          \* idempotency keys
  NoHandler,     \* keys of tasks whose type has no handler
  Dispatchers,
  MaxAttempts,   \* DispatcherConfig.MaxAttempts
  BatchSize,     \* DispatcherConfig.BatchSize
  MaxSlow,       \* bound: claims that expire under a living dispatcher
  MaxFaults      \* bound: crashes and failed marks

ASSUME TaskBusAssumption ==
  /\ MaxAttempts \in Nat \ {0}
  /\ BatchSize \in Nat \ {0}
  /\ MaxSlow \in Nat
  /\ MaxFaults \in Nat

VARIABLES
  store,   \* which Store the bus was built with; never changes
  task,    \* the store: status, attempts, due, claimed, old enough to be swept
  batch,   \* the copies each dispatcher still has to handle: key -> attempts
  result,  \* what the handler returned for the task in hand
  done,    \* history: keys whose handler succeeded since they were enqueued
  fails,   \* history: handler failures since then
  slow,
  faults

vars == <<store, task, batch, result, done, fails, slow, faults>>

ClaimExpires == store = "sql"

Open == {"pending", "failed"}
Finished == {"sent", "dlq"}

Task == [status : {"none"} \cup Open \cup Finished, attempts : 0..MaxAttempts,
         due : BOOLEAN, claimed : BOOLEAN, old : BOOLEAN]

NoTask == [status |-> "none", attempts |-> 0, due |-> FALSE, claimed |-> FALSE, old |-> FALSE]

Idle == [key |-> "none", ok |-> FALSE]
NotHeld == MaxAttempts + 1

Init ==
  /\ store \in {"memory", "sql"}
  /\ task = [k \in Keys |-> NoTask]
  /\ batch = [d \in Dispatchers |-> [k \in Keys |-> NotHeld]]
  /\ result = [d \in Dispatchers |-> Idle]
  /\ done = {}
  /\ fails = [k \in Keys |-> 0]
  /\ slow = 0
  /\ faults = 0

Held(d) == {k \in Keys : batch[d][k] # NotHeld}

Bump(n) == IF n <= MaxAttempts THEN n + 1 ELSE n

-----------------------------------------------------------------------------
\* Enqueue: a key the store knows is answered with its task, whatever its
\* status; otherwise a new task.
Enqueue(k) ==
  /\ task[k].status = "none"
  /\ task' = [task EXCEPT ![k] = [NoTask EXCEPT !.status = "pending", !.due = TRUE]]
  /\ done' = done \ {k}
  /\ fails' = [fails EXCEPT ![k] = 0]
  /\ UNCHANGED <<store, batch, result, slow, faults>>

\* Mutant: the claim does not look at claims.
Claimable_Ignoring(k) == task[k].status \in Open /\ task[k].due

Claimable(k) == task[k].status \in Open /\ task[k].due /\ ~task[k].claimed

\* ClaimBatch at the start of DispatchOnce; the order within a batch is free.
ClaimBatch(d) ==
  /\ Held(d) = {} /\ result[d] = Idle
  /\ LET ready == {k \in Keys : Claimable(k)} IN
     \E s \in SUBSET ready :
       /\ s # {}
       /\ Cardinality(s) <= BatchSize
       /\ Cardinality(s) < BatchSize => s = ready
       /\ task' = [k \in Keys |-> IF k \in s THEN [task[k] EXCEPT !.claimed = TRUE] ELSE task[k]]
       /\ batch' = [batch EXCEPT ![d] = [k \in Keys |-> IF k \in s THEN task[k].attempts ELSE NotHeld]]
  /\ UNCHANGED <<store, result, done, fails, slow, faults>>

\* The handler runs on the next copy; it may have worked although it reports
\* an error.
Handle(d) ==
  /\ result[d] = Idle
  /\ \E k \in Held(d) \ NoHandler, ok \in BOOLEAN :
       /\ result' = [result EXCEPT ![d] = [key |-> k, ok |-> ok]]
       /\ done' = IF ok THEN done \cup {k} ELSE done
       /\ fails' = [fails EXCEPT ![k] = IF ok THEN @ ELSE Bump(@)]
  /\ UNCHANGED <<store, task, batch, slow, faults>>

\* Mutant: a task that is finished stays in the queue's index.
markTerminal_KeepsStatus(t, status) == [t EXCEPT !.claimed = FALSE, !.due = FALSE]

markTerminal(t, status) ==
  [t EXCEPT !.status = status, !.claimed = FALSE, !.due = FALSE, !.old = FALSE]

MarkFailed(t, attempts) ==
  [t EXCEPT !.status = "failed", !.attempts = attempts, !.claimed = FALSE, !.due = FALSE]

\* Mutant: the last attempt is skipped.
Exhausted_Early(attempts) == attempts + 1 >= MaxAttempts

Exhausted(attempts) == attempts >= MaxAttempts

\* Mutant: a failure of the handler is marked like a success.
Marked_AlwaysSent(t, ok, attempts) == markTerminal(t, "sent")

Marked(t, ok, attempts) ==
  IF ok THEN markTerminal(t, "sent")
  ELSE IF Exhausted(attempts) THEN markTerminal(t, "dlq")
  ELSE MarkFailed(t, attempts)

Finish(d, k) ==
  /\ batch' = [batch EXCEPT ![d][k] = NotHeld]
  /\ result' = [result EXCEPT ![d] = Idle]

\* The mark after the handler: attempts is counted on from the copy.
Mark(d) ==
  LET k == result[d].key IN
  /\ result[d] # Idle
  /\ task' = [task EXCEPT ![k] = Marked(@, result[d].ok, batch[d][k] + 1)]
  /\ Finish(d, k)
  /\ UNCHANGED <<store, done, fails, slow, faults>>

\* A task type without a handler.
MarkNoHandler(d) ==
  /\ result[d] = Idle
  /\ \E k \in Held(d) \cap NoHandler :
       /\ task' = [task EXCEPT ![k] = markTerminal(@, "dlq")]
       /\ Finish(d, k)
  /\ UNCHANGED <<store, done, fails, slow, faults>>

\* The copies the dispatcher may mark next: the one its handler was called
\* for, or one without a handler.
ToMark(d) == IF result[d] = Idle THEN Held(d) \cap NoHandler ELSE {result[d].key}

\* The mark fails: its error is discarded and the claim stays.
MarkFails(d) ==
  /\ ClaimExpires
  /\ faults < MaxFaults /\ faults' = faults + 1
  /\ \E k \in ToMark(d) : Finish(d, k)
  /\ UNCHANGED <<store, task, done, fails, slow>>

\* The process dies with its batch.  The in-memory store would die with it.
Crash(d) ==
  /\ ClaimExpires
  /\ faults < MaxFaults /\ faults' = faults + 1
  /\ Held(d) # {}
  /\ batch' = [batch EXCEPT ![d] = [k \in Keys |-> NotHeld]]
  /\ result' = [result EXCEPT ![d] = Idle]
  /\ UNCHANGED <<store, task, done, fails, slow>>

\* claimed_at is older than claimTimeout: of a claim nobody holds any more, ...
ExpireDead(k) ==
  /\ ClaimExpires
  /\ task[k].claimed
  /\ \A d \in Dispatchers : k \notin Held(d)
  /\ task' = [task EXCEPT ![k].claimed = FALSE]
  /\ UNCHANGED <<store, batch, result, done, fails, slow, faults>>

\* ... or of one whose dispatcher is slower than that.
ExpireSlow(k) ==
  /\ ClaimExpires
  /\ task[k].claimed
  /\ \E d \in Dispatchers : k \in Held(d)
  /\ slow < MaxSlow /\ slow' = slow + 1
  /\ task' = [task EXCEPT ![k].claimed = FALSE]
  /\ UNCHANGED <<store, batch, result, done, fails, faults>>

RetryDue(k) ==
  /\ task[k].status = "failed" /\ ~task[k].due
  /\ task' = [task EXCEPT ![k].due = TRUE]
  /\ UNCHANGED <<store, batch, result, done, fails, slow, faults>>

\* Retention has passed since the task was completed.
Age(k) ==
  /\ ~ClaimExpires
  /\ task[k].status \in Finished /\ ~task[k].old
  /\ task' = [task EXCEPT ![k].old = TRUE]
  /\ UNCHANGED <<store, batch, result, done, fails, slow, faults>>

\* Mutant: the age of a finished task is not looked at.
Sweepable_Young(k) == task[k].status \in Finished

Sweepable(k) == task[k].status \in Finished /\ task[k].old

\* maybeSweep at the end of a DispatchOnce.
Sweep(d) ==
  /\ ~ClaimExpires
  /\ Held(d) = {}
  /\ \E k \in Keys : Sweepable(k)
  /\ task' = [k \in Keys |-> IF Sweepable(k) THEN NoTask ELSE task[k]]
  /\ UNCHANGED <<store, batch, result, done, fails, slow, faults>>

-----------------------------------------------------------------------------
Work(d) == ClaimBatch(d) \/ Handle(d) \/ Mark(d) \/ MarkNoHandler(d)

Next ==
  \/ \E k \in Keys : Enqueue(k) \/ ExpireDead(k) \/ ExpireSlow(k) \/ RetryDue(k) \/ Age(k)
  \/ \E d \in Dispatchers : Work(d) \/ MarkFails(d) \/ Crash(d) \/ Sweep(d)

Spec == Init /\ [][Next]_vars

\* The poll loops run and timers go off; claims are taken over once expired.
\* No task is passed over for ever: the SQL store claims in the order of the
\* ids, the in-memory one in the random order of a Go map.
FairSpec ==
  /\ Spec
  /\ \A d \in Dispatchers : WF_vars(Work(d))
  /\ \A k \in Keys :
       /\ WF_vars(ExpireDead(k)) /\ WF_vars(RetryDue(k))
       /\ SF_vars(\E d \in Dispatchers : ClaimBatch(d) /\ Claimable(k) /\ task'[k].claimed)

-----------------------------------------------------------------------------
\* Types of the store, of the copies and of the histories.
TypeOK ==
  /\ store \in {"memory", "sql"}
  /\ task \in [Keys -> Task]
  /\ batch \in [Dispatchers -> [Keys -> 0..NotHeld]]
  /\ result \in [Dispatchers -> [key : Keys \cup {"none"}, ok : BOOLEAN]]
  /\ done \subseteq Keys
  /\ fails \in [Keys -> 0..NotHeld]
  /\ slow \in 0..MaxSlow
  /\ faults \in 0..MaxFaults

\* A task recorded as sent has been handled with success since it was
\* enqueued, also when a stale dispatcher marks it.
SentWasHandled == \A k \in Keys : task[k].status = "sent" => k \in done

\* A task is given up only after its handler failed maxAttempts times, or
\* because there is none: counting on from stale copies loses attempts but
\* never invents one.
GivenUpAfterBudget ==
  \A k \in Keys : task[k].status = "dlq" => k \in NoHandler \/ fails[k] >= MaxAttempts

\* sent and dlq are final ("terminal rows (sent/dlq)", store_sql.go) and the
\* key is known until its retention has passed: crashes and lost marks never
\* reopen a task, and the sweep takes none that finished only lately.  A claim
\* taken over from a living dispatcher can reopen one, because marks carry no
\* claim; such runs are left to SentWasHandled and GivenUpAfterBudget.
TerminalIsFinal ==
  [][slow = 0 => \A k \in Keys :
       task[k].status \in Finished =>
         task'[k].status = task[k].status \/ (task[k].old /\ task'[k].status = "none")]_vars

\* Every task is sent or given up in the end: crashes, failed marks and slow
\* handlers leave no claim that keeps it for ever.
TaskFinishes == \A k \in Keys : task[k].status \in Open ~> task[k].status \in Finished
=============================================================================
