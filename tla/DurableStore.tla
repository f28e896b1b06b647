---------------------------- MODULE DurableStore ----------------------------
(***************************************************************************)
(* The PostgreSQL side of the durable takeover (package durable): one task *)
(* row, its settlement intent and its pending-outbox row, and one operator *)
(* per repository operation.  Rows of different tasks share nothing, so    *)
(* the module describes an arbitrary one of them.                          *)
(*                                                                         *)
(* An operation that is one statement or one locked transaction is one     *)
(* operator.  ClaimRunnable, ReapDeadlines and ReapUnsafeCheckpointed are  *)
(* two: their SELECT tests "NOT EXISTS settlement intent" on the snapshot  *)
(* of the statement, the row lock then re-tests only the task row.         *)
(* PersistSettlementIntent is two as well: it reads the task row without   *)
(* locking it and inserts into another table.                              *)
(*                                                                         *)
(* Time is abstracted to what the WHERE clauses test: whether the lease    *)
(* (live), the retry time (due) and the deadline are past or not.          *)
(***************************************************************************)
EXTENDS DurableTask

VARIABLES
  row,       \* the row of durable_llm_tasks, status "absent" before the INSERT
  intent,    \* the row of durable_task_settlement_intents, or NoIntent
  outbox,    \* the row of durable_pending_outbox, or NoOutbox
  deadline   \* deadline_at <= now

storeVars == <<row, intent, outbox, deadline>>

FrontendOwner == "gateway-frontend"
WorkerOwner   == "gateway-durable-worker"
NoOwner       == "NULL"
Owners        == {FrontendOwner, WorkerOwner}

AbsentRow ==
  [status |-> "absent", commit |-> "none", owner |-> NoOwner, token |-> 0,
   live |-> FALSE, due |-> FALSE, attempt |-> 0, version |-> 0, by |-> 0]

NoIntent ==
  [src |-> 0, srcOwner |-> NoOwner, outcome |-> "none",
   ctok |-> 0, cowner |-> NoOwner, clive |-> FALSE, due |-> FALSE]

NoOutbox == [version |-> 0, due |-> FALSE]

Settled == IsSettledStatus(row.status)

-----------------------------------------------------------------------------
(* The task row.  Every write after creation names the caller's lease:     *)
(* (lease_owner, fencing_token).                                           *)

\* INSERT with UNIQUE (tenant_id, request_id): status running, token 1.
CreateAndClaim(o) ==
  /\ row.status = "absent"
  /\ row' = [status |-> "running", commit |-> "none", owner |-> o, token |-> 1,
             live |-> TRUE, due |-> TRUE, attempt |-> 1, version |-> 0, by |-> 0]

\* The fence of RenewLease, CheckpointCommitState and Reschedule.
HoldsRunning(o, k) == row.owner = o /\ row.token = k /\ row.status = "running"

\* The fence of PersistSettlementIntent and FinalizeSettlement.
HoldsUnsettled(o, k) ==
  row.owner = o /\ row.token = k /\ ~IsTerminalStatus(row.status)

\* The lease guard is not part of the fence: a late renewal revives a lease.
RenewLease(o, k) ==
  /\ HoldsRunning(o, k)
  /\ row' = [row EXCEPT !.live = TRUE]

CheckpointCommitState(o, k, s) ==
  /\ HoldsRunning(o, k)
  /\ CommitStateRank(row.commit) < CommitStateRank(s)
  /\ row' = [row EXCEPT !.commit = s]

\* Releases the lease but keeps the token; d: next_retry_at is already due.
Reschedule(o, k, d) ==
  /\ HoldsRunning(o, k)
  /\ IsRunnableCommitState(row.commit)
  /\ row' = [row EXCEPT !.status = "retry_scheduled", !.due = d,
                        !.owner = NoOwner, !.live = FALSE, !.attempt = @ + 1]

\* Mutant: the claim forgets the commit-state gate.
ClaimableRow_NoGate ==
  row.status \in RunnableStatuses /\ row.due /\ ~deadline /\ ~row.live

\* claimSelectSQL without its NOT EXISTS clause (lease NULL counts as ~live).
ClaimableRow ==
  /\ IsRunnableCommitState(row.commit)
  /\ row.status \in RunnableStatuses
  /\ row.due
  /\ ~deadline
  /\ ~row.live

ClaimSelect == ClaimableRow /\ intent = NoIntent

\* Mutant: the claim keeps the previous fencing token.
ClaimRunnable_SameToken(o) ==
  /\ ClaimableRow
  /\ row' = [row EXCEPT !.status = "running", !.owner = o, !.live = TRUE]

ClaimRunnable(o) ==
  /\ ClaimableRow
  /\ row' = [row EXCEPT !.status = "running", !.owner = o, !.live = TRUE,
                        !.token = @ + 1]

-----------------------------------------------------------------------------
(* Terminal writes: each bumps result_version and enqueues the projection  *)
(* in the same transaction.                                                *)

\* Mutant: the outbox row is written with the version before the increment.
enqueuePendingOutbox_OldVersion(v) == outbox' = [version |-> v - 1, due |-> TRUE]

enqueuePendingOutbox(v) ==
  outbox' = [version |-> IF outbox.version > v THEN outbox.version ELSE v,
             due |-> TRUE]

\* Mutant: the deadline reaper forgets the commit-state gate.
DeadlineRow_NoGate ==
  deadline /\ row.status # "absent" /\ ~IsTerminalStatus(row.status)

DeadlineRow ==
  /\ deadline
  /\ row.status # "absent"
  /\ ~IsTerminalStatus(row.status)
  /\ IsRunnableCommitState(row.commit)

DeadlineSelect == DeadlineRow /\ intent = NoIntent

\* Mutant: an expired task is not handed to the projector.
ReapDeadlines_NoOutbox ==
  /\ DeadlineRow
  /\ row' = [row EXCEPT !.status = "expired", !.commit = "terminal",
                        !.token = @ + 1, !.owner = NoOwner, !.live = FALSE,
                        !.version = @ + 1]
  /\ UNCHANGED outbox

\* A live lease does not protect a task from its deadline.
ReapDeadlines ==
  /\ DeadlineRow
  /\ row' = [row EXCEPT !.status = "expired", !.commit = "terminal",
                        !.token = @ + 1, !.owner = NoOwner, !.live = FALSE,
                        !.version = @ + 1]
  /\ enqueuePendingOutbox(row.version + 1)

\* Mutant: the safety reaper looks for tool calls only.
UnsafeRow_ToolsOnly ==
  row.commit = "tool_call" /\ ~IsSettledStatus(row.status) /\ ~row.live

UnsafeRow ==
  /\ row.commit \in {"content", "tool_call", "terminal"}
  /\ ~IsSettledStatus(row.status)
  /\ ~row.live

UnsafeSelect == UnsafeRow /\ intent = NoIntent

\* Mutant: the reaper blocks the task without an outbox row.
ReapUnsafeCheckpointed_NoOutbox ==
  /\ UnsafeRow
  /\ row' = [row EXCEPT !.status = "resume_safety_blocked", !.token = @ + 1,
                        !.owner = NoOwner, !.live = FALSE, !.version = @ + 1]
  /\ UNCHANGED outbox

\* Mutant: the reaper leaves the old holder's fence intact.
ReapUnsafeCheckpointed_KeepsFence ==
  /\ UnsafeRow
  /\ row' = [row EXCEPT !.status = "resume_safety_blocked", !.version = @ + 1]
  /\ enqueuePendingOutbox(row.version + 1)

ReapUnsafeCheckpointed ==
  /\ UnsafeRow
  /\ row' = [row EXCEPT !.status = "resume_safety_blocked", !.token = @ + 1,
                        !.owner = NoOwner, !.live = FALSE, !.version = @ + 1]
  /\ enqueuePendingOutbox(row.version + 1)

-----------------------------------------------------------------------------
(* Settlement intents: the write-ahead record of a result, with a claim    *)
(* lease and a claim fencing token of its own.                             *)

\* WHERE EXISTS (task held by the caller), on the statement's snapshot.
PersistCheck(o, k) == HoldsUnsettled(o, k)

\* ON CONFLICT (task_id): only the identical intent counts as persisted.
SameIntent(o, k, outcome) ==
  intent.src = k /\ intent.srcOwner = o /\ intent.outcome = outcome

PersistConflict(o, k, outcome) ==
  intent # NoIntent /\ ~SameIntent(o, k, outcome)

PersistInsert(o, k, outcome) ==
  /\ ~PersistConflict(o, k, outcome)
  /\ intent' = IF intent = NoIntent
               THEN [NoIntent EXCEPT !.src = k, !.srcOwner = o,
                                     !.outcome = outcome, !.due = TRUE]
               ELSE intent

\* Mutant: a claim that ran out is not claimed again.
IntentClaimable_NeverAgain ==
  intent # NoIntent /\ intent.due /\ intent.cowner = NoOwner

IntentClaimable == intent # NoIntent /\ intent.due /\ ~intent.clive

ClaimSettlementIntents(o) ==
  /\ IntentClaimable
  /\ intent' = [intent EXCEPT !.cowner = o, !.clive = TRUE, !.ctok = @ + 1]

HoldsIntent(o, c) ==
  intent # NoIntent /\ intent.cowner = o /\ intent.ctok = c

RetrySettlementIntent(o, c) ==
  /\ HoldsIntent(o, c)
  /\ intent' = [intent EXCEPT !.cowner = NoOwner, !.clive = FALSE, !.due = FALSE]

\* Mutant: any unsettled task accepts the intent.
IntentCurrent_AnyLease == row.status # "absent" /\ ~IsTerminalStatus(row.status)

\* The task row still belongs to the lease frozen in the intent.
IntentCurrent == HoldsUnsettled(intent.srcOwner, intent.src)

\* Everything applied comes from the locked intent row, nothing from the
\* caller; a stale intent is deleted without touching the task.  attempt_count
\* is set to the intent's, which is the row's: no reschedule came between.
FinalizeSettlement(o, c) ==
  /\ HoldsIntent(o, c)
  /\ intent' = NoIntent
  /\ IF IntentCurrent
     THEN /\ row' = [row EXCEPT !.status = intent.outcome, !.commit = "terminal",
                                !.owner = NoOwner, !.live = FALSE,
                                !.version = @ + 1, !.by = intent.src]
          /\ enqueuePendingOutbox(row.version + 1)
     ELSE UNCHANGED <<row, outbox>>
=============================================================================
