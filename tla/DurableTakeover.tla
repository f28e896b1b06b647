--------------------------- MODULE DurableTakeover ---------------------------
(***************************************************************************)
(* The durable takeover of one streaming or asynchronous LLM request:      *)
(* the foreground stream that creates the task and holds its first lease   *)
(* (durable_wiring.go, durable_stream.go), the recovery workers of every   *)
(* gateway instance (durable_recovery_worker.go), the PostgreSQL store     *)
(* they share (DurableStore) and the Redis projection pollers read         *)
(* (durable/pending_outbox.go, pending/durable_cas.go).                    *)
(*                                                                         *)
(* Frontend processes all write lease_owner "gateway-frontend" and all     *)
(* workers "gateway-durable-worker": only the fencing token tells two      *)
(* workers apart.  A process that lost its lease is not told so; it finds  *)
(* out at its next fenced write.                                           *)
(*                                                                         *)
(* Faults are the steps the environment may inject: a failed statement, a  *)
(* crash, a lost reply, a lease that runs out under a live holder.         *)
(* MaxFaults bounds how many happen in one behaviour, and with MaxRetries  *)
(* bounds every counter of the model.                                      *)
(***************************************************************************)
EXTENDS DurableStore, FiniteSets

CONSTANTS
  Frontend,         \* the request handler that accepts the task
  Workers,          \* recovery worker loops, one per gateway instance
  MaxRetries,       \* DurableWorkerOptions.MaxRetries
  SettlementTries,  \* len(settlementRetryDelays)
  StreamStates,     \* commit states the foreground stream may reach
  MaxFaults,        \* bound on injected faults
  NestedQuery       \* whether a statement may run on a connection whose row
                    \* stream is open: FALSE with the vendored pgx

ASSUME ConstantsAssumption ==
  /\ Frontend \notin Workers
  /\ MaxRetries \in Nat \ {0}
  /\ SettlementTries \in Nat \ {0}
  /\ StreamStates \subseteq CommitStates \ {"none"}
  /\ MaxFaults \in Nat
  /\ NestedQuery \in BOOLEAN

Procs == Workers \cup {Frontend}

VARIABLES
  pc,          \* where each process is
  tok,         \* the fencing token of the task copy it holds, 0: none
  att,         \* the attempt_count of that copy
  out,         \* the outcome it is settling
  ctok,        \* the claim fencing token of the intent it claimed
  fgRank,      \* DurableStreamBinding.lastRank
  fgRenewing,  \* the foreground renewal loop is running
  fgTries,     \* failed tries of retrySettlement
  wire,        \* the highest commit rank the client has received bytes of
  pend,        \* the Redis entry: pending.Store's hash, projected part
  window,      \* expires_at is in the future
  faults       \* faults injected so far

procVars == <<pc, tok, att, out, ctok>>
fgVars   == <<fgRank, fgRenewing, fgTries>>
vars     == <<storeVars, procVars, fgVars, wire, pend, window, faults>>

NoEntry == [status |-> "none", version |-> 0]

Owner(p) == IF p = Frontend THEN FrontendOwner ELSE WorkerOwner

FrontendPCs == {"new", "handoff", "run", "persist", "insert", "sclaim", "fin",
                "sretry", "done", "unreleased"}
WorkerPCs   == {"drain", "fin", "sretry", "reapD", "reapD2", "reapS", "reapS2",
                "project", "project2", "claim", "claim2", "run", "persist",
                "insert", "sclaim"}

Outcomes == {"none", "completed", "failed"}

RowType ==
  [status : Statuses \cup {"absent"}, commit : CommitStates,
   owner : Owners \cup {NoOwner}, token : Nat, live : BOOLEAN,
   due : BOOLEAN, attempt : Nat, version : Nat, by : Nat]

IntentType ==
  [src : Nat, srcOwner : Owners, outcome : {"completed", "failed"},
   ctok : Nat, cowner : Owners \cup {NoOwner}, clive : BOOLEAN, due : BOOLEAN]

TypeOK ==
  /\ row \in RowType
  /\ intent \in IntentType \cup {NoIntent}
  /\ outbox \in [version : Nat, due : BOOLEAN]
  /\ deadline \in BOOLEAN
  /\ pc \in [Procs -> FrontendPCs \cup WorkerPCs]
  /\ tok \in [Procs -> Nat]
  /\ att \in [Procs -> Nat]
  /\ out \in [Procs -> Outcomes]
  /\ \A p \in Procs : pc[p] \in {"persist", "insert"} => out[p] # "none"
  /\ ctok \in [Procs -> Nat]
  /\ fgRank \in 0..4
  /\ fgRenewing \in BOOLEAN
  /\ fgTries \in Nat
  /\ wire \in 0..4
  /\ pend \in [status : Outcomes, version : Nat]
  /\ window \in BOOLEAN
  /\ faults \in Nat

Init ==
  /\ row = AbsentRow
  /\ intent = NoIntent
  /\ outbox = NoOutbox
  /\ deadline = FALSE
  /\ pc = [p \in Procs |-> IF p = Frontend THEN "new" ELSE "drain"]
  /\ tok = [p \in Procs |-> 0]
  /\ att = [p \in Procs |-> 0]
  /\ out = [p \in Procs |-> "none"]
  /\ ctok = [p \in Procs |-> 0]
  /\ fgRank = 0
  /\ fgRenewing = FALSE
  /\ fgTries = 0
  /\ wire = 0
  /\ pend = NoEntry
  /\ window = TRUE
  /\ faults = 0

-----------------------------------------------------------------------------
(* Shared pieces of the processes' steps.                                  *)

Goto(p, l) == pc' = [pc EXCEPT ![p] = l]

Fault == faults < MaxFaults /\ faults' = faults + 1

\* Process p drops everything it holds of the task and goes to l.
Drop(p, l) ==
  /\ Goto(p, l)
  /\ tok' = [tok EXCEPT ![p] = 0]
  /\ att' = [att EXCEPT ![p] = 0]
  /\ out' = [out EXCEPT ![p] = "none"]
  /\ ctok' = [ctok EXCEPT ![p] = 0]
  /\ fgRenewing' = (fgRenewing /\ p # Frontend)
  /\ fgTries' = IF p = Frontend THEN 0 ELSE fgTries
  /\ UNCHANGED fgRank

\* Where a process continues after a settlement or an execution: the handler
\* returns; a worker that drained goes on with its tick, one that ran a task
\* waits for the next tick.
After(p) == IF p = Frontend THEN "done"
            ELSE IF tok[p] = 0 THEN "reapD" ELSE "drain"

Release(p) == Drop(p, After(p))

\* Reschedule, or zero rows affected: the caller drops the task either way.
RescheduleOrLost(p, d) ==
  IF HoldsRunning(Owner(p), tok[p]) /\ IsRunnableCommitState(row.commit)
  THEN Reschedule(Owner(p), tok[p], d)
  ELSE UNCHANGED row

-----------------------------------------------------------------------------
(* The foreground handler.                                                 *)

\* maybeStartDurable up to CreateAndClaim: a stream keeps the lease and runs
\* in the connection, anything else is handed to the workers.
Accept ==
  /\ pc[Frontend] = "new"
  /\ CreateAndClaim(FrontendOwner)
  /\ tok' = [tok EXCEPT ![Frontend] = 1]
  /\ att' = [att EXCEPT ![Frontend] = 1]
  /\ \E stream \in BOOLEAN :
       /\ Goto(Frontend, IF stream THEN "run" ELSE "handoff")
       /\ fgRenewing' = stream
  /\ UNCHANGED <<intent, outbox, deadline, out, ctok, fgRank, fgTries, wire,
                 pend, window, faults>>

\* The rest of maybeStartDurable for a non-stream request; a failed handoff
\* is tolerated (OpError), the lease then has to run out.
Handoff ==
  /\ pc[Frontend] = "handoff"
  /\ RescheduleOrLost(Frontend, TRUE)
  /\ Release(Frontend)
  /\ UNCHANGED <<intent, outbox, deadline, wire, pend, window, faults>>

\* CheckpointContext: the write-ahead hook of the commit gate.  A rank at or
\* below lastRank is not written again; an error keeps the frame off the wire.
Checkpoint(s) ==
  /\ pc[Frontend] = "run"
  /\ CommitStateRank(s) > fgRank
  /\ CheckpointCommitState(FrontendOwner, tok[Frontend], s)
  /\ fgRank' = CommitStateRank(s)
  /\ UNCHANGED <<intent, outbox, deadline, procVars, fgRenewing, fgTries, wire,
                 pend, window, faults>>

\* The checkpoint committed but its reply was lost: the binding sees an error.
CheckpointReplyLost(s) ==
  /\ pc[Frontend] = "run"
  /\ CommitStateRank(s) > fgRank
  /\ CheckpointCommitState(FrontendOwner, tok[Frontend], s)
  /\ Fault
  /\ UNCHANGED <<intent, outbox, deadline, procVars, fgVars, wire, pend, window>>

\* Frames of a checkpointed state reach the client.
WriteFrame ==
  /\ pc[Frontend] = "run"
  /\ wire < fgRank
  /\ wire' = fgRank
  /\ UNCHANGED <<storeVars, procVars, fgVars, pend, window, faults>>

\* The renewal loop revives the lease, whether or not it has run out.
ForegroundRenew ==
  /\ fgRenewing
  /\ ~row.live
  /\ RenewLease(FrontendOwner, tok[Frontend])
  /\ UNCHANGED <<intent, outbox, deadline, procVars, fgVars, wire, pend, window,
                 faults>>

\* Any renewal error ends the loop; the stream goes on.
ForegroundRenewStops ==
  /\ fgRenewing
  /\ IF HoldsRunning(FrontendOwner, tok[Frontend]) THEN Fault
     ELSE UNCHANGED faults
  /\ fgRenewing' = FALSE
  /\ UNCHANGED <<storeVars, procVars, fgRank, fgTries, wire, pend, window>>

\* settleDurableStream, the branches that settle: success with a captured
\* body (bytes on the wire), success without one, terminal failure.
ForegroundSettle(o) ==
  /\ pc[Frontend] = "run"
  /\ o = "completed" => wire > 0
  /\ Goto(Frontend, "persist")
  /\ out' = [out EXCEPT ![Frontend] = o]
  /\ UNCHANGED <<storeVars, tok, att, ctok, fgVars, wire, pend, window, faults>>

\* ReleaseToWorker: client gone or interactive deadline, nothing committed.
ForegroundRelease ==
  /\ pc[Frontend] = "run"
  /\ fgRank < CommitStateRank("content")
  /\ RescheduleOrLost(Frontend, TRUE)
  /\ Release(Frontend)
  /\ UNCHANGED <<intent, outbox, deadline, wire, pend, window, faults>>

\* The same, with the reschedule failing on the database.
ForegroundReleaseFails ==
  /\ pc[Frontend] = "run"
  /\ fgRank < CommitStateRank("content")
  /\ Fault
  /\ Drop(Frontend, "unreleased")
  /\ UNCHANGED <<storeVars, wire, pend, window>>

\* Client gone after content: stop renewing, leave it to the safety reaper.
ForegroundAbandon ==
  /\ pc[Frontend] = "run"
  /\ fgRank >= CommitStateRank("content")
  /\ Release(Frontend)
  /\ UNCHANGED <<storeVars, wire, pend, window, faults>>

-----------------------------------------------------------------------------
(* settleTerminal, the same for the foreground and the workers: persist    *)
(* the intent, claim it, finalize it, park it when that fails.             *)

Persist(p) ==
  /\ pc[p] = "persist"
  /\ IF PersistCheck(Owner(p), tok[p])
     THEN Goto(p, "insert") /\ UNCHANGED <<tok, att, out, ctok, fgVars>>
     ELSE Release(p)
  /\ UNCHANGED <<storeVars, wire, pend, window, faults>>

Insert(p) ==
  /\ pc[p] = "insert"
  /\ IF PersistConflict(Owner(p), tok[p], out[p])
     THEN Release(p) /\ UNCHANGED intent
     ELSE /\ PersistInsert(Owner(p), tok[p], out[p])
          /\ Goto(p, "sclaim")
          /\ UNCHANGED <<tok, att, out, ctok, fgVars>>
  /\ UNCHANGED <<row, outbox, deadline, wire, pend, window, faults>>

\* p claims the intent and goes on to finalize it.
TakeIntent(p) ==
  /\ ClaimSettlementIntents(Owner(p))
  /\ ctok' = [ctok EXCEPT ![p] = intent.ctok + 1]
  /\ Goto(p, "fin")
  /\ UNCHANGED <<tok, att, out, fgVars>>

\* claimSettlementIntents updates each row while the row stream of its own
\* SELECT is open.  The connection is busy until the stream is closed, and pgx
\* answers "conn busy": every such claim fails.
ClaimSucceeds == IntentClaimable /\ NestedQuery

SettlementClaim(p) ==
  /\ pc[p] = "sclaim"
  /\ IF ClaimSucceeds THEN TakeIntent(p) ELSE Release(p) /\ UNCHANGED intent
  /\ UNCHANGED <<row, outbox, deadline, wire, pend, window, faults>>

Finalize(p) ==
  /\ pc[p] = "fin"
  /\ IF HoldsIntent(Owner(p), ctok[p]) THEN FinalizeSettlement(Owner(p), ctok[p])
     ELSE UNCHANGED <<row, intent, outbox>>
  /\ Release(p)
  /\ UNCHANGED <<deadline, wire, pend, window, faults>>

FinalizeRetry(p) ==
  /\ pc[p] = "sretry"
  /\ IF HoldsIntent(Owner(p), ctok[p]) THEN RetrySettlementIntent(Owner(p), ctok[p])
     ELSE UNCHANGED intent
  /\ Release(p)
  /\ UNCHANGED <<row, outbox, deadline, wire, pend, window, faults>>

-----------------------------------------------------------------------------
(* One tick of a recovery worker (runOnce), in its order: drain settlement *)
(* intents, reap deadlines, reap unsafe tasks, project the outbox, claim.  *)

Drain(w) ==
  /\ pc[w] = "drain"
  /\ IF ClaimSucceeds THEN TakeIntent(w)
     ELSE Goto(w, "reapD") /\ UNCHANGED <<intent, tok, att, out, ctok, fgVars>>
  /\ UNCHANGED <<row, outbox, deadline, wire, pend, window, faults>>

\* The SELECT of a phase: with a candidate its UPDATE follows (step l2),
\* without one the next phase (l).
Scan(w, here, found, l2, l) ==
  /\ pc[w] = here
  /\ Goto(w, IF found THEN l2 ELSE l)
  /\ UNCHANGED <<storeVars, tok, att, out, ctok, fgVars, wire, pend, window, faults>>

ScanDeadlines(w) == Scan(w, "reapD", DeadlineSelect, "reapD2", "reapS")
ScanUnsafe(w)    == Scan(w, "reapS", UnsafeSelect, "reapS2", "project")
ScanClaim(w)     == Scan(w, "claim", ClaimSelect, "claim2", "drain")

ApplyDeadlines(w) ==
  /\ pc[w] = "reapD2"
  /\ IF DeadlineRow THEN ReapDeadlines ELSE UNCHANGED <<row, outbox>>
  /\ Goto(w, "reapS")
  /\ UNCHANGED <<intent, deadline, tok, att, out, ctok, fgVars, wire, pend,
                 window, faults>>

ApplyUnsafe(w) ==
  /\ pc[w] = "reapS2"
  /\ IF UnsafeRow THEN ReapUnsafeCheckpointed ELSE UNCHANGED <<row, outbox>>
  /\ Goto(w, "project")
  /\ UNCHANGED <<intent, deadline, tok, att, out, ctok, fgVars, wire, pend,
                 window, faults>>

ApplyClaim(w) ==
  /\ pc[w] = "claim2"
  /\ IF ClaimableRow
     THEN /\ ClaimRunnable(WorkerOwner)
          /\ Goto(w, "run")
          /\ tok' = [tok EXCEPT ![w] = row'.token]
          /\ att' = [att EXCEPT ![w] = row.attempt]
     ELSE Goto(w, "drain") /\ UNCHANGED <<row, tok, att>>
  /\ UNCHANGED <<intent, outbox, deadline, out, ctok, fgVars, wire, pend,
                 window, faults>>

\* The outbox row is locked (FOR UPDATE OF o SKIP LOCKED) until the commit.
OutboxReady == /\ outbox # NoOutbox
               /\ outbox.due
               /\ \A v \in Workers : pc[v] # "project2"

ProjectedStatus(s) == IF s = "completed" THEN "completed" ELSE "failed"

\* SaveDurableCAS: past expires_at nothing is written; an older version than
\* the entry's is stale; the outbox row is deleted in all of these cases.
SaveDurableCAS ==
  pend' = IF window /\ outbox.version >= pend.version
          THEN [status |-> ProjectedStatus(row.status), version |-> outbox.version]
          ELSE pend

\* The Redis write precedes the commit of the transaction that deletes the
\* outbox row.
Project(w) ==
  /\ pc[w] = "project"
  /\ IF OutboxReady THEN SaveDurableCAS /\ Goto(w, "project2")
     ELSE Goto(w, "claim") /\ UNCHANGED pend
  /\ UNCHANGED <<storeVars, tok, att, out, ctok, fgVars, wire, window, faults>>

ProjectCommit(w) ==
  /\ pc[w] = "project2"
  /\ outbox' = NoOutbox
  /\ Goto(w, "claim")
  /\ UNCHANGED <<row, intent, deadline, tok, att, out, ctok, fgVars, wire, pend,
                 window, faults>>

\* Redis or decryption error: markProjectionFailed parks the row.
ProjectFails(w) ==
  /\ pc[w] = "project"
  /\ OutboxReady
  /\ Fault
  /\ outbox' = [outbox EXCEPT !.due = FALSE]
  /\ Goto(w, "claim")
  /\ UNCHANGED <<row, intent, deadline, tok, att, out, ctok, fgVars, wire, pend,
                 window>>

-----------------------------------------------------------------------------
(* runTask: execute a claimed task under a renewed lease.                  *)

RunRenew(w) ==
  /\ pc[w] = "run"
  /\ ~row.live
  /\ RenewLease(WorkerOwner, tok[w])
  /\ UNCHANGED <<intent, outbox, deadline, procVars, fgVars, wire, pend, window,
                 faults>>

\* A renewal affects zero rows: cancel the attempt and forget the task.
RunLeaseLost(w) ==
  /\ pc[w] = "run"
  /\ ~HoldsRunning(WorkerOwner, tok[w])
  /\ Release(w)
  /\ UNCHANGED <<storeVars, wire, pend, window, faults>>

\* Mutant: one retry too many.
canRetry_OneMore(w) == att[w] <= MaxRetries + 1

canRetry(w) == att[w] < MaxRetries + 1

\* Retryable decision, runner error or unreadable snapshot, budget left.
RunReschedule(w, d) ==
  /\ pc[w] = "run"
  /\ canRetry(w)
  /\ RescheduleOrLost(w, d)
  /\ Release(w)
  /\ UNCHANGED <<intent, outbox, deadline, wire, pend, window, faults>>

\* Success (with or without a body), permanent failure or exhausted budget.
RunSettle(w, o) ==
  /\ pc[w] = "run"
  /\ Goto(w, "persist")
  /\ out' = [out EXCEPT ![w] = o]
  /\ UNCHANGED <<storeVars, tok, att, ctok, fgVars, wire, pend, window, faults>>

-----------------------------------------------------------------------------
(* The environment.                                                        *)

\* Steps that are statements of the store.
InStatement(p) == pc[p] \notin {"new", "run", "done", "unreleased", "drain"}

\* Where a process continues when the statement it is about to issue fails.
AfterError(p) ==
  CASE pc[p] \in {"reapD", "reapD2"}     -> "reapS"
    [] pc[p] \in {"reapS", "reapS2"}     -> "project"
    [] pc[p] \in {"project", "project2"} -> "claim"
    [] pc[p] \in {"claim", "claim2"}     -> "drain"
    [] OTHER                             -> After(p)

\* retrySettlement: only the foreground's persist is tried again.
RetriesPersist(p) ==
  /\ p = Frontend
  /\ pc[p] \in {"persist", "insert"}
  /\ fgTries < SettlementTries - 1

OpError(p) ==
  /\ InStatement(p)
  /\ Fault
  /\ \/ /\ RetriesPersist(p)
        /\ Goto(p, "persist")
        /\ fgTries' = fgTries + 1
        /\ UNCHANGED <<tok, att, out, ctok, fgRank, fgRenewing>>
     \/ /\ pc[p] = "fin"
        /\ Goto(p, "sretry")
        /\ UNCHANGED <<tok, att, out, ctok, fgVars>>
     \/ /\ ~RetriesPersist(p)
        /\ pc[p] # "fin"
        /\ Drop(p, AfterError(p))
  /\ UNCHANGED <<storeVars, wire, pend, window>>

\* The gateway process of p dies; a worker loop is started again.  A worker
\* whose renewal or reschedule fails on the database forgets the task alike.
Crash(p) ==
  /\ pc[p] \notin {"new", "done", "unreleased", "drain"}
  /\ Fault
  /\ Drop(p, IF p = Frontend THEN "done" ELSE "drain")
  /\ UNCHANGED <<storeVars, wire, pend, window>>

\* Some process still holds the lease and keeps renewing it.
HolderAlive ==
  \E p \in Procs : /\ tok[p] = row.token
                   /\ Owner(p) = row.owner
                   /\ p = Frontend => fgRenewing

\* lease_until passes: a fault when a live holder was just too slow.
LeaseExpires ==
  /\ row.live
  /\ row' = [row EXCEPT !.live = FALSE]
  /\ IF HolderAlive THEN Fault ELSE UNCHANGED faults
  /\ UNCHANGED <<intent, outbox, deadline, procVars, fgVars, wire, pend, window>>

ClaimerAlive ==
  \E p \in Procs : /\ pc[p] \in {"fin", "sretry"}
                   /\ HoldsIntent(Owner(p), ctok[p])

\* claim_until passes.
IntentClaimExpires ==
  /\ intent.clive
  /\ intent' = [intent EXCEPT !.clive = FALSE]
  /\ IF ClaimerAlive THEN Fault ELSE UNCHANGED faults
  /\ UNCHANGED <<row, outbox, deadline, procVars, fgVars, wire, pend, window>>

\* next_retry_at, next_attempt_at of the intent or of the outbox row pass.
RetryDue ==
  /\ \/ /\ row.status = "retry_scheduled" /\ ~row.due
        /\ row' = [row EXCEPT !.due = TRUE]
        /\ UNCHANGED <<intent, outbox>>
     \/ /\ intent # NoIntent /\ ~intent.due
        /\ intent' = [intent EXCEPT !.due = TRUE]
        /\ UNCHANGED <<row, outbox>>
     \/ /\ outbox # NoOutbox /\ ~outbox.due
        /\ outbox' = [outbox EXCEPT !.due = TRUE]
        /\ UNCHANGED <<row, intent>>
  /\ UNCHANGED <<deadline, procVars, fgVars, wire, pend, window, faults>>

DeadlinePasses ==
  /\ row.status # "absent"
  /\ ~deadline
  /\ deadline' = TRUE
  /\ UNCHANGED <<row, intent, outbox, procVars, fgVars, wire, pend, window, faults>>

\* expires_at = deadline_at + result_read_window passes; Redis evicts the key.
WindowCloses ==
  /\ deadline /\ window
  /\ window' = FALSE
  /\ pend' = NoEntry
  /\ UNCHANGED <<storeVars, procVars, fgVars, wire, faults>>

-----------------------------------------------------------------------------
ForegroundStep ==
  \/ Accept
  \/ Handoff
  \/ \E s \in StreamStates : Checkpoint(s) \/ CheckpointReplyLost(s)
  \/ WriteFrame
  \/ ForegroundRenew
  \/ ForegroundRenewStops
  \/ \E o \in {"completed", "failed"} : ForegroundSettle(o)
  \/ ForegroundRelease
  \/ ForegroundReleaseFails
  \/ ForegroundAbandon

SettleStep(p) ==
  Persist(p) \/ Insert(p) \/ SettlementClaim(p) \/ Finalize(p) \/ FinalizeRetry(p)

TickStep(w) ==
  \/ Drain(w)
  \/ ScanDeadlines(w) \/ ApplyDeadlines(w)
  \/ ScanUnsafe(w) \/ ApplyUnsafe(w)
  \/ Project(w) \/ ProjectCommit(w) \/ ProjectFails(w)
  \/ ScanClaim(w) \/ ApplyClaim(w)

RunStep(w) ==
  \/ RunRenew(w)
  \/ RunLeaseLost(w)
  \/ \E d \in BOOLEAN : RunReschedule(w, d)
  \/ \E o \in {"completed", "failed"} : RunSettle(w, o)

EnvironmentStep ==
  \/ \E p \in Procs : OpError(p) \/ Crash(p)
  \/ LeaseExpires \/ IntentClaimExpires \/ RetryDue
  \/ DeadlinePasses \/ WindowCloses

Next ==
  \/ ForegroundStep
  \/ \E p \in Procs : SettleStep(p)
  \/ \E w \in Workers : TickStep(w) \/ RunStep(w)
  \/ EnvironmentStep

Spec == Init /\ [][Next]_vars

\* The stream ends (client, upstream or interactive deadline), a worker's
\* attempt ends (attempt timeout, lost lease), loops keep ticking, time
\* passes.  Nothing obliges the deadline to save a task, no fault is fair.
ForegroundEnds ==
  \/ Handoff
  \/ \E o \in {"completed", "failed"} : ForegroundSettle(o)
  \/ ForegroundRelease
  \/ ForegroundAbandon

RunEnds(w) ==
  \/ RunLeaseLost(w)
  \/ \E d \in BOOLEAN : RunReschedule(w, d)
  \/ \E o \in {"completed", "failed"} : RunSettle(w, o)

Fairness ==
  /\ WF_vars(ForegroundEnds)
  /\ \A p \in Procs : WF_vars(SettleStep(p))
  /\ \A w \in Workers : WF_vars(TickStep(w)) /\ WF_vars(RunEnds(w))
  /\ WF_vars(LeaseExpires /\ ~HolderAlive)
  /\ WF_vars(IntentClaimExpires /\ ~ClaimerAlive)
  /\ WF_vars(RetryDue)

FairSpec == Spec /\ Fairness

-----------------------------------------------------------------------------
(* What the takeover promises.                                             *)

ContentRank == CommitStateRank("content")

\* Once the client has received semantic content of the foreground stream, no
\* recovery worker holds the task, however leases ran out and whoever crashed:
\* the request is never executed a second time behind the client's back
\* (write-ahead checkpoint + the claim gate on commit_state).
NoReplayAfterContent ==
  wire >= ContentRank => \A w \in Workers : tok[w] = 0

\* A client that received content never finds the answer of another execution
\* recorded as the result: a completed task then carries the result of the
\* foreground stream, whose fencing token is 1.
SoleAuthor ==
  (wire >= ContentRank /\ row.status = "completed") => row.by = 1

\* Two processes never hold the same fencing token, so at most one of them
\* passes the fence of a store write; lease_owner alone does not tell them
\* apart.
FencingTokensUnique ==
  \A p, q \in Procs : (p # q /\ tok[p] # 0) => tok[p] # tok[q]

\* A recorded result is always the one of the last execution started: a stale
\* holder, or an intent it left behind, never settles a task that was claimed
\* again or reaped since.
ResultOfLastClaim ==
  row.status \in {"completed", "failed"} => row.by = row.token

\* The settled projection is never lost: until the read window closes, a
\* settled task has its outbox row or its Redis entry, also when a worker dies
\* between the Redis write and the commit that deletes the outbox row.
ProjectionNotLost ==
  (Settled /\ window) =>
     \/ outbox # NoOutbox
     \/ pend = [status |-> ProjectedStatus(row.status), version |-> row.version]

\* The projector never puts an outcome into Redis that PostgreSQL has not
\* recorded, nor an older one over a newer one, when the same outbox row is
\* projected twice.
ProjectionFaithful ==
  pend # NoEntry =>
     /\ Settled
     /\ pend = [status |-> ProjectedStatus(row.status), version |-> row.version]

\* Releases (handoff, foreground release, worker reschedule) together never
\* exceed the configured retries.
RetryBudget == row.attempt <= MaxRetries + 1

\* A settled row is immutable, resume_safety_blocked included, although the
\* fence of FinalizeSettlement does not exclude that status.
SettledForever == [][Settled => row' = row]_row

\* The SQL statements never consult the transition matrix of task.go, yet no
\* interleaving of them leaves it.
FollowsTransitionMatrix ==
  [][row.status # "absent" => CanTransition(row.status, row'.status)]_row

-----------------------------------------------------------------------------
(* The inductive invariant behind the safety properties, in named parts.   *)

\* Tokens held are tokens handed out; 1 is the foreground's, the rest workers'.
TokensHandedOut ==
  /\ (row.token = 0) = (row.status = "absent")
  /\ \A p \in Procs : tok[p] <= row.token
  /\ tok[Frontend] \in {0, 1}
  /\ \A w \in Workers : tok[w] # 1

\* Bytes follow the binding's rank, which follows the stored commit state.
WriteAhead == wire <= fgRank /\ fgRank <= CommitStateRank(row.commit)

\* Once the binding has checkpointed content, token 1 is the last token of an
\* execution and no worker has ever claimed the task.
ForegroundAlone ==
  fgRank >= ContentRank =>
    /\ \A w \in Workers : tok[w] = 0
    /\ \/ row.token = 1 /\ row.status \notin {"expired", "resume_safety_blocked"}
       \/ row.token = 2 /\ row.status = "resume_safety_blocked"

\* Only a running row has a lease; a settled row is out of the reach of every
\* fence, gate and timer, and so is a row that does not exist yet.
SettledClosed ==
  /\ row.status # "running" => row.owner = NoOwner /\ ~row.live
  /\ Settled => ~IsRunnableCommitState(row.commit)
  /\ row.status = "absent" => row.commit = "none"

\* Everything above with the two properties that are part of the induction:
\* a store that keeps its fences and a binding that checkpoints before it
\* writes maintain it step by step.
IInv ==
  /\ TypeOK
  /\ TokensHandedOut
  /\ FencingTokensUnique
  /\ WriteAhead
  /\ ForegroundAlone
  /\ SettledClosed
  /\ ResultOfLastClaim

\* The contract in terms of this module's state.  Reapers consume a fencing
\* token without executing anything; a client has been shown content when
\* bytes of rank "content" or more were written to it.
Contract == INSTANCE TakeoverContract WITH
  executions <- IF row.status \in {"expired", "resume_safety_blocked"}
                THEN row.token - 1 ELSE row.token,
  committed  <- ~IsRunnableCommitState(row.commit),
  shown      <- wire >= ContentRank,
  result     <- [outcome |-> IF Settled THEN row.status ELSE "none",
                 by |-> row.by],
  published  <- pend.status

\* Foreground, workers, store and projector together keep the contract of
\* TakeoverContract: every step of theirs is one of its steps or invisible.
KeepsContract == Contract!Spec

\* Every accepted task is settled, whoever crashed and whichever step failed,
\* without waiting for its deadline.
TaskSettles == row.status # "absent" ~> Settled

\* An intent never stays behind: it blocks the execution claim and both
\* reapers as long as it exists, so a settled result must reach the row and
\* a stale intent must be discarded.
IntentDrained == intent # NoIntent ~> intent = NoIntent

\* The result of a settled task reaches the pollers before the read window
\* closes, provided the window stays open long enough.
ResultPublished == Settled ~> (pend # NoEntry \/ ~window)
=============================================================================
