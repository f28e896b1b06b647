------------------------ MODULE DurableTakeoverProofs ------------------------
(***************************************************************************)
(* Safety of the durable takeover for any number of workers, retries and   *)
(* faults.  The store's operations come first: what each does to the task  *)
(* row.  TypeOK and then IInv are shown to be inductive action by action.  *)
(* On the kinds of steps that this needs rest the projection, the retry    *)
(* budget and the refinement of TakeoverContract.                          *)
(***************************************************************************)
EXTENDS DurableTakeover, TLAPS

PCs == FrontendPCs \cup WorkerPCs

-----------------------------------------------------------------------------
(* Effects of the store's operations on the task row.                      *)

\* CreateAndClaim inserts a running row with fencing token 1.
LEMMA CreateEffect ==
  ASSUME TypeOK, NEW o \in Owners, CreateAndClaim(o)
  PROVE  /\ row' \in RowType
         /\ row.status = "absent" /\ row'.status = "running"
         /\ row'.commit = "none" /\ row'.token = 1 /\ row'.by = 0
  BY DEF TypeOK, RowType, Statuses, TerminalStatuses, RunnableStatuses,
         CommitStates, CreateAndClaim

\* RenewLease and a passing lease time change nothing but the lease.
LEMMA LeaseEffect ==
  ASSUME TypeOK, NEW b \in BOOLEAN, row' = [row EXCEPT !.live = b]
  PROVE  /\ row' \in RowType
         /\ row'.status = row.status /\ row'.commit = row.commit
         /\ row'.owner = row.owner /\ row'.token = row.token
         /\ row'.by = row.by
  BY Zenon DEF TypeOK, RowType

\* A retry time that passes changes nothing but the due flag.
LEMMA DueEffect ==
  ASSUME TypeOK, row' = [row EXCEPT !.due = TRUE]
  PROVE  /\ row' \in RowType
         /\ row'.status = row.status /\ row'.commit = row.commit
         /\ row'.owner = row.owner /\ row'.token = row.token
         /\ row'.by = row.by /\ row'.live = row.live
  BY Zenon DEF TypeOK, RowType

\* A checkpoint moves the commit state of a running row, nothing else.
LEMMA CheckpointEffect ==
  ASSUME TypeOK, NEW o, NEW k, NEW s \in CommitStates,
         CheckpointCommitState(o, k, s)
  PROVE  /\ row' \in RowType
         /\ row.status = "running" /\ row.owner = o /\ row.token = k
         /\ row'.status = "running" /\ row'.commit = s
         /\ row'.owner = row.owner /\ row'.token = row.token
         /\ row'.by = row.by
         /\ CommitStateRank(row.commit) < CommitStateRank(s)
  BY Zenon DEF TypeOK, RowType, CheckpointCommitState, HoldsRunning

\* Reschedule parks a running, uncommitted row and keeps its token.
LEMMA RescheduleEffect ==
  ASSUME TypeOK, NEW o, NEW k, NEW d \in BOOLEAN, Reschedule(o, k, d)
  PROVE  /\ row' \in RowType
         /\ row.status = "running" /\ row'.status = "retry_scheduled"
         /\ row'.commit = row.commit /\ row'.token = row.token
         /\ row'.by = row.by /\ IsRunnableCommitState(row.commit)
         /\ row'.owner = NoOwner /\ row'.live = FALSE
  <1>1. row.attempt + 1 \in Nat
    BY DEF TypeOK, RowType
  <1> QED
    BY Zenon, <1>1 DEF TypeOK, RowType, Reschedule, HoldsRunning, Statuses,
       RunnableStatuses

\* An execution claim takes the next token of a runnable, uncommitted row.
LEMMA ClaimEffect ==
  ASSUME TypeOK, NEW o \in Owners, ClaimRunnable(o)
  PROVE  /\ row' \in RowType
         /\ row.status \in RunnableStatuses /\ row'.status = "running"
         /\ row'.commit = row.commit /\ row'.token = row.token + 1
         /\ row'.by = row.by /\ IsRunnableCommitState(row.commit)
  <1>1. row.token + 1 \in Nat
    BY DEF TypeOK, RowType
  <1> QED
    BY Zenon, <1>1 DEF TypeOK, RowType, ClaimRunnable, ClaimableRow, Statuses,
       RunnableStatuses

\* The deadline reaper settles an uncommitted row and revokes its token.
LEMMA DeadlineEffect ==
  ASSUME TypeOK, ReapDeadlines
  PROVE  /\ row' \in RowType
         /\ row.status # "absent" /\ ~IsTerminalStatus(row.status)
         /\ IsRunnableCommitState(row.commit)
         /\ row'.status = "expired" /\ row'.commit = "terminal"
         /\ row'.owner = NoOwner /\ row'.live = FALSE
         /\ row'.token = row.token + 1 /\ row'.by = row.by
  <1>1. row.token + 1 \in Nat /\ row.version + 1 \in Nat
    BY DEF TypeOK, RowType
  <1> QED
    BY Zenon, <1>1 DEF TypeOK, RowType, ReapDeadlines, DeadlineRow, Statuses,
       TerminalStatuses, CommitStates

\* The safety reaper blocks a committed row and revokes its token.
LEMMA UnsafeEffect ==
  ASSUME TypeOK, ReapUnsafeCheckpointed
  PROVE  /\ row' \in RowType
         /\ ~IsSettledStatus(row.status)
         /\ row.commit \in {"content", "tool_call", "terminal"}
         /\ row'.status = "resume_safety_blocked" /\ row'.commit = row.commit
         /\ row'.owner = NoOwner /\ row'.live = FALSE
         /\ row'.token = row.token + 1 /\ row'.by = row.by
  <1>1. row.token + 1 \in Nat /\ row.version + 1 \in Nat
    BY DEF TypeOK, RowType
  <1> QED
    BY Zenon, <1>1 DEF TypeOK, RowType, ReapUnsafeCheckpointed, UnsafeRow, Statuses

\* A settlement either leaves the row alone or settles it under the token
\* frozen in the intent, which is then the row's.
LEMMA FinalizeEffect ==
  ASSUME TypeOK, NEW o, NEW c, FinalizeSettlement(o, c)
  PROVE  /\ row' \in RowType
         /\ intent # NoIntent /\ intent.srcOwner \in Owners /\ intent' = NoIntent
         /\ intent.outcome \in {"completed", "failed"}
         /\ \/ row' = row
            \/ /\ row.owner = intent.srcOwner /\ row.token = intent.src
               /\ ~IsTerminalStatus(row.status)
               /\ row'.status = intent.outcome /\ row'.commit = "terminal"
               /\ row'.owner = NoOwner /\ row'.live = FALSE
               /\ row'.token = row.token /\ row'.by = row.token
  <1>1. row.version + 1 \in Nat
    BY DEF TypeOK, RowType
  <1>2. intent # NoIntent /\ intent' = NoIntent /\ intent \in IntentType
    BY DEF TypeOK, FinalizeSettlement, HoldsIntent
  <1>3. /\ intent.srcOwner \in Owners /\ intent.outcome \in {"completed", "failed"}
        /\ intent.src \in Nat
    BY <1>2 DEF IntentType
  <1>4. CASE ~IntentCurrent
    BY <1>2, <1>3, <1>4 DEF TypeOK, FinalizeSettlement
  <1>5. CASE IntentCurrent
    <2>1. row' = [row EXCEPT !.status = intent.outcome, !.commit = "terminal",
                             !.owner = NoOwner, !.live = FALSE,
                             !.version = @ + 1, !.by = intent.src]
      BY <1>5 DEF FinalizeSettlement
    <2>2. intent.outcome \in Statuses
      BY <1>3 DEF Statuses, TerminalStatuses
    <2>3. row' \in RowType
      BY Zenon, <2>1, <2>2, <1>1, <1>3 DEF TypeOK, RowType, CommitStates
    <2>4. /\ row'.status = intent.outcome /\ row'.commit = "terminal"
          /\ row'.owner = NoOwner /\ row'.live = FALSE
          /\ row'.token = row.token /\ row'.by = intent.src
      BY Zenon, <2>1 DEF TypeOK, RowType
    <2> QED
      BY <1>2, <1>3, <1>5, <2>3, <2>4 DEF IntentCurrent, HoldsUnsettled
  <1> QED BY <1>4, <1>5

-----------------------------------------------------------------------------
(* Type correctness, in four groups of variables.                          *)

StoreOK ==
  /\ row \in RowType
  /\ intent \in IntentType \cup {NoIntent}
  /\ outbox \in [version : Nat, due : BOOLEAN]
  /\ deadline \in BOOLEAN

ProcOK ==
  /\ pc \in [Procs -> PCs]
  /\ tok \in [Procs -> Nat]
  /\ att \in [Procs -> Nat]
  /\ out \in [Procs -> Outcomes]
  /\ \A p \in Procs : pc[p] \in {"persist", "insert"} => out[p] # "none"
  /\ ctok \in [Procs -> Nat]

FgOK == fgRank \in 0..4 /\ fgRenewing \in BOOLEAN /\ fgTries \in Nat

RestOK ==
  /\ wire \in 0..4
  /\ pend \in [status : Outcomes, version : Nat]
  /\ window \in BOOLEAN
  /\ faults \in Nat

\* The conjuncts of TypeOK, by the part of the state they speak about.
LEMMA TypeGroups == TypeOK <=> StoreOK /\ ProcOK /\ FgOK /\ RestOK
  BY DEF TypeOK, StoreOK, ProcOK, FgOK, RestOK, PCs

\* The same for the state after a step.
LEMMA TypeGroupsNext == TypeOK' <=> StoreOK' /\ ProcOK' /\ FgOK' /\ RestOK'
  BY DEF TypeOK, StoreOK, ProcOK, FgOK, RestOK, PCs

\* A settlement or an execution ends at a point that holds no outcome.
Resting == PCs \ {"persist", "insert"}

\* Where a process continues after a settlement is a resting place.
LEMMA AfterResting ==
  ASSUME NEW p \in Procs
  PROVE  After(p) \in Resting /\ AfterError(p) \in Resting
  BY DEF After, AfterError, Resting, PCs, FrontendPCs, WorkerPCs

\* Dropping the task keeps the process state well typed.
LEMMA DropOK ==
  ASSUME TypeOK, NEW p \in Procs, NEW l \in Resting, Drop(p, l)
  PROVE  ProcOK' /\ FgOK'
  <1>1. pc' \in [Procs -> PCs] /\ tok' \in [Procs -> Nat]
        /\ att' \in [Procs -> Nat] /\ ctok' \in [Procs -> Nat]
    BY DEF TypeOK, Drop, Goto, Resting, PCs
  <1>2. out' \in [Procs -> Outcomes]
    BY DEF TypeOK, Drop, Outcomes
  <1>3. \A q \in Procs : pc'[q] \in {"persist", "insert"} => out'[q] # "none"
    BY DEF TypeOK, Drop, Goto, Resting
  <1>4. FgOK'
    BY DEF TypeOK, Drop, FgOK
  <1> QED BY <1>1, <1>2, <1>3, <1>4 DEF ProcOK

\* So does releasing it.
LEMMA ReleaseOK ==
  ASSUME TypeOK, NEW p \in Procs, Release(p)
  PROVE  ProcOK' /\ FgOK'
  BY DropOK, AfterResting DEF Release

\* So does moving the program counter.
LEMMA GotoOK ==
  ASSUME TypeOK, NEW p \in Procs, NEW l \in PCs, Goto(p, l),
         UNCHANGED <<tok, att, out, ctok>>,
         l \in {"persist", "insert"} => out[p] # "none"
  PROVE  ProcOK'
  <1>1. pc' \in [Procs -> PCs]
    BY DEF TypeOK, Goto, PCs
  <1>2. \A q \in Procs : pc'[q] \in {"persist", "insert"} => out'[q] # "none"
    BY DEF TypeOK, Goto
  <1> QED BY <1>1, <1>2 DEF TypeOK, ProcOK

\* A counted fault keeps the fault counter a number.
LEMMA FaultOK ==
  ASSUME TypeOK, Fault
  PROVE  faults' \in Nat
  BY DEF TypeOK, Fault

\* An enqueued projection is a well-typed outbox row.
LEMMA EnqueueOK ==
  ASSUME TypeOK, NEW v \in Nat, enqueuePendingOutbox(v)
  PROVE  outbox' \in [version : Nat, due : BOOLEAN]
  BY DEF TypeOK, enqueuePendingOutbox

\* A reschedule, applied or fenced off, keeps the row well typed.
LEMMA RescheduleOrLostOK ==
  ASSUME TypeOK, NEW p \in Procs, NEW d \in BOOLEAN, RescheduleOrLost(p, d)
  PROVE  row' \in RowType
  <1>1. CASE Reschedule(Owner(p), tok[p], d)
    BY <1>1, RescheduleEffect
  <1>2. CASE UNCHANGED row
    BY <1>2 DEF TypeOK
  <1> QED BY <1>1, <1>2 DEF RescheduleOrLost

\* A settlement claim takes the next claim token of the intent.
LEMMA TakeIntentOK ==
  ASSUME TypeOK, NEW p \in Procs, Owner(p) \in Owners, TakeIntent(p)
  PROVE  intent' \in IntentType /\ ProcOK' /\ FgOK'
  <1>1. intent \in IntentType /\ intent.ctok + 1 \in Nat
    BY DEF TypeOK, TakeIntent, ClaimSettlementIntents, IntentClaimable, IntentType
  <1>2. intent' \in IntentType
    BY <1>1, Zenon DEF TakeIntent, ClaimSettlementIntents, IntentType
  <1>3. pc' \in [Procs -> PCs] /\ \A q \in Procs : pc'[q] \in {"persist", "insert"} => out'[q] # "none"
    BY DEF TakeIntent, Goto, TypeOK, PCs, FrontendPCs
  <1>4. ctok' \in [Procs -> Nat]
    BY <1>1 DEF TakeIntent, TypeOK
  <1> QED BY <1>2, <1>3, <1>4 DEF TakeIntent, ProcOK, FgOK, fgVars, TypeOK

-----------------------------------------------------------------------------
(* One lemma per group of actions: a step keeps TypeOK.                    *)

\* The foreground handler's steps keep TypeOK.
LEMMA TypeForeground ==
  ASSUME TypeOK, ForegroundStep
  PROVE  TypeOK'
  <1> USE ConstantsAssumption
  <1>0. Frontend \in Procs /\ FrontendOwner \in Owners /\ Owner(Frontend) = FrontendOwner
    BY DEF Procs, Owners, Owner
  <1>1. CASE Accept
    <2>1. StoreOK'
      BY <1>0, <1>1, CreateEffect DEF Accept, StoreOK, TypeOK
    <2>2. PICK stream \in BOOLEAN : /\ Goto(Frontend, IF stream THEN "run" ELSE "handoff")
                                    /\ fgRenewing' = stream
      BY <1>1 DEF Accept
    <2>3. ProcOK'
      <3>1. pc' \in [Procs -> PCs] /\ \A q \in Procs : pc'[q] \in {"persist", "insert"} => pc[q] \in {"persist", "insert"}
        BY <2>2 DEF Goto, TypeOK, PCs, FrontendPCs
      <3>2. tok' \in [Procs -> Nat] /\ att' \in [Procs -> Nat]
        BY <1>1 DEF Accept, TypeOK
      <3> QED BY <1>1, <3>1, <3>2 DEF Accept, TypeOK, ProcOK
    <2>4. FgOK' /\ RestOK'
      BY <1>1, <2>2 DEF Accept, TypeOK, FgOK, RestOK
    <2> QED BY <2>1, <2>3, <2>4, TypeGroupsNext
  <1>2. CASE Handoff
    <2>1. StoreOK'
      BY <1>0, <1>2, RescheduleOrLostOK DEF Handoff, StoreOK, TypeOK
    <2>2. ProcOK' /\ FgOK'
      BY <1>0, <1>2, ReleaseOK DEF Handoff
    <2> QED BY <1>2, <2>1, <2>2, TypeGroupsNext DEF Handoff, RestOK, TypeOK
  <1>3. ASSUME NEW s \in StreamStates, Checkpoint(s) \/ CheckpointReplyLost(s)
        PROVE  TypeOK'
    <2>1. s \in CommitStates /\ CommitStateRank(s) \in 0..4
      BY DEF CommitStates, CommitStateRank
    <2>2. StoreOK'
      BY <1>3, <2>1, CheckpointEffect DEF Checkpoint, CheckpointReplyLost, StoreOK, TypeOK
    <2>3. ProcOK'
      BY <1>3 DEF Checkpoint, CheckpointReplyLost, procVars, ProcOK, TypeOK, PCs
    <2>4. FgOK' /\ RestOK'
      BY <1>3, <2>1, FaultOK DEF Checkpoint, CheckpointReplyLost, fgVars, FgOK, RestOK, TypeOK
    <2> QED BY <2>2, <2>3, <2>4, TypeGroupsNext
  <1>4. CASE WriteFrame
    BY <1>4 DEF WriteFrame, TypeOK, storeVars, procVars, fgVars
  <1>5. CASE ForegroundRenew
    <2>1. row' \in RowType
      BY <1>5, LeaseEffect DEF ForegroundRenew, RenewLease
    <2> QED BY <1>5, <2>1 DEF ForegroundRenew, TypeOK, procVars, fgVars
  <1>6. CASE ForegroundRenewStops
    <2>1. faults' \in Nat
      BY <1>6, FaultOK DEF ForegroundRenewStops, TypeOK
    <2> QED BY <1>6, <2>1 DEF ForegroundRenewStops, TypeOK, storeVars, procVars
  <1>7. ASSUME NEW o \in {"completed", "failed"}, ForegroundSettle(o)
        PROVE  TypeOK'
    <2>1. pc' \in [Procs -> PCs] /\ out' \in [Procs -> Outcomes]
      BY <1>7 DEF ForegroundSettle, Goto, TypeOK, PCs, FrontendPCs, Outcomes
    <2>2. \A q \in Procs : pc'[q] \in {"persist", "insert"} => out'[q] # "none"
      BY <1>0, <1>7 DEF ForegroundSettle, Goto, TypeOK
    <2> QED BY <1>7, <2>1, <2>2 DEF ForegroundSettle, TypeOK, storeVars, fgVars, PCs
  <1>8. CASE ForegroundRelease
    <2>1. StoreOK'
      BY <1>0, <1>8, RescheduleOrLostOK DEF ForegroundRelease, StoreOK, TypeOK
    <2>2. ProcOK' /\ FgOK'
      BY <1>0, <1>8, ReleaseOK DEF ForegroundRelease
    <2> QED BY <1>8, <2>1, <2>2, TypeGroupsNext DEF ForegroundRelease, RestOK, TypeOK
  <1>9. CASE ForegroundReleaseFails
    <2>1. "unreleased" \in Resting
      BY DEF Resting, PCs, FrontendPCs
    <2>2. ProcOK' /\ FgOK'
      BY <1>0, <1>9, <2>1, DropOK DEF ForegroundReleaseFails
    <2> QED BY <1>9, <2>2, FaultOK, TypeGroupsNext
            DEF ForegroundReleaseFails, storeVars, StoreOK, RestOK, TypeOK
  <1>10. CASE ForegroundAbandon
    <2>1. ProcOK' /\ FgOK'
      BY <1>0, <1>10, ReleaseOK DEF ForegroundAbandon
    <2> QED BY <1>10, <2>1, TypeGroupsNext
            DEF ForegroundAbandon, storeVars, StoreOK, RestOK, TypeOK
  <1> QED
    BY <1>1, <1>2, <1>3, <1>4, <1>5, <1>6, <1>7, <1>8, <1>9, <1>10 DEF ForegroundStep

\* The settlement steps, of the foreground or of a worker, keep TypeOK.
LEMMA TypeSettle ==
  ASSUME TypeOK, NEW p \in Procs, SettleStep(p)
  PROVE  TypeOK'
  <1>0. Owner(p) \in Owners
    BY DEF Owner, Owners
  <1>1. CASE Persist(p)
    <2>1. ProcOK' /\ FgOK'
      <3>1. CASE Release(p)
        BY <3>1, ReleaseOK
      <3>2. CASE Goto(p, "insert") /\ UNCHANGED <<tok, att, out, ctok, fgVars>>
        <4>1. "insert" \in PCs /\ out[p] # "none"
          BY <1>1 DEF Persist, PCs, WorkerPCs, TypeOK
        <4> QED BY <3>2, <4>1, GotoOK DEF fgVars, FgOK, TypeOK
      <3> QED BY <1>1, <3>1, <3>2 DEF Persist
    <2> QED BY <1>1, <2>1, TypeGroupsNext DEF Persist, storeVars, StoreOK, RestOK, TypeOK
  <1>2. CASE Insert(p)
    <2>1. CASE PersistConflict(Owner(p), tok[p], out[p])
      <3>1. ProcOK' /\ FgOK'
        BY <1>2, <2>1, ReleaseOK DEF Insert
      <3> QED BY <1>2, <2>1, <3>1, TypeGroupsNext DEF Insert, StoreOK, RestOK, TypeOK
    <2>2. CASE ~PersistConflict(Owner(p), tok[p], out[p])
      <3>1. out[p] \in {"completed", "failed"} /\ tok[p] \in Nat
        BY <1>2 DEF Insert, TypeOK, Outcomes
      <3>2. intent' \in IntentType \cup {NoIntent}
        <4>1. CASE intent = NoIntent
          <5>1. intent' = [NoIntent EXCEPT !.src = tok[p], !.srcOwner = Owner(p),
                                           !.outcome = out[p], !.due = TRUE]
            BY <1>2, <2>2, <4>1 DEF Insert, PersistInsert
          <5>2. intent' = [src |-> tok[p], srcOwner |-> Owner(p), outcome |-> out[p],
                           ctok |-> 0, cowner |-> NoOwner, clive |-> FALSE, due |-> TRUE]
            BY <5>1, Zenon DEF NoIntent
          <5> QED BY <5>2, <1>0, <3>1 DEF IntentType
        <4>2. CASE intent # NoIntent
          BY <1>2, <2>2, <4>2 DEF Insert, PersistInsert, TypeOK
        <4> QED BY <4>1, <4>2
      <3>3. ProcOK' /\ FgOK'
        <4>1. "sclaim" \in PCs
          BY DEF PCs, WorkerPCs
        <4> QED BY <1>2, <2>2, <4>1, GotoOK DEF Insert, fgVars, FgOK, TypeOK
      <3> QED BY <1>2, <3>2, <3>3, TypeGroupsNext DEF Insert, StoreOK, RestOK, TypeOK
    <2> QED BY <2>1, <2>2
  <1>3. CASE SettlementClaim(p)
    <2>1. CASE TakeIntent(p)
      BY <1>3, <2>1, <1>0, TakeIntentOK, TypeGroupsNext DEF SettlementClaim, StoreOK, RestOK, TypeOK
    <2>2. CASE Release(p) /\ UNCHANGED intent
      BY <1>3, <2>2, ReleaseOK, TypeGroupsNext DEF SettlementClaim, StoreOK, RestOK, TypeOK
    <2> QED BY <1>3, <2>1, <2>2 DEF SettlementClaim
  <1>4. CASE Finalize(p)
    <2>1. row' \in RowType /\ intent' \in IntentType \cup {NoIntent}
          /\ outbox' \in [version : Nat, due : BOOLEAN]
      <3>1. CASE FinalizeSettlement(Owner(p), ctok[p])
        <4>1. row' \in RowType /\ intent' = NoIntent
          BY <3>1, FinalizeEffect
        <4>2. row.version + 1 \in Nat
          BY DEF TypeOK, RowType
        <4> QED BY <3>1, <4>1, <4>2, EnqueueOK DEF FinalizeSettlement, TypeOK
      <3>2. CASE UNCHANGED <<row, intent, outbox>>
        BY <3>2 DEF TypeOK
      <3> QED BY <1>4, <3>1, <3>2 DEF Finalize
    <2> QED BY <1>4, <2>1, ReleaseOK, TypeGroupsNext DEF Finalize, StoreOK, RestOK, TypeOK
  <1>5. CASE FinalizeRetry(p)
    <2>1. intent' \in IntentType \cup {NoIntent}
      BY <1>5, Zenon DEF FinalizeRetry, RetrySettlementIntent, HoldsIntent, IntentType, TypeOK
    <2> QED BY <1>5, <2>1, ReleaseOK, TypeGroupsNext DEF FinalizeRetry, StoreOK, RestOK, TypeOK
  <1> QED BY <1>1, <1>2, <1>3, <1>4, <1>5 DEF SettleStep

\* The phases of a worker's tick keep TypeOK.
LEMMA TypeTick ==
  ASSUME TypeOK, NEW w \in Workers, TickStep(w)
  PROVE  TypeOK'
  <1>0. w \in Procs /\ Owner(w) \in Owners /\ WorkerOwner \in Owners
    BY DEF Procs, Owner, Owners
  <1>1. CASE Drain(w)
    <2>1. CASE TakeIntent(w)
      BY <1>0, <1>1, <2>1, TakeIntentOK, TypeGroupsNext DEF Drain, StoreOK, RestOK, TypeOK
    <2>2. CASE Goto(w, "reapD") /\ UNCHANGED <<intent, tok, att, out, ctok, fgVars>>
      <3>1. ProcOK'
        BY <1>0, <2>2, GotoOK DEF PCs, WorkerPCs
      <3> QED BY <1>1, <2>2, <3>1, TypeGroupsNext DEF Drain, fgVars, FgOK, StoreOK, RestOK, TypeOK
    <2> QED BY <1>1, <2>1, <2>2 DEF Drain
  <1>2. ASSUME NEW here, NEW found \in BOOLEAN, NEW l2 \in Resting, NEW l \in Resting,
               Scan(w, here, found, l2, l)
        PROVE  TypeOK'
    <2>1. ProcOK'
      BY <1>0, <1>2, GotoOK DEF Scan, Resting
    <2> QED BY <1>2, <2>1, TypeGroupsNext DEF Scan, storeVars, fgVars, FgOK, StoreOK, RestOK, TypeOK
  <1>3. CASE ScanDeadlines(w) \/ ScanUnsafe(w) \/ ScanClaim(w)
    <2>1. {"reapD2", "reapS", "reapS2", "project", "claim2", "drain"} \subseteq Resting
      BY DEF Resting, PCs, WorkerPCs
    <2>2. DeadlineSelect \in BOOLEAN /\ UnsafeSelect \in BOOLEAN /\ ClaimSelect \in BOOLEAN
      BY DEF DeadlineSelect, UnsafeSelect, ClaimSelect
    <2> QED BY <1>2, <1>3, <2>1, <2>2 DEF ScanDeadlines, ScanUnsafe, ScanClaim
  <1>4. row.version + 1 \in Nat
    BY DEF TypeOK, RowType
  <1>5. CASE ApplyDeadlines(w)
    <2>1. row' \in RowType /\ outbox' \in [version : Nat, due : BOOLEAN]
      BY <1>4, <1>5, DeadlineEffect, EnqueueOK DEF ApplyDeadlines, ReapDeadlines, TypeOK
    <2>2. ProcOK'
      BY <1>0, <1>5, GotoOK DEF ApplyDeadlines, PCs, WorkerPCs
    <2> QED BY <1>5, <2>1, <2>2, TypeGroupsNext DEF ApplyDeadlines, fgVars, FgOK, StoreOK, RestOK, TypeOK
  <1>6. CASE ApplyUnsafe(w)
    <2>1. row' \in RowType /\ outbox' \in [version : Nat, due : BOOLEAN]
      BY <1>4, <1>6, UnsafeEffect, EnqueueOK DEF ApplyUnsafe, ReapUnsafeCheckpointed, TypeOK
    <2>2. ProcOK'
      BY <1>0, <1>6, GotoOK DEF ApplyUnsafe, PCs, WorkerPCs
    <2> QED BY <1>6, <2>1, <2>2, TypeGroupsNext DEF ApplyUnsafe, fgVars, FgOK, StoreOK, RestOK, TypeOK
  <1>7. CASE Project(w)
    <2>1. outbox.version \in Nat
      BY DEF TypeOK
    <2>2. pend' \in [status : Outcomes, version : Nat]
      BY <1>7, <2>1 DEF Project, SaveDurableCAS, ProjectedStatus, Outcomes, TypeOK
    <2>3. ProcOK'
      BY <1>0, <1>7, GotoOK DEF Project, PCs, WorkerPCs
    <2> QED BY <1>7, <2>2, <2>3, TypeGroupsNext DEF Project, storeVars, fgVars, FgOK, StoreOK, RestOK, TypeOK
  <1>8. CASE ProjectCommit(w)
    <2>1. outbox' \in [version : Nat, due : BOOLEAN]
      BY <1>8 DEF ProjectCommit, NoOutbox
    <2>2. ProcOK'
      BY <1>0, <1>8, GotoOK DEF ProjectCommit, PCs, WorkerPCs
    <2> QED BY <1>8, <2>1, <2>2, TypeGroupsNext DEF ProjectCommit, fgVars, FgOK, StoreOK, RestOK, TypeOK
  <1>9. CASE ProjectFails(w)
    <2>1. outbox' \in [version : Nat, due : BOOLEAN]
      BY <1>9 DEF ProjectFails, TypeOK
    <2>2. ProcOK'
      BY <1>0, <1>9, GotoOK DEF ProjectFails, PCs, WorkerPCs
    <2> QED BY <1>9, <2>1, <2>2, FaultOK, TypeGroupsNext
            DEF ProjectFails, fgVars, FgOK, StoreOK, RestOK, TypeOK
  <1>10. CASE ApplyClaim(w)
    <2>1. CASE ClaimableRow
      <3>1. row' \in RowType
        BY <1>0, <1>10, <2>1, ClaimEffect DEF ApplyClaim
      <3>2. row'.token \in Nat /\ row.attempt \in Nat
        BY <3>1 DEF RowType, TypeOK
      <3>3. tok' \in [Procs -> Nat] /\ att' \in [Procs -> Nat]
        BY <1>10, <2>1, <3>2 DEF ApplyClaim, TypeOK
      <3>4. pc' \in [Procs -> PCs] /\ \A q \in Procs : pc'[q] \in {"persist", "insert"} => out'[q] # "none"
        BY <1>10, <2>1 DEF ApplyClaim, Goto, TypeOK, PCs, FrontendPCs
      <3>5. StoreOK' /\ RestOK' /\ FgOK'
        BY <1>10, <3>1 DEF ApplyClaim, fgVars, FgOK, StoreOK, RestOK, TypeOK
      <3> QED BY <1>10, <3>3, <3>4, <3>5, TypeGroupsNext DEF ApplyClaim, ProcOK, TypeOK
    <2>2. CASE ~ClaimableRow
      <3>1. ProcOK'
        BY <1>0, <1>10, <2>2, GotoOK DEF ApplyClaim, PCs, WorkerPCs
      <3> QED BY <1>10, <2>2, <3>1, TypeGroupsNext DEF ApplyClaim, fgVars, FgOK, StoreOK, RestOK, TypeOK
    <2> QED BY <2>1, <2>2
  <1> QED BY <1>1, <1>3, <1>5, <1>6, <1>7, <1>8, <1>9, <1>10 DEF TickStep

\* The steps of a claimed execution keep TypeOK.
LEMMA TypeRun ==
  ASSUME TypeOK, NEW w \in Workers, RunStep(w)
  PROVE  TypeOK'
  <1>0. w \in Procs /\ Owner(w) \in Owners
    BY DEF Procs, Owner, Owners
  <1>1. CASE RunRenew(w)
    <2>1. row' \in RowType
      BY <1>1, LeaseEffect DEF RunRenew, RenewLease
    <2> QED BY <1>1, <2>1 DEF RunRenew, TypeOK, procVars, fgVars
  <1>2. CASE RunLeaseLost(w)
    <2>1. ProcOK' /\ FgOK'
      BY <1>0, <1>2, ReleaseOK DEF RunLeaseLost
    <2> QED BY <1>2, <2>1, TypeGroupsNext DEF RunLeaseLost, storeVars, StoreOK, RestOK, TypeOK
  <1>3. ASSUME NEW d \in BOOLEAN, RunReschedule(w, d)
        PROVE  TypeOK'
    <2>1. StoreOK'
      BY <1>0, <1>3, RescheduleOrLostOK DEF RunReschedule, StoreOK, TypeOK
    <2>2. ProcOK' /\ FgOK'
      BY <1>0, <1>3, ReleaseOK DEF RunReschedule
    <2> QED BY <1>3, <2>1, <2>2, TypeGroupsNext DEF RunReschedule, RestOK, TypeOK
  <1>4. ASSUME NEW o \in {"completed", "failed"}, RunSettle(w, o)
        PROVE  TypeOK'
    <2>1. pc' \in [Procs -> PCs] /\ out' \in [Procs -> Outcomes]
      BY <1>4 DEF RunSettle, Goto, TypeOK, PCs, FrontendPCs, Outcomes
    <2>2. \A q \in Procs : pc'[q] \in {"persist", "insert"} => out'[q] # "none"
      BY <1>0, <1>4 DEF RunSettle, Goto, TypeOK
    <2> QED BY <1>4, <2>1, <2>2 DEF RunSettle, TypeOK, storeVars, fgVars, PCs
  <1> QED BY <1>1, <1>2, <1>3, <1>4 DEF RunStep

\* Faults and the passage of time keep TypeOK.
LEMMA TypeEnvironment ==
  ASSUME TypeOK, EnvironmentStep
  PROVE  TypeOK'
  <1>1. ASSUME NEW p \in Procs, OpError(p)
        PROVE  TypeOK'
    <2>1. ProcOK' /\ FgOK'
      <3>1. CASE RetriesPersist(p) /\ Goto(p, "persist") /\ fgTries' = fgTries + 1
                 /\ UNCHANGED <<tok, att, out, ctok, fgRank, fgRenewing>>
        <4>1. "persist" \in PCs /\ out[p] # "none"
          BY <3>1 DEF RetriesPersist, PCs, FrontendPCs, TypeOK
        <4> QED BY <3>1, <4>1, GotoOK DEF FgOK, TypeOK
      <3>2. CASE Goto(p, "sretry") /\ UNCHANGED <<tok, att, out, ctok, fgVars>>
        <4>1. "sretry" \in PCs
          BY DEF PCs, FrontendPCs
        <4> QED BY <3>2, <4>1, GotoOK DEF fgVars, FgOK, TypeOK
      <3>3. CASE Drop(p, AfterError(p))
        BY <3>3, AfterResting, DropOK
      <3> QED BY <1>1, <3>1, <3>2, <3>3 DEF OpError
    <2> QED BY <1>1, <2>1, FaultOK, TypeGroupsNext DEF OpError, storeVars, StoreOK, RestOK, TypeOK
  <1>2. ASSUME NEW p \in Procs, Crash(p)
        PROVE  TypeOK'
    <2>1. (IF p = Frontend THEN "done" ELSE "drain") \in Resting
      BY DEF Resting, PCs, FrontendPCs, WorkerPCs
    <2>2. ProcOK' /\ FgOK'
      BY <1>2, <2>1, DropOK DEF Crash
    <2> QED BY <1>2, <2>2, FaultOK, TypeGroupsNext DEF Crash, storeVars, StoreOK, RestOK, TypeOK
  <1>3. CASE LeaseExpires
    <2>1. row' \in RowType /\ faults' \in Nat
      BY <1>3, LeaseEffect, FaultOK DEF LeaseExpires, TypeOK
    <2> QED BY <1>3, <2>1 DEF LeaseExpires, TypeOK, procVars, fgVars
  <1>4. CASE IntentClaimExpires
    <2>1. intent' \in IntentType \cup {NoIntent}
      <3>1. intent \in IntentType
        BY <1>4 DEF IntentClaimExpires, TypeOK, NoIntent
      <3> QED BY <1>4, <3>1, Zenon DEF IntentClaimExpires, IntentType
    <2>2. faults' \in Nat
      BY <1>4, FaultOK DEF IntentClaimExpires, TypeOK
    <2> QED BY <1>4, <2>1, <2>2 DEF IntentClaimExpires, TypeOK, procVars, fgVars
  <1>5. CASE RetryDue
    <2>1. row' \in RowType
      BY <1>5, DueEffect DEF RetryDue, TypeOK
    <2>2. intent' \in IntentType \cup {NoIntent}
      BY <1>5, Zenon DEF RetryDue, TypeOK, IntentType
    <2>3. outbox' \in [version : Nat, due : BOOLEAN]
      BY <1>5 DEF RetryDue, TypeOK
    <2> QED BY <1>5, <2>1, <2>2, <2>3 DEF RetryDue, TypeOK, procVars, fgVars
  <1>6. CASE DeadlinePasses
    BY <1>6 DEF DeadlinePasses, TypeOK, procVars, fgVars
  <1>7. CASE WindowCloses
    BY <1>7 DEF WindowCloses, TypeOK, storeVars, procVars, fgVars, NoEntry, Outcomes
  <1> QED BY <1>1, <1>2, <1>3, <1>4, <1>5, <1>6, <1>7 DEF EnvironmentStep

\* Every variable keeps its type: the token, attempt and version counters stay
\* natural numbers, an intent always names an owner and an outcome, and a
\* process about to persist an outcome has one.
LEMMA TypeStep == TypeOK /\ [Next]_vars => TypeOK'
  <1> SUFFICES ASSUME TypeOK, [Next]_vars PROVE TypeOK'
    OBVIOUS
  <1>1. CASE UNCHANGED vars
    BY <1>1 DEF vars, storeVars, procVars, fgVars, TypeOK
  <1> QED
    BY <1>1, TypeForeground, TypeSettle, TypeTick, TypeRun, TypeEnvironment DEF Next

\* The initial state is well typed.
LEMMA TypeInit == Init => TypeOK
  <1> SUFFICES ASSUME Init PROVE TypeOK
    OBVIOUS
  <1>1. row \in RowType
    BY DEF Init, AbsentRow, RowType, CommitStates
  <1>2. pc \in [Procs -> PCs] /\ \A p \in Procs : pc[p] \notin {"persist", "insert"}
    BY DEF Init, PCs, FrontendPCs, WorkerPCs
  <1>3. outbox \in [version : Nat, due : BOOLEAN]
    BY DEF Init, NoOutbox
  <1>4. pend \in [status : Outcomes, version : Nat]
    BY DEF Init, NoEntry, Outcomes
  <1>5. StoreOK /\ RestOK
    <2>1. intent \in IntentType \cup {NoIntent} /\ deadline \in BOOLEAN
          /\ window \in BOOLEAN
      BY Zenon DEF Init
    <2>2. wire \in 0..4 /\ faults \in Nat
      BY DEF Init
    <2> QED BY <1>1, <1>3, <1>4, <2>1, <2>2 DEF StoreOK, RestOK
  <1>6. /\ tok \in [Procs -> Nat] /\ att \in [Procs -> Nat]
        /\ ctok \in [Procs -> Nat] /\ out \in [Procs -> Outcomes]
    BY DEF Init, Outcomes
  <1>7. FgOK
    <2>1. fgRenewing \in BOOLEAN
      BY Zenon DEF Init
    <2>2. fgRank \in 0..4 /\ fgTries \in Nat
      BY DEF Init
    <2> QED BY <2>1, <2>2 DEF FgOK
  <1> QED BY <1>2, <1>5, <1>6, <1>7, TypeGroups DEF ProcOK

\* The model is well typed whatever the number of workers, retries and faults.
THEOREM TypeCorrect == Spec => []TypeOK
  BY TypeInit, TypeStep, PTL DEF Spec

-----------------------------------------------------------------------------
(* The inductive invariant.  Steps are classified by what they do to the   *)
(* task row and to the tokens the processes hold.                          *)

\* Ranks and the claim gate agree: runnable is exactly "below content".
LEMMA Ranks ==
  /\ \A c \in CommitStates : CommitStateRank(c) \in 0..4
  /\ \A c \in CommitStates : IsRunnableCommitState(c) <=> CommitStateRank(c) < ContentRank
  /\ CommitStateRank("terminal") = 4 /\ ContentRank = 2
  /\ \A c \in {"content", "tool_call", "terminal"} : CommitStateRank(c) >= ContentRank
  BY DEF CommitStates, CommitStateRank, IsRunnableCommitState, ContentRank

\* Processes forget tokens, they do not invent them.
Forgets == \A p \in Procs : tok'[p] \in {0, tok[p]}

\* Lease and timer updates; a lease is only renewed on a running row.
Idles ==
  /\ row'.status = row.status /\ row'.commit = row.commit
  /\ row'.owner = row.owner /\ row'.token = row.token /\ row'.by = row.by
  /\ row'.live => (row.live \/ row.status = "running")

Parks ==
  /\ row.status = "running" /\ row'.status = "retry_scheduled"
  /\ row'.commit = row.commit /\ row'.token = row.token /\ row'.by = row.by
  /\ row'.owner = NoOwner /\ row'.live = FALSE
  /\ IsRunnableCommitState(row.commit)

Concludes ==
  /\ row.owner \in Owners /\ row.status = "running" /\ ~Settled
  /\ row'.status \in {"completed", "failed"} /\ row'.commit = "terminal"
  /\ row'.owner = NoOwner /\ row'.live = FALSE
  /\ row'.token = row.token /\ row'.by = row.token

Expires ==
  /\ row.status # "absent" /\ ~Settled /\ IsRunnableCommitState(row.commit)
  /\ row'.status = "expired" /\ row'.commit = "terminal"
  /\ row'.owner = NoOwner /\ row'.live = FALSE
  /\ row'.token = row.token + 1 /\ row'.by = row.by

Blocks ==
  /\ row.status # "absent" /\ ~Settled
  /\ row.commit \in {"content", "tool_call", "terminal"}
  /\ row'.status = "resume_safety_blocked" /\ row'.commit = row.commit
  /\ row'.owner = NoOwner /\ row'.live = FALSE
  /\ row'.token = row.token + 1 /\ row'.by = row.by

\* A step that hands out no token and shows no bytes keeps the invariant.
LEMMA QuietStep ==
  ASSUME IInv, TypeOK', UNCHANGED <<fgRank, wire>>, Forgets,
         Idles \/ Parks \/ Concludes \/ Expires \/ Blocks
  PROVE  IInv'
  <1> USE DEF IInv
  <1>0. /\ row.token \in Nat /\ row'.token \in Nat /\ row.commit \in CommitStates
        /\ fgRank \in 0..4 /\ wire \in 0..4
        /\ \A p \in Procs : tok[p] \in Nat /\ tok'[p] \in Nat
        /\ Frontend \in Procs /\ \A w \in Workers : w \in Procs
    BY DEF TypeOK, RowType, Procs
  <1>1. row'.token = row.token \/ row'.token = row.token + 1
    BY DEF Idles, Parks, Concludes, Expires, Blocks
  <1>2. TokensHandedOut'
    <2>1. (row'.token = 0) = (row'.status = "absent")
      BY <1>0 DEF Idles, Parks, Concludes, Expires, Blocks, TokensHandedOut
    <2>2. \A p \in Procs : tok'[p] <= row'.token
      BY <1>0, <1>1 DEF TokensHandedOut, Forgets
    <2>3. tok'[Frontend] \in {0, 1} /\ \A w \in Workers : tok'[w] # 1
      BY <1>0 DEF TokensHandedOut, Forgets
    <2> QED BY <2>1, <2>2, <2>3 DEF TokensHandedOut
  <1>3. FencingTokensUnique'
    BY <1>0 DEF FencingTokensUnique, Forgets
  <1>4. WriteAhead'
    BY <1>0, Ranks DEF WriteAhead, Idles, Parks, Concludes, Expires, Blocks
  <1>5. ForegroundAlone'
    <2> SUFFICES ASSUME fgRank >= ContentRank PROVE ForegroundAlone'
      BY DEF ForegroundAlone
    <2>1. \A w \in Workers : tok'[w] = 0
      BY <1>0 DEF ForegroundAlone, Forgets
    <2>2. ~IsRunnableCommitState(row.commit)
      BY <1>0, Ranks DEF WriteAhead
    <2>3. CASE Idles
      BY <2>1, <2>3 DEF Idles, ForegroundAlone
    <2>4. CASE Concludes
      BY <2>1, <2>4 DEF Concludes, ForegroundAlone, Settled, IsSettledStatus
    <2>5. CASE Blocks
      BY <2>1, <2>5 DEF Blocks, ForegroundAlone, Settled, IsSettledStatus
    <2> QED BY <2>2, <2>3, <2>4, <2>5 DEF Parks, Expires
  <1>6. SettledClosed'
    <2>1. CASE Idles
      BY <2>1 DEF Idles, SettledClosed, Settled, IsSettledStatus, IsTerminalStatus,
         TerminalStatuses
    <2>2. CASE Parks
      BY <2>2 DEF Parks, SettledClosed, Settled, IsSettledStatus, IsTerminalStatus,
         TerminalStatuses
    <2>3. CASE Concludes \/ Expires \/ Blocks
      BY <2>3 DEF Concludes, Expires, Blocks, SettledClosed, IsRunnableCommitState
    <2> QED BY <2>1, <2>2, <2>3
  <1>7. ResultOfLastClaim'
    BY DEF Idles, Parks, Concludes, Expires, Blocks, ResultOfLastClaim
  <1> QED BY <1>2, <1>3, <1>4, <1>5, <1>6, <1>7

\* What drops or keeps its tokens forgets; what leaves the row alone idles.
LEMMA Frames ==
  ASSUME TypeOK
  PROVE  /\ \A p \in Procs : \A l : Drop(p, l) => Forgets /\ fgRank' = fgRank
         /\ \A p \in Procs : Release(p) => Forgets /\ fgRank' = fgRank
         /\ UNCHANGED tok => Forgets
         /\ UNCHANGED row => Idles
  BY DEF TypeOK, Drop, Release, Forgets, Idles

\* A reschedule, or its failure to find the row, parks or idles.
LEMMA RescheduleQuiet ==
  ASSUME TypeOK, NEW p \in Procs, NEW d \in BOOLEAN, RescheduleOrLost(p, d)
  PROVE  Idles \/ Parks
  <1>1. CASE Reschedule(Owner(p), tok[p], d)
    BY <1>1, RescheduleEffect DEF Parks
  <1>2. CASE UNCHANGED row
    BY <1>2 DEF Idles
  <1> QED BY <1>1, <1>2 DEF RescheduleOrLost

\* A renewal, by whoever holds the lease, idles.
LEMMA RenewQuiet ==
  ASSUME TypeOK, NEW o, NEW k, RenewLease(o, k)
  PROVE  Idles
  BY LeaseEffect DEF RenewLease, HoldsRunning, Idles

\* The first token: no process can hold one before.
LEMMA AcceptStep ==
  ASSUME IInv, TypeOK', Accept
  PROVE  IInv'
  <1> USE DEF IInv
  <1>1. /\ row.status = "absent" /\ row'.status = "running" /\ row'.commit = "none"
        /\ row'.token = 1 /\ row'.by = 0
    BY CreateEffect DEF Accept, Owners
  <1>2. row.token = 0 /\ \A p \in Procs : tok[p] = 0
    BY <1>1 DEF TokensHandedOut, TypeOK, RowType
  <1>3. /\ tok'[Frontend] = 1 /\ Frontend \in Procs
        /\ \A w \in Workers : w \in Procs /\ w # Frontend /\ tok'[w] = 0
        /\ \A p \in Procs : p # Frontend => tok'[p] = 0
    BY <1>2, ConstantsAssumption DEF Accept, TypeOK, Procs
  <1>4. fgRank = 0 /\ wire = 0 /\ fgRank' = 0 /\ wire' = 0
    <2>1. row.commit \in CommitStates /\ fgRank \in 0..4 /\ wire \in 0..4
      BY DEF TypeOK, RowType
    <2>2. row.commit = "none"
      BY <1>1 DEF SettledClosed
    <2>3. CommitStateRank("none") = 0
      BY DEF CommitStateRank
    <2> QED BY <2>1, <2>2, <2>3 DEF WriteAhead, Accept
  <1>5. TokensHandedOut' /\ FencingTokensUnique'
    BY <1>1, <1>3 DEF TokensHandedOut, FencingTokensUnique
  <1>6. WriteAhead'
    BY <1>1, <1>4 DEF WriteAhead, CommitStateRank
  <1>7. ForegroundAlone'
    BY <1>4, Ranks DEF ForegroundAlone
  <1>8. SettledClosed' /\ ResultOfLastClaim'
    BY <1>1 DEF SettledClosed, ResultOfLastClaim, Settled, IsSettledStatus,
       IsTerminalStatus, TerminalStatuses
  <1> QED BY <1>5, <1>6, <1>7, <1>8

\* Only the holder of token 1 can checkpoint, and while it holds it no worker
\* has a token.
LEMMA CheckpointStep ==
  ASSUME IInv, TypeOK', NEW s \in CommitStates,
         CheckpointCommitState(FrontendOwner, tok[Frontend], s),
         UNCHANGED <<tok, wire>>,
         \/ fgRank' = fgRank
         \/ fgRank' = CommitStateRank(s) /\ CommitStateRank(s) > fgRank
  PROVE  IInv'
  <1> USE DEF IInv
  <1>1. /\ row.status = "running" /\ row'.status = "running"
        /\ row.token = tok[Frontend] /\ row'.token = row.token
        /\ row'.commit = s /\ row'.by = row.by
        /\ CommitStateRank(row.commit) < CommitStateRank(s)
    BY CheckpointEffect
  <1>2. /\ row.token \in Nat /\ row.commit \in CommitStates /\ wire \in 0..4
        /\ fgRank \in 0..4 /\ Frontend \in Procs
        /\ \A w \in Workers : w \in Procs /\ tok[w] \in Nat
    BY DEF TypeOK, RowType, Procs
  <1>3. row.token = 1 /\ \A w \in Workers : tok[w] = 0
    BY <1>1, <1>2 DEF TokensHandedOut
  <1>4. TokensHandedOut' /\ FencingTokensUnique'
    BY <1>1 DEF TokensHandedOut, FencingTokensUnique
  <1>5. WriteAhead'
    BY <1>1, <1>2, Ranks DEF WriteAhead
  <1>6. ForegroundAlone'
    BY <1>1, <1>3 DEF ForegroundAlone
  <1>7. SettledClosed' /\ ResultOfLastClaim'
    BY <1>1 DEF SettledClosed, ResultOfLastClaim, Settled, IsSettledStatus,
       IsTerminalStatus, TerminalStatuses
  <1> QED BY <1>4, <1>5, <1>6, <1>7

\* An execution claim hands out a token nobody holds, and only while nothing
\* was committed.
LEMMA ClaimStep ==
  ASSUME IInv, TypeOK', NEW w \in Workers, ClaimRunnable(WorkerOwner),
         tok' = [tok EXCEPT ![w] = row'.token], UNCHANGED <<fgRank, wire>>
  PROVE  IInv'
  <1> USE DEF IInv
  <1>1. /\ row.status \in RunnableStatuses /\ row'.status = "running"
        /\ row'.token = row.token + 1 /\ row'.commit = row.commit
        /\ row'.by = row.by /\ IsRunnableCommitState(row.commit)
    BY ClaimEffect DEF Owners
  <1>2. /\ row.token \in Nat /\ row.commit \in CommitStates
        /\ fgRank \in 0..4 /\ Frontend \in Procs /\ w \in Procs /\ w # Frontend
        /\ \A p \in Procs : tok[p] \in Nat
        /\ \A v \in Workers : v \in Procs /\ v # Frontend
    BY ConstantsAssumption DEF TypeOK, RowType, Procs
  <1>3. row.token > 0
    BY <1>1, <1>2 DEF TokensHandedOut, RunnableStatuses
  <1>4. tok'[w] = row.token + 1 /\ \A p \in Procs : p # w => tok'[p] = tok[p]
    BY <1>1, <1>2 DEF TypeOK
  <1>5. TokensHandedOut'
    <2>1. \A p \in Procs : tok'[p] <= row'.token
      BY <1>1, <1>2, <1>4 DEF TokensHandedOut
    <2>2. \A v \in Workers : tok'[v] # 1
      BY <1>2, <1>3, <1>4 DEF TokensHandedOut
    <2> QED BY <1>1, <1>2, <1>3, <1>4, <2>1, <2>2 DEF TokensHandedOut
  <1>6. FencingTokensUnique'
    BY <1>2, <1>4 DEF TokensHandedOut, FencingTokensUnique
  <1>7. WriteAhead' /\ ForegroundAlone'
    BY <1>1, <1>2, Ranks DEF WriteAhead, ForegroundAlone
  <1>8. SettledClosed' /\ ResultOfLastClaim'
    BY <1>1 DEF SettledClosed, ResultOfLastClaim, Settled, IsSettledStatus,
       IsTerminalStatus, TerminalStatuses
  <1> QED BY <1>5, <1>6, <1>7, <1>8

\* The foreground handler's steps keep the invariant.
LEMMA InvForeground ==
  ASSUME IInv, TypeOK', ForegroundStep
  PROVE  IInv'
  <1>0. TypeOK /\ Frontend \in Procs
    BY DEF IInv, Procs
  <1>1. CASE Accept
    BY <1>1, AcceptStep
  <1>2. CASE Handoff
    BY <1>0, <1>2, Frames, RescheduleQuiet, QuietStep DEF Handoff
  <1>3. ASSUME NEW s \in StreamStates, Checkpoint(s) \/ CheckpointReplyLost(s)
        PROVE  IInv'
    BY <1>3, CheckpointStep, ConstantsAssumption
       DEF Checkpoint, CheckpointReplyLost, procVars, fgVars
  <1>4. CASE WriteFrame
    <2>1. WriteAhead'
      <3>1. row.commit \in CommitStates /\ fgRank \in 0..4
        BY <1>0 DEF TypeOK, RowType
      <3> QED BY <1>4, <3>1, Ranks DEF WriteFrame, storeVars, fgVars, IInv, WriteAhead
    <2> QED
      BY <1>4, <2>1 DEF WriteFrame, storeVars, procVars, fgVars, IInv,
         TokensHandedOut, FencingTokensUnique, ForegroundAlone, SettledClosed,
         ResultOfLastClaim, Settled
  <1>5. CASE ForegroundRenew
    BY <1>0, <1>5, RenewQuiet, Frames, QuietStep DEF ForegroundRenew, procVars, fgVars
  <1>6. CASE ForegroundRenewStops
    BY <1>0, <1>6, Frames, QuietStep DEF ForegroundRenewStops, storeVars, procVars
  <1>7. ASSUME NEW o \in {"completed", "failed"}, ForegroundSettle(o)
        PROVE  IInv'
    BY <1>0, <1>7, Frames, QuietStep DEF ForegroundSettle, storeVars, fgVars
  <1>8. CASE ForegroundRelease
    BY <1>0, <1>8, Frames, RescheduleQuiet, QuietStep DEF ForegroundRelease
  <1>9. CASE ForegroundReleaseFails
    BY <1>0, <1>9, Frames, QuietStep DEF ForegroundReleaseFails, storeVars
  <1>10. CASE ForegroundAbandon
    BY <1>0, <1>10, Frames, QuietStep DEF ForegroundAbandon, storeVars
  <1> QED
    BY <1>1, <1>2, <1>3, <1>4, <1>5, <1>6, <1>7, <1>8, <1>9, <1>10 DEF ForegroundStep

\* Settlement steps keep the invariant: an intent settles only the lease it
\* was frozen under.
LEMMA InvSettle ==
  ASSUME IInv, TypeOK', NEW p \in Procs, SettleStep(p)
  PROVE  IInv'
  <1>0. TypeOK
    BY DEF IInv
  <1>1. CASE Persist(p)
    BY <1>0, <1>1, Frames, QuietStep DEF Persist, storeVars, fgVars
  <1>2. CASE Insert(p)
    BY <1>0, <1>2, Frames, QuietStep DEF Insert, fgVars
  <1>3. CASE SettlementClaim(p)
    BY <1>0, <1>3, Frames, QuietStep DEF SettlementClaim, TakeIntent, fgVars
  <1>4. CASE Finalize(p)
    <2>1. Idles \/ Concludes
      <3>1. CASE FinalizeSettlement(Owner(p), ctok[p])
        <4>1. CASE UNCHANGED row
          BY <1>0, <4>1, Frames
        <4>2. CASE row' # row
          <5>1. /\ row.owner \in Owners /\ ~IsTerminalStatus(row.status)
                /\ row'.status \in {"completed", "failed"} /\ row'.commit = "terminal"
                /\ row'.owner = NoOwner /\ row'.live = FALSE
                /\ row'.token = row.token /\ row'.by = row.token
            BY <1>0, <3>1, <4>2, FinalizeEffect
          <5>2. NoOwner \notin Owners
            BY DEF NoOwner, Owners, FrontendOwner, WorkerOwner
          <5>3. row.status = "running" /\ ~Settled
            BY <5>1, <5>2 DEF IInv, SettledClosed, Settled, IsSettledStatus,
               IsTerminalStatus, TerminalStatuses
          <5> QED BY <5>1, <5>3 DEF Concludes
        <4> QED BY <4>1, <4>2
      <3>2. CASE UNCHANGED row
        BY <1>0, <3>2, Frames
      <3> QED BY <1>4, <3>1, <3>2 DEF Finalize
    <2> QED BY <1>0, <1>4, <2>1, Frames, QuietStep DEF Finalize
  <1>5. CASE FinalizeRetry(p)
    BY <1>0, <1>5, Frames, QuietStep DEF FinalizeRetry
  <1> QED BY <1>1, <1>2, <1>3, <1>4, <1>5 DEF SettleStep

\* The phases of a worker's tick keep the invariant.
LEMMA InvTick ==
  ASSUME IInv, TypeOK', NEW w \in Workers, TickStep(w)
  PROVE  IInv'
  <1>0. TypeOK /\ w \in Procs
    BY DEF IInv, Procs
  <1>1. CASE Drain(w)
    BY <1>0, <1>1, Frames, QuietStep DEF Drain, TakeIntent, fgVars
  <1>2. CASE ScanDeadlines(w) \/ ScanUnsafe(w) \/ ScanClaim(w)
    BY <1>0, <1>2, Frames, QuietStep
       DEF ScanDeadlines, ScanUnsafe, ScanClaim, Scan, storeVars, fgVars
  <1>3. CASE ApplyDeadlines(w)
    <2>1. Idles \/ Expires
      <3>1. CASE ReapDeadlines
        <4>1. ~Settled
          BY <1>0, <3>1, DeadlineEffect DEF IInv, SettledClosed
        <4> QED BY <1>0, <3>1, <4>1, DeadlineEffect DEF Expires
      <3>2. CASE UNCHANGED row
        BY <1>0, <3>2, Frames
      <3> QED BY <1>3, <3>1, <3>2 DEF ApplyDeadlines
    <2> QED BY <1>0, <1>3, <2>1, Frames, QuietStep DEF ApplyDeadlines, fgVars
  <1>4. CASE ApplyUnsafe(w)
    <2>1. Idles \/ Blocks
      <3>1. CASE ReapUnsafeCheckpointed
        <4>1. row.status # "absent"
          BY <1>0, <3>1, UnsafeEffect DEF IInv, SettledClosed
        <4> QED BY <1>0, <3>1, <4>1, UnsafeEffect DEF Blocks, Settled
      <3>2. CASE UNCHANGED row
        BY <1>0, <3>2, Frames
      <3> QED BY <1>4, <3>1, <3>2 DEF ApplyUnsafe
    <2> QED BY <1>0, <1>4, <2>1, Frames, QuietStep DEF ApplyUnsafe, fgVars
  <1>5. CASE Project(w)
    BY <1>0, <1>5, Frames, QuietStep DEF Project, storeVars, fgVars
  <1>6. CASE ProjectCommit(w) \/ ProjectFails(w)
    BY <1>0, <1>6, Frames, QuietStep DEF ProjectCommit, ProjectFails, fgVars
  <1>7. CASE ApplyClaim(w)
    <2>1. CASE ClaimableRow
      BY <1>7, <2>1, ClaimStep DEF ApplyClaim, fgVars
    <2>2. CASE ~ClaimableRow
      BY <1>0, <1>7, <2>2, Frames, QuietStep DEF ApplyClaim, fgVars
    <2> QED BY <2>1, <2>2
  <1> QED BY <1>1, <1>2, <1>3, <1>4, <1>5, <1>6, <1>7 DEF TickStep

\* The steps of a claimed execution keep the invariant.
LEMMA InvRun ==
  ASSUME IInv, TypeOK', NEW w \in Workers, RunStep(w)
  PROVE  IInv'
  <1>0. TypeOK /\ w \in Procs
    BY DEF IInv, Procs
  <1>1. CASE RunRenew(w)
    BY <1>0, <1>1, RenewQuiet, Frames, QuietStep DEF RunRenew, procVars, fgVars
  <1>2. CASE RunLeaseLost(w)
    BY <1>0, <1>2, Frames, QuietStep DEF RunLeaseLost, storeVars
  <1>3. ASSUME NEW d \in BOOLEAN, RunReschedule(w, d)
        PROVE  IInv'
    BY <1>0, <1>3, Frames, RescheduleQuiet, QuietStep DEF RunReschedule
  <1>4. ASSUME NEW o \in {"completed", "failed"}, RunSettle(w, o)
        PROVE  IInv'
    BY <1>0, <1>4, Frames, QuietStep DEF RunSettle, storeVars, fgVars
  <1> QED BY <1>1, <1>2, <1>3, <1>4 DEF RunStep

\* Faults and the passage of time keep the invariant.
LEMMA InvEnvironment ==
  ASSUME IInv, TypeOK', EnvironmentStep
  PROVE  IInv'
  <1>0. TypeOK
    BY DEF IInv
  <1>1. ASSUME NEW p \in Procs, OpError(p) \/ Crash(p)
        PROVE  IInv'
    BY <1>0, <1>1, Frames, QuietStep DEF OpError, Crash, storeVars, fgVars
  <1>2. CASE LeaseExpires
    <2>1. Idles
      BY <1>0, <1>2, LeaseEffect DEF LeaseExpires, Idles
    <2> QED BY <1>0, <1>2, <2>1, Frames, QuietStep DEF LeaseExpires, procVars, fgVars
  <1>3. CASE IntentClaimExpires
    BY <1>0, <1>3, Frames, QuietStep DEF IntentClaimExpires, procVars, fgVars
  <1>4. CASE RetryDue
    <2>1. Idles
      BY <1>0, <1>4, DueEffect, Frames DEF RetryDue, Idles
    <2> QED BY <1>0, <1>4, <2>1, Frames, QuietStep DEF RetryDue, procVars, fgVars
  <1>5. CASE DeadlinePasses
    BY <1>0, <1>5, Frames, QuietStep DEF DeadlinePasses, procVars, fgVars
  <1>6. CASE WindowCloses
    BY <1>0, <1>6, Frames, QuietStep DEF WindowCloses, storeVars, procVars, fgVars
  <1> QED BY <1>1, <1>2, <1>3, <1>4, <1>5, <1>6 DEF EnvironmentStep

\* The invariant holds before the request is accepted.
LEMMA InvInit == Init => IInv
  <1> SUFFICES ASSUME Init PROVE IInv
    OBVIOUS
  <1>1. /\ row.status = "absent" /\ row.token = 0 /\ row.commit = "none"
        /\ row.owner = NoOwner /\ row.live = FALSE
    BY DEF Init, AbsentRow
  <1>2. \A p \in Procs : tok[p] = 0
    BY DEF Init
  <1>3. TokensHandedOut /\ FencingTokensUnique
    BY <1>1, <1>2 DEF TokensHandedOut, FencingTokensUnique, Procs
  <1>4. WriteAhead /\ ForegroundAlone
    BY <1>1, <1>2, Ranks DEF Init, WriteAhead, ForegroundAlone, CommitStateRank
  <1>5. SettledClosed /\ ResultOfLastClaim
    BY <1>1 DEF SettledClosed, ResultOfLastClaim, Settled, IsSettledStatus,
       IsTerminalStatus, TerminalStatuses
  <1> QED BY <1>3, <1>4, <1>5, TypeInit DEF IInv

\* Every step keeps the invariant.
LEMMA InvStep == IInv /\ [Next]_vars => IInv'
  <1> SUFFICES ASSUME IInv, [Next]_vars PROVE IInv'
    OBVIOUS
  <1>1. TypeOK /\ TypeOK'
    BY TypeStep DEF IInv
  <1>2. CASE UNCHANGED vars
    BY <1>1, <1>2, Frames, QuietStep DEF vars, storeVars, procVars, fgVars
  <1> QED
    BY <1>1, <1>2, InvForeground, InvSettle, InvTick, InvRun, InvEnvironment DEF Next

\* IInv is an invariant for any number of workers, retries and faults.
THEOREM Invariance == Spec => []IInv
  BY InvInit, InvStep, PTL DEF Spec

-----------------------------------------------------------------------------
(* The promises.                                                           *)

\* Once content reached the client, no worker ever holds the task again.
THEOREM NoReplay == Spec => []NoReplayAfterContent
  <1>1. IInv => NoReplayAfterContent
    <2> SUFFICES ASSUME IInv, wire >= ContentRank
                 PROVE  \A w \in Workers : tok[w] = 0
      BY DEF NoReplayAfterContent
    <2>1. wire \in 0..4 /\ fgRank \in 0..4
      BY DEF IInv, TypeOK
    <2> QED BY <2>1, Ranks DEF IInv, WriteAhead, ForegroundAlone
  <1> QED BY <1>1, Invariance, PTL

\* A completed task whose client saw content carries the foreground's result.
THEOREM SoleAuthorship == Spec => []SoleAuthor
  <1>1. IInv => SoleAuthor
    <2> SUFFICES ASSUME IInv, wire >= ContentRank, row.status = "completed"
                 PROVE  row.by = 1
      BY DEF SoleAuthor
    <2>1. wire \in 0..4 /\ fgRank \in 0..4
      BY DEF IInv, TypeOK
    <2> QED BY <2>1, Ranks DEF IInv, WriteAhead, ForegroundAlone, ResultOfLastClaim
  <1> QED BY <1>1, Invariance, PTL

\* Fencing tokens are never shared: the fence of a store write lets at most one
\* process through.
THEOREM Fencing == Spec => []FencingTokensUnique
  <1>1. IInv => FencingTokensUnique
    BY DEF IInv
  <1> QED BY <1>1, Invariance, PTL

\* FinalizeSettlement: a recorded result is the one of the last execution
\* started, never that of a stale holder or of an intent it left behind.
THEOREM LastClaimRecorded == Spec => []ResultOfLastClaim
  <1>1. IInv => ResultOfLastClaim
    BY DEF IInv
  <1> QED BY <1>1, Invariance, PTL

-----------------------------------------------------------------------------
(* What a step may never do to the task row.                               *)

\* The row stays, or it is unsettled and moves along the transition matrix.
RowMoves ==
  \/ row' = row
  \/ ~Settled /\ (row.status = "absent" \/ CanTransition(row.status, row'.status))

\* A running row is not settled, a row in a runnable status may be claimed,
\* expired and blocked; only a running one may be parked or concluded.
LEMMA MatrixFacts ==
  ASSUME TypeOK
  PROVE  /\ row.status \in RunnableStatuses => ~Settled
         /\ row.status # "absent" /\ ~Settled => row.status \in RunnableStatuses
         /\ \A s \in RunnableStatuses :
              \A t \in {"running", "expired", "resume_safety_blocked"} :
                CanTransition(s, t)
         /\ \A t \in {"retry_scheduled", "completed", "failed"} :
              CanTransition("running", t)
  BY DEF TypeOK, RowType, Statuses, RunnableStatuses, TerminalStatuses, Settled,
     IsSettledStatus, IsTerminalStatus, CanTransition, Transitions

\* Parking, concluding, expiring and blocking move the row along the matrix.
LEMMA KindsMove ==
  ASSUME IInv, Parks \/ Concludes \/ Expires \/ Blocks
  PROVE  RowMoves
  <1>0. TypeOK /\ "running" \in RunnableStatuses
    BY DEF IInv, RunnableStatuses
  <1>1. CASE Parks
    BY <1>0, <1>1, MatrixFacts DEF Parks, RowMoves
  <1>2. CASE Concludes
    BY <1>0, <1>2, MatrixFacts DEF Concludes, RowMoves
  <1>3. CASE Expires
    BY <1>0, <1>3, MatrixFacts DEF Expires, RowMoves
  <1>4. CASE Blocks
    BY <1>0, <1>4, MatrixFacts DEF Blocks, RowMoves
  <1> QED BY <1>1, <1>2, <1>3, <1>4

\* An update that keeps the status of an unsettled row is a move.
LEMMA SameStatusMoves ==
  ASSUME ~Settled, row'.status = row.status
  PROVE  RowMoves
  BY DEF RowMoves, CanTransition

\* The fenced operations of a holder move the row.
LEMMA HolderMoves ==
  ASSUME IInv
  PROVE  /\ \A o, k : RenewLease(o, k) => RowMoves
         /\ \A o, k : \A s \in CommitStates :
              CheckpointCommitState(o, k, s) => RowMoves
         /\ \A p \in Procs : \A d \in BOOLEAN : RescheduleOrLost(p, d) => RowMoves
  <1>0. TypeOK /\ (row.status = "running" => ~Settled)
    BY MatrixFacts DEF IInv, RunnableStatuses
  <1>1. ASSUME NEW o, NEW k, RenewLease(o, k)
        PROVE  RowMoves
    BY <1>0, <1>1, LeaseEffect, SameStatusMoves DEF RenewLease, HoldsRunning
  <1>2. ASSUME NEW o, NEW k, NEW s \in CommitStates, CheckpointCommitState(o, k, s)
        PROVE  RowMoves
    BY <1>0, <1>2, CheckpointEffect, SameStatusMoves
  <1>3. ASSUME NEW p \in Procs, NEW d \in BOOLEAN, RescheduleOrLost(p, d)
        PROVE  RowMoves
    <2>1. CASE Reschedule(Owner(p), tok[p], d)
      BY <1>0, <2>1, RescheduleEffect, KindsMove DEF Parks
    <2>2. CASE UNCHANGED row
      BY <2>2 DEF RowMoves
    <2> QED BY <1>3, <2>1, <2>2 DEF RescheduleOrLost
  <1> QED BY <1>1, <1>2, <1>3

\* The foreground's steps move the row along the matrix.
LEMMA MovesForeground ==
  ASSUME IInv, ForegroundStep
  PROVE  RowMoves
  <1>0. TypeOK /\ Frontend \in Procs
    BY DEF IInv, Procs
  <1>1. CASE Accept
    <2>1. row.status = "absent" /\ ~Settled
      BY <1>1 DEF Accept, CreateAndClaim, Settled, IsSettledStatus,
         IsTerminalStatus, TerminalStatuses
    <2> QED BY <2>1 DEF RowMoves
  <1>2. CASE Handoff \/ ForegroundRelease
    BY <1>0, <1>2, HolderMoves DEF Handoff, ForegroundRelease
  <1>3. ASSUME NEW s \in StreamStates, Checkpoint(s) \/ CheckpointReplyLost(s)
        PROVE  RowMoves
    BY <1>3, HolderMoves, ConstantsAssumption DEF Checkpoint, CheckpointReplyLost
  <1>4. CASE ForegroundRenew
    BY <1>4, HolderMoves DEF ForegroundRenew
  <1>5. CASE UNCHANGED row
    BY <1>5 DEF RowMoves
  <1> QED
    BY <1>1, <1>2, <1>3, <1>4, <1>5
       DEF ForegroundStep, WriteFrame, ForegroundRenewStops, ForegroundSettle,
           ForegroundReleaseFails, ForegroundAbandon, storeVars

\* A settlement concludes a running row or leaves the row alone.
LEMMA MovesSettle ==
  ASSUME IInv, NEW p \in Procs, SettleStep(p)
  PROVE  RowMoves
  <1>0. TypeOK
    BY DEF IInv
  <1>1. CASE UNCHANGED row
    BY <1>1 DEF RowMoves
  <1>2. CASE FinalizeSettlement(Owner(p), ctok[p]) /\ row' # row
    <2>1. /\ row.owner \in Owners /\ ~IsTerminalStatus(row.status)
          /\ row'.status \in {"completed", "failed"}
      BY <1>0, <1>2, FinalizeEffect
    <2>2. row.status = "running"
      BY <2>1 DEF IInv, SettledClosed, NoOwner, Owners, FrontendOwner, WorkerOwner
    <2> QED
      BY <1>0, <2>1, <2>2, MatrixFacts DEF RowMoves, RunnableStatuses
  <1> QED
    BY <1>1, <1>2 DEF SettleStep, Persist, Insert, SettlementClaim, TakeIntent,
       Finalize, FinalizeRetry, storeVars

\* The reapers and the claim move the row along the matrix.
LEMMA MovesTick ==
  ASSUME IInv, NEW w \in Workers, TickStep(w)
  PROVE  RowMoves
  <1>0. TypeOK /\ WorkerOwner \in Owners
    BY DEF IInv, Owners
  <1>1. CASE UNCHANGED row
    BY <1>1 DEF RowMoves
  <1>2. CASE ReapDeadlines
    <2>1. ~Settled
      BY <1>0, <1>2, DeadlineEffect DEF IInv, SettledClosed
    <2> QED BY <1>0, <1>2, <2>1, DeadlineEffect, MatrixFacts DEF RowMoves
  <1>3. CASE ReapUnsafeCheckpointed
    <2>1. row.status # "absent" /\ ~Settled
      BY <1>0, <1>3, UnsafeEffect DEF IInv, SettledClosed, Settled
    <2> QED BY <1>0, <1>3, <2>1, UnsafeEffect, MatrixFacts DEF RowMoves
  <1>4. CASE ClaimRunnable(WorkerOwner)
    BY <1>0, <1>4, ClaimEffect, MatrixFacts DEF RowMoves
  <1> QED
    BY <1>1, <1>2, <1>3, <1>4 DEF TickStep, Drain, TakeIntent, ScanDeadlines,
       ScanUnsafe, ScanClaim, Scan, ApplyDeadlines, ApplyUnsafe, ApplyClaim,
       Project, ProjectCommit, ProjectFails, storeVars

\* An execution only renews or parks a running row.
LEMMA MovesRun ==
  ASSUME IInv, NEW w \in Workers, RunStep(w)
  PROVE  RowMoves
  <1>0. w \in Procs
    BY DEF Procs
  <1>1. CASE RunRenew(w)
    BY <1>1, HolderMoves DEF RunRenew
  <1>2. ASSUME NEW d \in BOOLEAN, RunReschedule(w, d)
        PROVE  RowMoves
    BY <1>0, <1>2, HolderMoves DEF RunReschedule
  <1>3. CASE UNCHANGED row
    BY <1>3 DEF RowMoves
  <1> QED BY <1>1, <1>2, <1>3 DEF RunStep, RunLeaseLost, RunSettle, storeVars

\* Time passes for unsettled rows only.
LEMMA MovesEnvironment ==
  ASSUME IInv, EnvironmentStep
  PROVE  RowMoves
  <1>0. TypeOK /\ (row.status \in {"running", "retry_scheduled"} => ~Settled)
    BY MatrixFacts DEF IInv, RunnableStatuses
  <1>1. CASE UNCHANGED row
    BY <1>1 DEF RowMoves
  <1>2. CASE LeaseExpires
    <2>1. row.status = "running"
      BY <1>2 DEF LeaseExpires, IInv, SettledClosed
    <2> QED BY <1>0, <1>2, <2>1, LeaseEffect, SameStatusMoves DEF LeaseExpires
  <1>3. CASE RetryDue /\ row' # row
    BY <1>0, <1>3, DueEffect, SameStatusMoves DEF RetryDue
  <1> QED
    BY <1>1, <1>2, <1>3 DEF EnvironmentStep, OpError, Crash, IntentClaimExpires,
       DeadlinePasses, WindowCloses, storeVars

\* Every step leaves the row alone or moves an unsettled row along the matrix.
LEMMA RowSteps == IInv /\ [Next]_vars => RowMoves
  <1> SUFFICES ASSUME IInv, [Next]_vars PROVE RowMoves
    OBVIOUS
  <1>1. CASE UNCHANGED vars
    BY <1>1 DEF vars, storeVars, RowMoves
  <1> QED
    BY <1>1, MovesForeground, MovesSettle, MovesTick, MovesRun, MovesEnvironment
       DEF Next

\* A settled row never changes: neither a reaper, nor a stale settlement, nor a
\* late renewal of a holder that lost its lease reaches it.
THEOREM SettledIsFinal == Spec => SettledForever
  <1>1. IInv /\ [Next]_vars => [Settled => row' = row]_row
    BY RowSteps DEF RowMoves
  <1> QED BY <1>1, Invariance, PTL DEF Spec, SettledForever

\* The SQL statements, which never consult the transition matrix of task.go,
\* obey it in every interleaving.
THEOREM MatrixObeyed == Spec => FollowsTransitionMatrix
  <1>1. IInv /\ [Next]_vars =>
          [row.status # "absent" => CanTransition(row.status, row'.status)]_row
    BY RowSteps DEF RowMoves
  <1> QED BY <1>1, Invariance, PTL DEF Spec, FollowsTransitionMatrix

-----------------------------------------------------------------------------
(* What the takeover promises its client: the projection is faithful and   *)
(* never lost, the retry budget holds, TakeoverContract is implemented.    *)

\* What pollers are to be told about a settled row.
Projection == [status |-> ProjectedStatus(row.status), version |-> row.version]

\* A row is settled once, which is its only version; only a settled row names
\* the execution it comes from, and nobody cancels a task.
SettledOnce ==
  /\ row.version = IF Settled THEN 1 ELSE 0
  /\ ~Settled => row.by = 0
  /\ row.status # "canceled"

\* The outbox row is written by the settling transaction, with its version.
OutboxOfResult == outbox # NoOutbox => Settled /\ outbox.version = 1

\* A worker between the Redis write and its commit has written the projection.
Projecting ==
  \A w \in Workers : pc[w] = "project2" => Settled /\ (window => pend = Projection)

ResultInv == SettledOnce /\ OutboxOfResult /\ Projecting /\ ProjectionFaithful /\ ProjectionNotLost

-----------------------------------------------------------------------------
(* Steps, classified by what they do to the result.                        *)

\* The row stays, or an unsettled row stays unsettled.
RowKept ==
  \/ row' = row
  \/ /\ ~Settled /\ ~Settled'
     /\ row'.version = row.version /\ row'.by = row.by /\ row'.status # "canceled"

\* A transaction settles the row and hands it to the projector.
RowConcluded ==
  /\ ~Settled /\ Settled'
  /\ row'.version = row.version + 1 /\ row'.status # "canceled"
  /\ enqueuePendingOutbox(row.version + 1)

\* No process enters the projector's critical section.
NoNewProjection == \A w \in Workers : pc'[w] = "project2" => pc[w] = "project2"

\* The outbox row stays as it is but for its retry time.
OutboxKept ==
  \/ outbox' = outbox
  \/ /\ outbox # NoOutbox /\ outbox'.version = outbox.version /\ outbox' # NoOutbox

\* Which statuses are settled.
LEMMA SettledStatuses ==
  /\ Settled <=> row.status \in {"completed", "failed", "expired", "canceled", "resume_safety_blocked"}
  /\ Settled' <=> row'.status \in {"completed", "failed", "expired", "canceled", "resume_safety_blocked"}
  BY DEF Settled, IsSettledStatus, IsTerminalStatus, TerminalStatuses

\* A step that settles nothing and projects nothing keeps the result.
LEMMA ResultKept ==
  ASSUME ResultInv, TypeOK, TypeOK', RowKept, OutboxKept, NoNewProjection, UNCHANGED <<pend, window>>
  PROVE  ResultInv'
  <1>1. CASE row' = row
    <2>1. SettledOnce' /\ ProjectionFaithful'
      BY <1>1 DEF ResultInv, SettledOnce, Settled, ProjectionFaithful, ProjectedStatus
    <2>2. OutboxOfResult'
      BY <1>1 DEF ResultInv, OutboxOfResult, OutboxKept, Settled
    <2>3. Projecting'
      BY <1>1 DEF ResultInv, Projecting, NoNewProjection, Settled, Projection, ProjectedStatus
    <2>4. ProjectionNotLost'
      BY <1>1 DEF ResultInv, ProjectionNotLost, OutboxKept, Settled, ProjectedStatus
    <2> QED BY <2>1, <2>2, <2>3, <2>4 DEF ResultInv
  <1>2. CASE ~Settled /\ ~Settled' /\ row'.version = row.version /\ row'.by = row.by /\ row'.status # "canceled"
    <2>1. SettledOnce'
      BY <1>2 DEF ResultInv, SettledOnce
    <2>2. OutboxOfResult' /\ Projecting' /\ ProjectionFaithful' /\ ProjectionNotLost'
      BY <1>2 DEF ResultInv, OutboxOfResult, OutboxKept, Projecting, NoNewProjection,
         ProjectionFaithful, ProjectionNotLost
    <2> QED BY <2>1, <2>2 DEF ResultInv
  <1> QED BY <1>1, <1>2 DEF RowKept

\* A settling transaction leaves its outbox row, and there was no entry yet.
LEMMA ResultConcluded ==
  ASSUME ResultInv, TypeOK, TypeOK', RowConcluded, NoNewProjection, UNCHANGED <<pend, window>>
  PROVE  ResultInv'
  <1>1. row.version = 0 /\ row'.version = 1
    BY DEF ResultInv, SettledOnce, RowConcluded
  <1>2. outbox = NoOutbox /\ pend = NoEntry /\ \A w \in Workers : pc[w] # "project2"
    BY DEF ResultInv, OutboxOfResult, ProjectionFaithful, Projecting, RowConcluded
  <1>3. outbox'.version = 1 /\ outbox' # NoOutbox
    BY <1>1, <1>2 DEF RowConcluded, enqueuePendingOutbox, NoOutbox
  <1>4. SettledOnce'
    BY <1>1 DEF SettledOnce, RowConcluded
  <1>5. OutboxOfResult' /\ ProjectionNotLost'
    BY <1>3 DEF OutboxOfResult, ProjectionNotLost, RowConcluded
  <1>6. Projecting' /\ ProjectionFaithful'
    BY <1>2 DEF Projecting, NoNewProjection, ProjectionFaithful
  <1> QED BY <1>4, <1>5, <1>6 DEF ResultInv

\* Processes that go elsewhere, drop or release do not start to project.
LEMMA ProjectionFrames ==
  ASSUME TypeOK
  PROVE  /\ \A p \in Procs : \A l : (Goto(p, l) /\ l # "project2") => NoNewProjection
         /\ \A p \in Procs : \A l : (Drop(p, l) /\ l # "project2") => NoNewProjection
         /\ \A p \in Procs : Release(p) => NoNewProjection
         /\ UNCHANGED pc => NoNewProjection
         /\ UNCHANGED row => RowKept
         /\ UNCHANGED outbox => OutboxKept
  <1>1. ASSUME NEW p \in Procs, NEW l, Goto(p, l), l # "project2"
        PROVE  NoNewProjection
    BY <1>1 DEF TypeOK, Goto, NoNewProjection, Procs
  <1>2. ASSUME NEW p \in Procs, NEW l, Drop(p, l), l # "project2"
        PROVE  NoNewProjection
    BY <1>1, <1>2 DEF Drop
  <1>3. ASSUME NEW p \in Procs, Release(p)
        PROVE  NoNewProjection
    BY <1>2, <1>3 DEF Release, After
  <1> QED BY <1>1, <1>2, <1>3 DEF NoNewProjection, RowKept, OutboxKept

\* The fenced writes of a holder keep an unsettled row unsettled.
LEMMA HolderKeeps ==
  ASSUME TypeOK
  PROVE  /\ \A o, k : RenewLease(o, k) => RowKept
         /\ \A o, k, s : CheckpointCommitState(o, k, s) => RowKept
         /\ \A p \in Procs : \A d : RescheduleOrLost(p, d) => RowKept
         /\ \A o : ClaimRunnable(o) => RowKept
         /\ \A o : CreateAndClaim(o) => (~Settled /\ ~Settled' /\ row'.status # "canceled" /\ row'.version = 0 /\ row'.by = 0)
  <1>0. row \in RowType
    BY DEF TypeOK
  <1>1. ASSUME NEW o, NEW k, RenewLease(o, k)
        PROVE  RowKept
    BY <1>0, <1>1, SettledStatuses DEF RenewLease, HoldsRunning, RowKept, RowType
  <1>2. ASSUME NEW o, NEW k, NEW s, CheckpointCommitState(o, k, s)
        PROVE  RowKept
    BY <1>0, <1>2, SettledStatuses DEF CheckpointCommitState, HoldsRunning, RowKept, RowType
  <1>3. ASSUME NEW p \in Procs, NEW d, RescheduleOrLost(p, d)
        PROVE  RowKept
    BY <1>0, <1>3, SettledStatuses DEF RescheduleOrLost, Reschedule, HoldsRunning, RowKept, RowType
  <1>4. ASSUME NEW o, ClaimRunnable(o)
        PROVE  RowKept
    BY <1>0, <1>4, SettledStatuses DEF ClaimRunnable, ClaimableRow, RunnableStatuses, RowKept, RowType
  <1>5. ASSUME NEW o, CreateAndClaim(o)
        PROVE  ~Settled /\ ~Settled' /\ row'.status # "canceled" /\ row'.version = 0 /\ row'.by = 0
    BY <1>5, SettledStatuses DEF CreateAndClaim
  <1> QED BY <1>1, <1>2, <1>3, <1>4, <1>5

\* The three transactions that settle a row.
LEMMA Settling ==
  ASSUME IInv
  PROVE  /\ ReapDeadlines => RowConcluded
         /\ ReapUnsafeCheckpointed => RowConcluded
         /\ \A o, c : FinalizeSettlement(o, c) =>
              RowConcluded \/ (UNCHANGED <<row, outbox>>)
  <1>0. TypeOK /\ row \in RowType
    BY DEF IInv, TypeOK
  <1>1. ASSUME ReapDeadlines PROVE RowConcluded
    <2>1. ~Settled
      BY <1>0, <1>1, DeadlineEffect DEF IInv, SettledClosed
    <2>2. row'.status = "expired" /\ row'.version = row.version + 1
      BY <1>0, <1>1 DEF ReapDeadlines, RowType
    <2> QED BY <1>1, <2>1, <2>2, SettledStatuses DEF RowConcluded, ReapDeadlines
  <1>2. ASSUME ReapUnsafeCheckpointed PROVE RowConcluded
    <2>1. ~Settled
      BY <1>2 DEF ReapUnsafeCheckpointed, UnsafeRow, Settled
    <2>2. row'.status = "resume_safety_blocked" /\ row'.version = row.version + 1
      BY <1>0, <1>2 DEF ReapUnsafeCheckpointed, RowType
    <2> QED BY <1>2, <2>1, <2>2, SettledStatuses DEF RowConcluded, ReapUnsafeCheckpointed
  <1>3. ASSUME NEW o, NEW c, FinalizeSettlement(o, c), IntentCurrent PROVE RowConcluded
    <2>1. /\ intent.srcOwner \in Owners /\ intent.outcome \in {"completed", "failed"}
      BY <1>0, <1>3, FinalizeEffect
    <2>2. row.owner # NoOwner
      BY <1>3, <2>1 DEF IntentCurrent, HoldsUnsettled, Owners, NoOwner, FrontendOwner, WorkerOwner
    <2>3. row.status = "running"
      BY <2>2 DEF IInv, SettledClosed
    <2>4. row'.status = intent.outcome /\ row'.version = row.version + 1
      BY <1>0, <1>3 DEF FinalizeSettlement, RowType
    <2> QED BY <1>3, <2>1, <2>3, <2>4, SettledStatuses DEF RowConcluded, FinalizeSettlement
  <1>4. ASSUME NEW o, NEW c, FinalizeSettlement(o, c), ~IntentCurrent
        PROVE  UNCHANGED <<row, outbox>>
    BY <1>4 DEF FinalizeSettlement
  <1> QED BY <1>1, <1>2, <1>3, <1>4

-----------------------------------------------------------------------------
(* ResultInv is kept by every step.                                        *)

\* The foreground's steps keep the result.
LEMMA ResultForeground ==
  ASSUME IInv, TypeOK', ResultInv, ForegroundStep
  PROVE  ResultInv'
  <1>0. TypeOK /\ Frontend \in Procs
    BY DEF IInv, Procs
  <1>1. CASE Accept
    <2>1. ~Settled /\ ~Settled' /\ row'.status # "canceled" /\ row'.version = 0 /\ row'.by = 0
      BY <1>0, <1>1, HolderKeeps DEF Accept
    <2>2. row.version = 0 /\ row.by = 0
      BY <2>1 DEF ResultInv, SettledOnce
    <2>3. RowKept
      BY <2>1, <2>2 DEF RowKept
    <2>4. NoNewProjection
      BY <1>0, <1>1, ProjectionFrames DEF Accept
    <2> QED BY <1>0, <1>1, <2>3, <2>4, ProjectionFrames, ResultKept DEF Accept
  <1>2. CASE Handoff \/ ForegroundRelease
    BY <1>0, <1>2, HolderKeeps, ProjectionFrames, ResultKept DEF Handoff, ForegroundRelease
  <1>3. ASSUME NEW s \in StreamStates, Checkpoint(s) \/ CheckpointReplyLost(s)
        PROVE  ResultInv'
    BY <1>0, <1>3, HolderKeeps, ProjectionFrames, ResultKept
       DEF Checkpoint, CheckpointReplyLost, procVars
  <1>4. CASE WriteFrame \/ ForegroundRenewStops
    BY <1>0, <1>4, ProjectionFrames, ResultKept DEF WriteFrame, ForegroundRenewStops, storeVars, procVars
  <1>5. CASE ForegroundRenew
    BY <1>0, <1>5, HolderKeeps, ProjectionFrames, ResultKept DEF ForegroundRenew, procVars
  <1>6. ASSUME NEW o \in {"completed", "failed"}, ForegroundSettle(o)
        PROVE  ResultInv'
    <2>1. NoNewProjection
      BY <1>0, <1>6, ProjectionFrames DEF ForegroundSettle
    <2> QED BY <1>0, <1>6, <2>1, ProjectionFrames, ResultKept DEF ForegroundSettle, storeVars
  <1>7. CASE ForegroundReleaseFails \/ ForegroundAbandon
    <2>1. NoNewProjection
      BY <1>0, <1>7, ProjectionFrames DEF ForegroundReleaseFails, ForegroundAbandon
    <2> QED BY <1>0, <1>7, <2>1, ProjectionFrames, ResultKept
            DEF ForegroundReleaseFails, ForegroundAbandon, storeVars
  <1> QED BY <1>1, <1>2, <1>3, <1>4, <1>5, <1>6, <1>7 DEF ForegroundStep

\* Settlement steps keep the result.
LEMMA ResultSettle ==
  ASSUME IInv, TypeOK', ResultInv, NEW p \in Procs, SettleStep(p)
  PROVE  ResultInv'
  <1>0. TypeOK
    BY DEF IInv
  <1>1. NoNewProjection
    BY <1>0, ProjectionFrames
       DEF SettleStep, Persist, Insert, SettlementClaim, TakeIntent, Finalize, FinalizeRetry
  <1>2. UNCHANGED <<pend, window>>
    BY DEF SettleStep, Persist, Insert, SettlementClaim, Finalize, FinalizeRetry
  <1>3. CASE Finalize(p)
    <2>1. RowConcluded \/ UNCHANGED <<row, outbox>>
      BY <1>3, Settling DEF Finalize
    <2> QED BY <1>0, <1>1, <1>2, <2>1, ProjectionFrames, ResultKept, ResultConcluded
  <1>4. CASE Persist(p) \/ Insert(p) \/ SettlementClaim(p) \/ FinalizeRetry(p)
    <2>1. UNCHANGED <<row, outbox>>
      BY <1>4 DEF Persist, Insert, SettlementClaim, FinalizeRetry, storeVars
    <2> QED BY <1>0, <1>1, <1>2, <2>1, ProjectionFrames, ResultKept
  <1> QED BY <1>3, <1>4 DEF SettleStep

\* The projector writes what the settled row says.
LEMMA ResultProject ==
  ASSUME IInv, TypeOK', ResultInv, NEW w \in Workers, Project(w)
  PROVE  ResultInv'
  <1>0. TypeOK /\ w \in Procs
    BY DEF IInv, Procs
  <1>1. CASE ~OutboxReady
    <2>1. NoNewProjection
      BY <1>0, <1>1, ProjectionFrames DEF Project
    <2> QED BY <1>0, <1>1, <2>1, ProjectionFrames, ResultKept DEF Project, storeVars
  <1>2. CASE OutboxReady
    <2>1. /\ row' = row /\ outbox' = outbox /\ window' = window /\ SaveDurableCAS
          /\ pc' = [pc EXCEPT ![w] = "project2"]
      BY <1>2 DEF Project, storeVars, Goto
    <2>2. Settled /\ outbox.version = 1 /\ row.version = 1
      BY <1>2 DEF OutboxReady, ResultInv, OutboxOfResult, SettledOnce
    <2>3. pend.version <= 1 /\ pend.version \in Nat
      <3>1. CASE pend = NoEntry
        BY <3>1 DEF NoEntry
      <3>2. CASE pend # NoEntry
        BY <3>2, <2>2 DEF ResultInv, ProjectionFaithful
      <3> QED BY <3>1, <3>2
    <2>4. window => pend' = Projection
      BY <2>1, <2>2, <2>3 DEF SaveDurableCAS, Projection
    <2>5. ~window => pend' = pend
      BY <2>1 DEF SaveDurableCAS
    <2>6. Projection' = Projection /\ (Settled' <=> Settled)
      BY <2>1 DEF Projection, ProjectedStatus, Settled
    <2>7. SettledOnce' /\ OutboxOfResult'
      BY <2>1, <2>6 DEF ResultInv, SettledOnce, OutboxOfResult
    <2>8. Projecting'
      <3> SUFFICES ASSUME NEW v \in Workers PROVE Settled' /\ (window' => pend' = Projection')
        BY DEF Projecting
      <3> QED BY <2>1, <2>2, <2>4, <2>6
    <2>9. ProjectionFaithful'
      BY <2>1, <2>2, <2>4, <2>5, <2>6 DEF ResultInv, ProjectionFaithful, Projection
    <2>10. ProjectionNotLost'
      BY <2>1, <2>4, <2>6 DEF ProjectionNotLost, Projection
    <2> QED BY <2>7, <2>8, <2>9, <2>10 DEF ResultInv
  <1> QED BY <1>1, <1>2

\* The outbox row is deleted when the entry has been written.
LEMMA ResultProjectCommit ==
  ASSUME IInv, TypeOK', ResultInv, NEW w \in Workers, ProjectCommit(w)
  PROVE  ResultInv'
  <1>0. TypeOK /\ w \in Procs
    BY DEF IInv, Procs
  <1>1. /\ row' = row /\ outbox' = NoOutbox /\ window' = window /\ pend' = pend /\ pc[w] = "project2"
    BY DEF ProjectCommit
  <1>2. NoNewProjection
    BY <1>0, ProjectionFrames DEF ProjectCommit
  <1>3. Settled /\ (window => pend = Projection)
    BY <1>1 DEF ResultInv, Projecting
  <1>4. Projection' = Projection /\ (Settled' <=> Settled)
    BY <1>1 DEF Projection, ProjectedStatus, Settled
  <1>5. SettledOnce' /\ OutboxOfResult'
    BY <1>1, <1>4 DEF ResultInv, SettledOnce, OutboxOfResult
  <1>6. Projecting'
    BY <1>1, <1>2, <1>4 DEF ResultInv, Projecting, NoNewProjection
  <1>7. ProjectionFaithful' /\ ProjectionNotLost'
    BY <1>1, <1>3, <1>4 DEF ResultInv, ProjectionFaithful, ProjectionNotLost, Projection
  <1> QED BY <1>5, <1>6, <1>7 DEF ResultInv

\* The phases of a worker's tick keep the result.
LEMMA ResultTick ==
  ASSUME IInv, TypeOK', ResultInv, NEW w \in Workers, TickStep(w)
  PROVE  ResultInv'
  <1>0. TypeOK /\ w \in Procs
    BY DEF IInv, Procs
  <1>1. CASE Project(w) \/ ProjectCommit(w)
    BY <1>1, ResultProject, ResultProjectCommit
  <1>2. CASE Drain(w) \/ ScanDeadlines(w) \/ ScanUnsafe(w) \/ ScanClaim(w)
    <2>1. NoNewProjection
      BY <1>0, <1>2, ProjectionFrames DEF Drain, TakeIntent, ScanDeadlines, ScanUnsafe, ScanClaim, Scan
    <2>2. UNCHANGED <<row, outbox, pend, window>>
      BY <1>2 DEF Drain, ScanDeadlines, ScanUnsafe, ScanClaim, Scan, storeVars
    <2> QED BY <1>0, <2>1, <2>2, ProjectionFrames, ResultKept
  <1>3. CASE ApplyDeadlines(w) \/ ApplyUnsafe(w)
    <2>1. NoNewProjection
      BY <1>0, <1>3, ProjectionFrames DEF ApplyDeadlines, ApplyUnsafe
    <2>2. RowConcluded \/ UNCHANGED <<row, outbox>>
      BY <1>3, Settling DEF ApplyDeadlines, ApplyUnsafe
    <2>3. UNCHANGED <<pend, window>>
      BY <1>3 DEF ApplyDeadlines, ApplyUnsafe
    <2> QED BY <1>0, <2>1, <2>2, <2>3, ProjectionFrames, ResultKept, ResultConcluded
  <1>4. CASE ProjectFails(w)
    <2>1. NoNewProjection
      BY <1>0, <1>4, ProjectionFrames DEF ProjectFails
    <2>2. outbox # NoOutbox /\ outbox.version = 1
      BY <1>4 DEF ProjectFails, OutboxReady, ResultInv, OutboxOfResult
    <2>3. OutboxKept
      BY <1>0, <1>4, <2>2 DEF ProjectFails, OutboxKept, NoOutbox, TypeOK
    <2> QED BY <1>0, <1>4, <2>1, <2>3, ProjectionFrames, ResultKept DEF ProjectFails
  <1>5. CASE ApplyClaim(w)
    <2>1. NoNewProjection
      BY <1>0, <1>5, ProjectionFrames DEF ApplyClaim
    <2>2. RowKept
      BY <1>0, <1>5, HolderKeeps, ProjectionFrames DEF ApplyClaim
    <2> QED BY <1>0, <1>5, <2>1, <2>2, ProjectionFrames, ResultKept DEF ApplyClaim
  <1> QED BY <1>1, <1>2, <1>3, <1>4, <1>5 DEF TickStep

\* The steps of a claimed execution keep the result.
LEMMA ResultRun ==
  ASSUME IInv, TypeOK', ResultInv, NEW w \in Workers, RunStep(w)
  PROVE  ResultInv'
  <1>0. TypeOK /\ w \in Procs
    BY DEF IInv, Procs
  <1>1. NoNewProjection
    BY <1>0, ProjectionFrames DEF RunStep, RunRenew, RunLeaseLost, RunReschedule, RunSettle, procVars
  <1>2. RowKept
    BY <1>0, HolderKeeps, ProjectionFrames
       DEF RunStep, RunRenew, RunLeaseLost, RunReschedule, RunSettle, storeVars
  <1>3. UNCHANGED <<outbox, pend, window>>
    BY DEF RunStep, RunRenew, RunLeaseLost, RunReschedule, RunSettle, storeVars
  <1> QED BY <1>0, <1>1, <1>2, <1>3, ProjectionFrames, ResultKept

\* Faults and the passage of time keep the result; when the read window closes
\* nothing is promised any more.
LEMMA ResultEnvironment ==
  ASSUME IInv, TypeOK', ResultInv, EnvironmentStep
  PROVE  ResultInv'
  <1>0. TypeOK
    BY DEF IInv
  <1>1. ASSUME NEW p \in Procs, OpError(p) \/ Crash(p)
        PROVE  ResultInv'
    <2>1. AfterError(p) # "project2"
      BY DEF AfterError, After
    <2>2. NoNewProjection
      BY <1>0, <1>1, <2>1, ProjectionFrames DEF OpError, Crash
    <2>3. UNCHANGED <<row, outbox, pend, window>>
      BY <1>1 DEF OpError, Crash, storeVars
    <2> QED BY <1>0, <2>2, <2>3, ProjectionFrames, ResultKept
  <1>2. CASE LeaseExpires
    <2>1. row.status = "running"
      BY <1>2 DEF LeaseExpires, IInv, SettledClosed
    <2>2. RowKept
      BY <1>0, <1>2, <2>1, SettledStatuses DEF LeaseExpires, RowKept, TypeOK, RowType
    <2> QED BY <1>0, <1>2, <2>2, ProjectionFrames, ResultKept DEF LeaseExpires, procVars
  <1>3. CASE IntentClaimExpires \/ DeadlinePasses
    BY <1>0, <1>3, ProjectionFrames, ResultKept DEF IntentClaimExpires, DeadlinePasses, procVars
  <1>4. CASE RetryDue
    <2>1. RowKept
      BY <1>0, <1>4, SettledStatuses DEF RetryDue, RowKept, TypeOK, RowType
    <2>2. OutboxKept
      BY <1>0, <1>4 DEF RetryDue, OutboxKept, NoOutbox, TypeOK
    <2> QED BY <1>0, <1>4, <2>1, <2>2, ProjectionFrames, ResultKept DEF RetryDue, procVars
  <1>5. CASE WindowCloses
    <2>1. /\ row' = row /\ outbox' = outbox /\ pend' = NoEntry /\ window' = FALSE /\ pc' = pc
      BY <1>5 DEF WindowCloses, storeVars, procVars
    <2> QED BY <2>1 DEF ResultInv, SettledOnce, OutboxOfResult, Projecting, ProjectionFaithful,
                        ProjectionNotLost, Settled
  <1> QED BY <1>1, <1>2, <1>3, <1>4, <1>5 DEF EnvironmentStep

\* Every step keeps the result.
LEMMA ResultStep == IInv /\ ResultInv /\ [Next]_vars => ResultInv'
  <1> SUFFICES ASSUME IInv, ResultInv, [Next]_vars PROVE ResultInv'
    OBVIOUS
  <1>1. TypeOK /\ TypeOK'
    BY TypeStep DEF IInv
  <1>2. CASE UNCHANGED vars
    BY <1>1, <1>2, ProjectionFrames, ResultKept DEF vars, storeVars, procVars
  <1> QED
    BY <1>1, <1>2, ResultForeground, ResultSettle, ResultTick, ResultRun, ResultEnvironment DEF Next

\* There is no result before the request is accepted.
LEMMA ResultInit == Init => ResultInv
  <1> SUFFICES ASSUME Init PROVE ResultInv
    OBVIOUS
  <1>1. row.status = "absent" /\ row.version = 0 /\ row.by = 0
    BY DEF Init, AbsentRow
  <1>2. ~Settled
    BY <1>1 DEF Settled, IsSettledStatus, IsTerminalStatus, TerminalStatuses
  <1>3. \A w \in Workers : pc[w] # "project2"
    BY DEF Init, Procs
  <1>4. outbox = NoOutbox /\ pend = NoEntry
    BY DEF Init
  <1> QED BY <1>1, <1>2, <1>3, <1>4 DEF ResultInv, SettledOnce, OutboxOfResult, Projecting,
             ProjectionFaithful, ProjectionNotLost

\* ResultInv is an invariant for any number of workers, retries and faults.
THEOREM ResultInvariance == Spec => []ResultInv
  BY ResultInit, ResultStep, Invariance, PTL DEF Spec

\* ProjectDue and SaveDurableCAS: Redis never shows an outcome that PostgreSQL
\* has not recorded.
THEOREM ProjectionIsFaithful == Spec => []ProjectionFaithful
  BY ResultInvariance, PTL DEF ResultInv

\* enqueuePendingOutbox in the settling transaction, the delete after the Redis
\* write: the projection of a settled task is never lost while it can be read.
THEOREM ProjectionIsNotLost == Spec => []ProjectionNotLost
  BY ResultInvariance, PTL DEF ResultInv

-----------------------------------------------------------------------------
(* The retry budget.  The budget is tested on the worker's copy of the     *)
(* task, so the copy must agree with the row whenever the write succeeds.  *)

\* Whoever holds the last token of a running task knows its attempts.
AttemptCopies ==
  \A p \in Procs : (tok[p] # 0 /\ tok[p] = row.token /\ row.status = "running") => att[p] = row.attempt

\* The foreground's attempt is the first.
FirstAttempt == tok[Frontend] = 1 => att[Frontend] = 1

BudgetInv == AttemptCopies /\ FirstAttempt /\ RetryBudget

\* Processes keep their copy, or forget it together with its token.
CopiesKept == \A p \in Procs : tok'[p] = 0 \/ (tok'[p] = tok[p] /\ att'[p] = att[p])

\* The attempts stay, and no execution starts.
AttemptsKept ==
  /\ row'.attempt = row.attempt
  /\ row'.status = "running" => row.status = "running" /\ row'.token = row.token

\* A step without a reschedule and without a claim keeps the budget.
LEMMA BudgetKept ==
  ASSUME BudgetInv, TypeOK, TypeOK', AttemptsKept, CopiesKept
  PROVE  BudgetInv'
  <1>0. Frontend \in Procs
    BY DEF Procs
  <1> QED BY <1>0 DEF BudgetInv, AttemptCopies, FirstAttempt, RetryBudget, AttemptsKept, CopiesKept

\* What drops or keeps its copies; what leaves the row alone.
LEMMA BudgetFrames ==
  ASSUME TypeOK
  PROVE  /\ \A p \in Procs : \A l : Drop(p, l) => CopiesKept
         /\ \A p \in Procs : Release(p) => CopiesKept
         /\ UNCHANGED <<tok, att>> => CopiesKept
         /\ UNCHANGED row => AttemptsKept
  BY DEF TypeOK, Drop, Release, CopiesKept, AttemptsKept

\* Renewals, checkpoints, reapers and settlements start nothing.
LEMMA AttemptEffects ==
  ASSUME TypeOK
  PROVE  /\ \A o, k : RenewLease(o, k) => AttemptsKept
         /\ \A o, k, s : CheckpointCommitState(o, k, s) => AttemptsKept
         /\ ReapDeadlines => AttemptsKept
         /\ ReapUnsafeCheckpointed => AttemptsKept
         /\ \A o, c : FinalizeSettlement(o, c) => AttemptsKept
  <1>0. row \in RowType
    BY DEF TypeOK
  <1>1. ASSUME NEW o, NEW k, RenewLease(o, k) PROVE AttemptsKept
    BY <1>0, <1>1 DEF RenewLease, AttemptsKept, RowType
  <1>2. ASSUME NEW o, NEW k, NEW s, CheckpointCommitState(o, k, s) PROVE AttemptsKept
    BY <1>0, <1>2 DEF CheckpointCommitState, HoldsRunning, AttemptsKept, RowType
  <1>3. ASSUME ReapDeadlines PROVE AttemptsKept
    BY <1>0, <1>3 DEF ReapDeadlines, AttemptsKept, RowType
  <1>4. ASSUME ReapUnsafeCheckpointed PROVE AttemptsKept
    BY <1>0, <1>4 DEF ReapUnsafeCheckpointed, AttemptsKept, RowType
  <1>5. ASSUME NEW o, NEW c, FinalizeSettlement(o, c) PROVE AttemptsKept
    <2>1. intent.outcome \in {"completed", "failed"}
      BY <1>5, FinalizeEffect
    <2>2. CASE IntentCurrent
      BY <1>0, <1>5, <2>1, <2>2 DEF FinalizeSettlement, AttemptsKept, RowType
    <2>3. CASE ~IntentCurrent
      BY <1>5, <2>3 DEF FinalizeSettlement, AttemptsKept
    <2> QED BY <2>2, <2>3
  <1> QED BY <1>1, <1>2, <1>3, <1>4, <1>5

\* A reschedule by a process whose copy has budget left.
LEMMA RescheduleBudget ==
  ASSUME IInv, TypeOK', BudgetInv, NEW p \in Procs, NEW d, RescheduleOrLost(p, d), Release(p),
         tok[p] # 0 => att[p] < MaxRetries + 1
  PROVE  BudgetInv'
  <1>0. TypeOK /\ row \in RowType /\ CopiesKept
    BY BudgetFrames DEF IInv, TypeOK
  <1>1. CASE UNCHANGED row
    BY <1>0, <1>1, BudgetFrames, BudgetKept
  <1>2. CASE Reschedule(Owner(p), tok[p], d)
    <2>1. /\ row'.status = "retry_scheduled" /\ row'.attempt = row.attempt + 1
          /\ row.token = tok[p] /\ row.status = "running"
      BY <1>0, <1>2 DEF Reschedule, HoldsRunning, RowType
    <2>2. tok[p] # 0
      BY <1>0, <2>1 DEF IInv, TokensHandedOut, RowType
    <2>3. row.attempt = att[p]
      BY <2>1, <2>2 DEF BudgetInv, AttemptCopies
    <2>4. RetryBudget'
      BY <1>0, <2>1, <2>2, <2>3, ConstantsAssumption DEF RetryBudget, RowType
    <2>5. AttemptCopies' /\ FirstAttempt'
      BY <1>0, <2>1 DEF BudgetInv, AttemptCopies, FirstAttempt, CopiesKept, Procs
    <2> QED BY <2>4, <2>5 DEF BudgetInv
  <1> QED BY <1>1, <1>2 DEF RescheduleOrLost

\* The foreground's steps keep the budget: its release is the first retry.
LEMMA BudgetForeground ==
  ASSUME IInv, TypeOK', BudgetInv, ForegroundStep
  PROVE  BudgetInv'
  <1>0. TypeOK /\ Frontend \in Procs /\ row \in RowType
    BY DEF IInv, Procs, TypeOK
  <1>1. CASE Accept
    <2>1. row'.token = 1 /\ row'.attempt = 1
      BY <1>1 DEF Accept, CreateAndClaim
    <2>2. row.token = 0 /\ \A p \in Procs : tok[p] = 0
      BY <1>0, <1>1 DEF Accept, CreateAndClaim, IInv, TokensHandedOut, TypeOK, RowType
    <2>3. /\ tok'[Frontend] = 1 /\ att'[Frontend] = 1
          /\ \A p \in Procs : p # Frontend => tok'[p] = 0
      BY <1>0, <1>1, <2>2 DEF Accept, TypeOK
    <2>4. RetryBudget'
      BY <2>1, ConstantsAssumption DEF RetryBudget
    <2> QED BY <2>1, <2>3, <2>4 DEF BudgetInv, AttemptCopies, FirstAttempt
  <1>2. CASE Handoff \/ ForegroundRelease
    <2>1. tok[Frontend] # 0 => att[Frontend] < MaxRetries + 1
      <3>1. tok[Frontend] # 0 => att[Frontend] = 1
        BY DEF IInv, TokensHandedOut, BudgetInv, FirstAttempt
      <3> QED BY <3>1, ConstantsAssumption
    <2> QED BY <1>0, <1>2, <2>1, RescheduleBudget DEF Handoff, ForegroundRelease
  <1>3. ASSUME NEW s \in StreamStates, Checkpoint(s) \/ CheckpointReplyLost(s)
        PROVE  BudgetInv'
    BY <1>0, <1>3, AttemptEffects, BudgetFrames, BudgetKept DEF Checkpoint, CheckpointReplyLost, procVars
  <1>4. CASE WriteFrame \/ ForegroundRenewStops
    BY <1>0, <1>4, BudgetFrames, BudgetKept DEF WriteFrame, ForegroundRenewStops, storeVars, procVars
  <1>5. CASE ForegroundRenew
    BY <1>0, <1>5, AttemptEffects, BudgetFrames, BudgetKept DEF ForegroundRenew, procVars
  <1>6. ASSUME NEW o \in {"completed", "failed"}, ForegroundSettle(o)
        PROVE  BudgetInv'
    BY <1>0, <1>6, BudgetFrames, BudgetKept DEF ForegroundSettle, storeVars
  <1>7. CASE ForegroundReleaseFails \/ ForegroundAbandon
    BY <1>0, <1>7, BudgetFrames, BudgetKept DEF ForegroundReleaseFails, ForegroundAbandon, storeVars
  <1> QED BY <1>1, <1>2, <1>3, <1>4, <1>5, <1>6, <1>7 DEF ForegroundStep

\* Settlements keep the budget.
LEMMA BudgetSettle ==
  ASSUME IInv, TypeOK', BudgetInv, NEW p \in Procs, SettleStep(p)
  PROVE  BudgetInv'
  <1>0. TypeOK
    BY DEF IInv
  <1>1. CopiesKept
    BY <1>0, BudgetFrames
       DEF SettleStep, Persist, Insert, SettlementClaim, TakeIntent, Finalize, FinalizeRetry
  <1>2. AttemptsKept
    BY <1>0, BudgetFrames, AttemptEffects
       DEF SettleStep, Persist, Insert, SettlementClaim, Finalize, FinalizeRetry, storeVars
  <1> QED BY <1>0, <1>1, <1>2, BudgetKept

\* A claim copies the row's attempts together with a token nobody holds.
LEMMA BudgetTick ==
  ASSUME IInv, TypeOK', BudgetInv, NEW w \in Workers, TickStep(w)
  PROVE  BudgetInv'
  <1>0. TypeOK /\ w \in Procs /\ row \in RowType
    BY DEF IInv, Procs, TypeOK
  <1>1. CASE ApplyClaim(w)
    <2>1. CASE ClaimableRow
      <3>1. /\ row'.token = row.token + 1 /\ row'.attempt = row.attempt /\ w # Frontend
            /\ tok' = [tok EXCEPT ![w] = row'.token] /\ att' = [att EXCEPT ![w] = row.attempt]
        BY <1>0, <1>1, <2>1, ConstantsAssumption DEF ApplyClaim, ClaimRunnable, RowType
      <3>2. \A p \in Procs : p # w => tok'[p] = tok[p] /\ att'[p] = att[p] /\ tok'[p] # row'.token
        BY <1>0, <3>1 DEF IInv, TokensHandedOut, TypeOK, RowType
      <3>3. att'[w] = row'.attempt
        BY <1>0, <3>1 DEF TypeOK
      <3> QED BY <1>0, <3>1, <3>2, <3>3
              DEF BudgetInv, AttemptCopies, FirstAttempt, RetryBudget, Procs
    <2>2. CASE ~ClaimableRow
      BY <1>0, <1>1, <2>2, BudgetFrames, BudgetKept DEF ApplyClaim
    <2> QED BY <2>1, <2>2
  <1>2. CASE ~ApplyClaim(w)
    <2>1. CopiesKept
      BY <1>0, <1>2, BudgetFrames
         DEF TickStep, Drain, TakeIntent, ScanDeadlines, ScanUnsafe, ScanClaim, Scan, ApplyDeadlines,
             ApplyUnsafe, Project, ProjectCommit, ProjectFails
    <2>2. AttemptsKept
      BY <1>0, <1>2, BudgetFrames, AttemptEffects
         DEF TickStep, Drain, ScanDeadlines, ScanUnsafe, ScanClaim, Scan, ApplyDeadlines,
             ApplyUnsafe, Project, ProjectCommit, ProjectFails, storeVars
    <2> QED BY <1>0, <2>1, <2>2, BudgetKept
  <1> QED BY <1>1, <1>2

\* canRetry guards every reschedule of a worker.
LEMMA BudgetRun ==
  ASSUME IInv, TypeOK', BudgetInv, NEW w \in Workers, RunStep(w)
  PROVE  BudgetInv'
  <1>0. TypeOK /\ w \in Procs
    BY DEF IInv, Procs
  <1>1. CASE RunRenew(w)
    BY <1>0, <1>1, AttemptEffects, BudgetFrames, BudgetKept DEF RunRenew, procVars
  <1>2. CASE RunLeaseLost(w)
    BY <1>0, <1>2, BudgetFrames, BudgetKept DEF RunLeaseLost, storeVars
  <1>3. ASSUME NEW d \in BOOLEAN, RunReschedule(w, d)
        PROVE  BudgetInv'
    BY <1>0, <1>3, RescheduleBudget DEF RunReschedule, canRetry
  <1>4. ASSUME NEW o \in {"completed", "failed"}, RunSettle(w, o)
        PROVE  BudgetInv'
    BY <1>0, <1>4, BudgetFrames, BudgetKept DEF RunSettle, storeVars
  <1> QED BY <1>1, <1>2, <1>3, <1>4 DEF RunStep

\* Faults and the passage of time keep the budget.
LEMMA BudgetEnvironment ==
  ASSUME IInv, TypeOK', BudgetInv, EnvironmentStep
  PROVE  BudgetInv'
  <1>0. TypeOK /\ row \in RowType
    BY DEF IInv, TypeOK
  <1>1. CopiesKept
    BY <1>0, BudgetFrames
       DEF EnvironmentStep, OpError, Crash, LeaseExpires, IntentClaimExpires, RetryDue, DeadlinePasses,
           WindowCloses, procVars
  <1>2. AttemptsKept
    <2>1. CASE UNCHANGED row
      BY <1>0, <2>1, BudgetFrames
    <2>2. CASE LeaseExpires
      BY <1>0, <2>2 DEF LeaseExpires, AttemptsKept, RowType
    <2>3. CASE RetryDue
      BY <1>0, <2>3 DEF RetryDue, AttemptsKept, RowType
    <2> QED BY <2>1, <2>2, <2>3
            DEF EnvironmentStep, OpError, Crash, IntentClaimExpires, DeadlinePasses, WindowCloses, storeVars
  <1> QED BY <1>0, <1>1, <1>2, BudgetKept

\* Every step keeps the budget.
LEMMA BudgetStep == IInv /\ BudgetInv /\ [Next]_vars => BudgetInv'
  <1> SUFFICES ASSUME IInv, BudgetInv, [Next]_vars PROVE BudgetInv'
    OBVIOUS
  <1>1. TypeOK /\ TypeOK'
    BY TypeStep DEF IInv
  <1>2. CASE UNCHANGED vars
    BY <1>1, <1>2, BudgetFrames, BudgetKept DEF vars, storeVars, procVars
  <1> QED
    BY <1>1, <1>2, BudgetForeground, BudgetSettle, BudgetTick, BudgetRun, BudgetEnvironment DEF Next

\* Before the request is accepted there are no attempts.
LEMMA BudgetInit == Init => BudgetInv
  <1> SUFFICES ASSUME Init PROVE BudgetInv
    OBVIOUS
  <1>1. row.attempt = 0 /\ \A p \in Procs : tok[p] = 0
    BY DEF Init, AbsentRow
  <1>2. RetryBudget
    BY <1>1, ConstantsAssumption DEF RetryBudget
  <1> QED BY <1>1, <1>2 DEF BudgetInv, AttemptCopies, FirstAttempt, Procs

\* canRetry on a copy of the task: handoff, foreground release and worker
\* reschedules together never exceed MaxRetries, for any number of workers.
THEOREM RetryBudgetHolds == Spec => []RetryBudget
  <1>1. Spec => []BudgetInv
    BY BudgetInit, BudgetStep, Invariance, PTL DEF Spec
  <1>2. BudgetInv => RetryBudget
    BY DEF BudgetInv
  <1> QED BY <1>1, <1>2, PTL

-----------------------------------------------------------------------------
(* The foreground as author: while its stream runs, nobody has settled the *)
(* task in its name.                                                       *)

Starting == {"new", "handoff", "run"}

AuthorInv ==
  pc[Frontend] \in Starting =>
    /\ ~(intent # NoIntent /\ intent.src = 1)
    /\ ~(row.status \in {"completed", "failed"} /\ row.token = 1)

\* The foreground does not start again.
NoNewStart == pc'[Frontend] \in Starting => pc[Frontend] \in Starting

\* No intent is written, and no result.
IntentKept == intent' # NoIntent => intent # NoIntent /\ intent'.src = intent.src

NoNewResult ==
  (row'.status \in {"completed", "failed"} /\ row'.token = 1) =>
     (row.status \in {"completed", "failed"} /\ row.token = 1)

\* A step without an intent and without a result keeps the author.
LEMMA AuthorKept ==
  ASSUME AuthorInv, NoNewStart, IntentKept, NoNewResult
  PROVE  AuthorInv'
  BY DEF AuthorInv, NoNewStart, IntentKept, NoNewResult

\* Processes that release, drop or go on do not start again.
LEMMA AuthorFrames ==
  ASSUME TypeOK
  PROVE  /\ \A p \in Procs : \A l : (Goto(p, l) /\ l \notin Starting) => NoNewStart
         /\ \A p \in Procs : \A l : (Drop(p, l) /\ (p = Frontend => l \notin Starting)) => NoNewStart
         /\ \A p \in Procs : Release(p) => NoNewStart
         /\ \A w \in Workers : \A l : Goto(w, l) => NoNewStart
         /\ UNCHANGED pc => NoNewStart
         /\ UNCHANGED intent => IntentKept
         /\ UNCHANGED row => NoNewResult
  <1>0. Frontend \in Procs /\ Frontend \notin Workers /\ pc \in [Procs -> FrontendPCs \cup WorkerPCs]
    BY ConstantsAssumption DEF Procs, TypeOK
  <1>1. ASSUME NEW p \in Procs, NEW l, Goto(p, l), p = Frontend => l \notin Starting
        PROVE  NoNewStart
    BY <1>0, <1>1 DEF Goto, NoNewStart
  <1>2. ASSUME NEW p \in Procs, Release(p)
        PROVE  NoNewStart
    <2>1. Goto(p, After(p)) /\ (p = Frontend => After(p) = "done")
      BY <1>2 DEF Release, Drop, After
    <2> QED BY <1>1, <2>1 DEF Starting
  <1>3. \A w \in Workers : w \in Procs /\ w # Frontend
    BY <1>0 DEF Procs
  <1> QED BY <1>1, <1>2, <1>3 DEF Drop, NoNewStart, IntentKept, NoNewResult

\* Operations that write no result.
LEMMA AuthorRow ==
  ASSUME TypeOK
  PROVE  (Idles \/ Parks \/ Expires \/ Blocks) => NoNewResult
  BY DEF Idles, Parks, Expires, Blocks, NoNewResult

\* Updates of an intent that keep its source.
LEMMA AuthorIntent ==
  ASSUME TypeOK
  PROVE  /\ \A o : ClaimSettlementIntents(o) => IntentKept
         /\ \A o, c : RetrySettlementIntent(o, c) => IntentKept
         /\ \A o, c : FinalizeSettlement(o, c) => IntentKept
         /\ intent' = [intent EXCEPT !.clive = FALSE] /\ intent.clive => IntentKept
         /\ intent' = [intent EXCEPT !.due = TRUE] /\ intent # NoIntent => IntentKept
  <1>1. intent # NoIntent => intent \in IntentType
    BY DEF TypeOK
  <1>2. intent.clive => intent # NoIntent
    BY DEF NoIntent
  <1> QED BY <1>1, <1>2 DEF ClaimSettlementIntents, IntentClaimable, RetrySettlementIntent, HoldsIntent,
             FinalizeSettlement, IntentKept, IntentType

\* The foreground's steps keep the author.
LEMMA AuthorForeground ==
  ASSUME IInv, TypeOK', AuthorInv, ForegroundStep
  PROVE  AuthorInv'
  <1>0. TypeOK /\ Frontend \in Procs
    BY DEF IInv, Procs
  <1>1. NoNewStart
    <2>1. CASE Accept
      BY <2>1 DEF Accept, NoNewStart, Starting
    <2>2. ASSUME NEW o \in {"completed", "failed"}, ForegroundSettle(o)
          PROVE  NoNewStart
      BY <1>0, <2>2, AuthorFrames DEF ForegroundSettle, Starting
    <2>3. CASE Handoff \/ ForegroundRelease \/ ForegroundAbandon
      BY <1>0, <2>3, AuthorFrames DEF Handoff, ForegroundRelease, ForegroundAbandon
    <2>4. CASE ForegroundReleaseFails
      BY <1>0, <2>4, AuthorFrames DEF ForegroundReleaseFails, Starting
    <2>5. CASE UNCHANGED pc
      BY <1>0, <2>5, AuthorFrames
    <2> QED BY <2>1, <2>2, <2>3, <2>4, <2>5
            DEF ForegroundStep, Checkpoint, CheckpointReplyLost, WriteFrame, ForegroundRenew,
                ForegroundRenewStops, procVars
  <1>2. IntentKept
    BY <1>0, AuthorFrames
       DEF ForegroundStep, Accept, Handoff, Checkpoint, CheckpointReplyLost, WriteFrame, ForegroundRenew,
           ForegroundRenewStops, ForegroundSettle, ForegroundRelease, ForegroundReleaseFails,
           ForegroundAbandon, storeVars
  <1>3. NoNewResult
    <2>1. CASE Accept
      BY <2>1 DEF Accept, CreateAndClaim, NoNewResult
    <2>2. CASE Handoff \/ ForegroundRelease
      BY <1>0, <2>2, RescheduleQuiet, AuthorRow DEF Handoff, ForegroundRelease
    <2>3. ASSUME NEW s \in StreamStates, Checkpoint(s) \/ CheckpointReplyLost(s)
          PROVE  NoNewResult
      BY <1>0, <2>3, CheckpointEffect, ConstantsAssumption DEF Checkpoint, CheckpointReplyLost, NoNewResult
    <2>4. CASE ForegroundRenew
      BY <1>0, <2>4, RenewQuiet, AuthorRow DEF ForegroundRenew
    <2>5. CASE UNCHANGED row
      BY <1>0, <2>5, AuthorFrames
    <2> QED BY <2>1, <2>2, <2>3, <2>4, <2>5
            DEF ForegroundStep, WriteFrame, ForegroundRenewStops, ForegroundSettle,
                ForegroundReleaseFails, ForegroundAbandon, storeVars
  <1> QED BY <1>1, <1>2, <1>3, AuthorKept

\* An intent with token 1 is the foreground's, which is then settling.
LEMMA AuthorSettle ==
  ASSUME IInv, TypeOK', AuthorInv, NEW p \in Procs, SettleStep(p)
  PROVE  AuthorInv'
  <1>0. TypeOK /\ Frontend \in Procs
    BY DEF IInv, Procs
  <1>1. NoNewStart
    BY <1>0, AuthorFrames
       DEF SettleStep, Persist, Insert, SettlementClaim, TakeIntent, Finalize, FinalizeRetry, Starting
  <1>2. CASE Persist(p) \/ SettlementClaim(p) \/ FinalizeRetry(p)
    <2>1. IntentKept
      BY <1>0, <1>2, AuthorFrames, AuthorIntent
         DEF Persist, SettlementClaim, TakeIntent, FinalizeRetry, storeVars
    <2>2. NoNewResult
      BY <1>0, <1>2, AuthorFrames DEF Persist, SettlementClaim, FinalizeRetry, storeVars
    <2> QED BY <1>1, <2>1, <2>2, AuthorKept
  <1>3. CASE Insert(p)
    <2>1. NoNewResult
      BY <1>0, <1>3, AuthorFrames DEF Insert
    <2>2. CASE intent' = intent
      BY <1>0, <1>1, <2>1, <2>2, AuthorFrames, AuthorKept
    <2>3. CASE intent' # intent
      <3>1. PersistInsert(Owner(p), tok[p], out[p]) /\ Goto(p, "sclaim")
        BY <1>3, <2>3 DEF Insert
      <3>2. intent'.src = tok[p]
        BY <2>3, <3>1 DEF PersistInsert, NoIntent
      <3>3. CASE p = Frontend
        <4>1. pc'[Frontend] = "sclaim"
          BY <1>0, <3>1, <3>3 DEF Goto, TypeOK
        <4> QED BY <4>1 DEF AuthorInv, Starting
      <3>4. CASE p # Frontend
        <4>1. tok[p] # 1
          BY <3>4 DEF IInv, TokensHandedOut, Procs
        <4> QED BY <1>1, <2>1, <3>2, <4>1 DEF AuthorInv, NoNewStart, NoNewResult
      <3> QED BY <3>3, <3>4
    <2> QED BY <2>2, <2>3
  <1>4. CASE Finalize(p)
    <2>1. CASE UNCHANGED <<row, intent>>
      BY <1>0, <1>1, <2>1, AuthorFrames, AuthorKept
    <2>2. CASE FinalizeSettlement(Owner(p), ctok[p])
      <3>1. intent' = NoIntent /\ intent # NoIntent
        BY <1>0, <2>2, FinalizeEffect
      <3>2. CASE row' = row
        BY <1>0, <1>1, <2>2, <3>2, AuthorFrames, AuthorIntent, AuthorKept
      <3>3. CASE row' # row
        <4>1. row'.token = row.token /\ row.token = intent.src
          BY <1>0, <2>2, <3>3, FinalizeEffect
        <4> QED BY <1>1, <3>1, <4>1 DEF AuthorInv, NoNewStart
      <3> QED BY <3>2, <3>3
    <2> QED BY <1>4, <2>1, <2>2 DEF Finalize
  <1> QED BY <1>2, <1>3, <1>4 DEF SettleStep

\* The phases of a worker's tick and its executions keep the author.
LEMMA AuthorWorker ==
  ASSUME IInv, TypeOK', AuthorInv, NEW w \in Workers, TickStep(w) \/ RunStep(w)
  PROVE  AuthorInv'
  <1>0. TypeOK /\ w \in Procs
    BY DEF IInv, Procs
  <1>1. NoNewStart
    BY <1>0, AuthorFrames
       DEF TickStep, Drain, TakeIntent, ScanDeadlines, ScanUnsafe, ScanClaim, Scan, ApplyDeadlines,
           ApplyUnsafe, ApplyClaim, Project, ProjectCommit, ProjectFails,
           RunStep, RunRenew, RunLeaseLost, RunReschedule, RunSettle, procVars
  <1>2. IntentKept
    BY <1>0, AuthorFrames, AuthorIntent
       DEF TickStep, Drain, TakeIntent, ScanDeadlines, ScanUnsafe, ScanClaim, Scan, ApplyDeadlines,
           ApplyUnsafe, ApplyClaim, Project, ProjectCommit, ProjectFails,
           RunStep, RunRenew, RunLeaseLost, RunReschedule, RunSettle, storeVars
  <1>3. NoNewResult
    <2>1. CASE UNCHANGED row
      BY <1>0, <2>1, AuthorFrames
    <2>2. CASE ReapDeadlines
      BY <1>0, <2>2, DeadlineEffect DEF NoNewResult
    <2>3. CASE ReapUnsafeCheckpointed
      BY <1>0, <2>3, UnsafeEffect DEF NoNewResult
    <2>4. CASE ClaimRunnable(WorkerOwner)
      BY <1>0, <2>4, ClaimEffect DEF NoNewResult, Owners
    <2>5. CASE RenewLease(WorkerOwner, tok[w])
      BY <1>0, <2>5, RenewQuiet, AuthorRow
    <2>6. ASSUME NEW d \in BOOLEAN, RescheduleOrLost(w, d)
          PROVE  NoNewResult
      BY <1>0, <2>6, RescheduleQuiet, AuthorRow
    <2> QED BY <2>1, <2>2, <2>3, <2>4, <2>5, <2>6
       DEF TickStep, Drain, ScanDeadlines, ScanUnsafe, ScanClaim, Scan, ApplyDeadlines,
           ApplyUnsafe, ApplyClaim, Project, ProjectCommit, ProjectFails,
           RunStep, RunRenew, RunLeaseLost, RunReschedule, RunSettle, storeVars
  <1> QED BY <1>1, <1>2, <1>3, AuthorKept

\* Faults and the passage of time keep the author.
LEMMA AuthorEnvironment ==
  ASSUME IInv, TypeOK', AuthorInv, EnvironmentStep
  PROVE  AuthorInv'
  <1>0. TypeOK
    BY DEF IInv
  <1>1. NoNewStart
    <2>1. ASSUME NEW p \in Procs, OpError(p) \/ Crash(p)
          PROVE  NoNewStart
      <3>1. p = Frontend => AfterError(p) \notin Starting
        BY DEF AfterError, After, Starting
      <3>2. "persist" \notin Starting /\ "sretry" \notin Starting /\ "done" \notin Starting
        BY DEF Starting
      <3>3. CASE OpError(p)
        BY <1>0, <3>1, <3>2, <3>3, AuthorFrames DEF OpError
      <3>4. CASE Crash(p)
        BY <1>0, <3>2, <3>4, AuthorFrames DEF Crash
      <3> QED BY <2>1, <3>3, <3>4
    <2>2. CASE UNCHANGED pc
      BY <1>0, <2>2, AuthorFrames
    <2> QED BY <2>1, <2>2
            DEF EnvironmentStep, LeaseExpires, IntentClaimExpires, RetryDue, DeadlinePasses, WindowCloses,
                procVars
  <1>2. IntentKept
    BY <1>0, AuthorFrames, AuthorIntent
       DEF EnvironmentStep, OpError, Crash, LeaseExpires, IntentClaimExpires, RetryDue, DeadlinePasses,
           WindowCloses, storeVars
  <1>3. NoNewResult
    <2>1. CASE UNCHANGED row
      BY <1>0, <2>1, AuthorFrames
    <2>2. CASE LeaseExpires
      BY <1>0, <2>2, LeaseEffect DEF LeaseExpires, NoNewResult
    <2>3. CASE RetryDue /\ row' # row
      BY <1>0, <2>3, DueEffect DEF RetryDue, NoNewResult
    <2> QED BY <2>1, <2>2, <2>3
            DEF EnvironmentStep, OpError, Crash, IntentClaimExpires, DeadlinePasses, WindowCloses, storeVars
  <1> QED BY <1>1, <1>2, <1>3, AuthorKept

\* Every step keeps the author.
LEMMA AuthorStep == IInv /\ AuthorInv /\ [Next]_vars => AuthorInv'
  <1> SUFFICES ASSUME IInv, AuthorInv, [Next]_vars PROVE AuthorInv'
    OBVIOUS
  <1>1. TypeOK /\ TypeOK'
    BY TypeStep DEF IInv
  <1>2. CASE UNCHANGED vars
    BY <1>2 DEF vars, storeVars, procVars, AuthorInv
  <1> QED
    BY <1>1, <1>2, AuthorForeground, AuthorSettle, AuthorWorker, AuthorEnvironment DEF Next

-----------------------------------------------------------------------------
(* Refinement: every step is a step of TakeoverContract, or invisible.     *)

ContractStep == Contract!Next \/ UNCHANGED Contract!cvars

\* Leases, timers and reschedules are invisible.
LEMMA Invisible ==
  ASSUME Idles \/ Parks, UNCHANGED <<wire, pend>>
  PROVE  ContractStep
  <1>1. row'.token = row.token /\ row'.commit = row.commit /\ row'.by = row.by
    BY DEF Idles, Parks
  <1>2. /\ row'.status \in {"expired", "resume_safety_blocked"} <=> row.status \in {"expired", "resume_safety_blocked"}
        /\ Settled' <=> Settled
        /\ Settled => row'.status = row.status
    BY SettledStatuses DEF Idles, Parks
  <1> QED BY <1>1, <1>2 DEF ContractStep, Contract!cvars, IsRunnableCommitState

\* An unsettled row maps to no result.
LEMMA Unsettled ==
  ASSUME IInv, ResultInv, ~Settled
  PROVE  /\ row.by = 0 /\ row.token \in Nat
         /\ row.status \notin {"expired", "resume_safety_blocked"}
         /\ row.status # "absent" => row.token > 0
  BY SettledStatuses DEF ResultInv, SettledOnce, IInv, TokensHandedOut, TypeOK, RowType

\* A settlement, an expiry and a safety block conclude the request.
LEMMA Conclusions ==
  ASSUME IInv, ResultInv, UNCHANGED <<wire, pend>>, Concludes \/ Expires \/ Blocks
  PROVE  ContractStep
  <1>1. ~Settled /\ row.status # "absent"
    BY DEF Concludes, Expires, Blocks
  <1>2. /\ row.by = 0 /\ row.token \in Nat /\ row.token > 0
        /\ row.status \notin {"expired", "resume_safety_blocked"}
    BY <1>1, Unsettled
  <1>3. ~IsRunnableCommitState("terminal")
    BY DEF IsRunnableCommitState
  <1>4. CASE Concludes
    <2>1. Settled' /\ row'.status \notin {"expired", "resume_safety_blocked"}
      BY <1>4, SettledStatuses DEF Concludes
    <2>2. Contract!Settle
      BY <1>1, <1>2, <1>3, <1>4, <2>1 DEF Concludes, Contract!Settle, Contract!Conclude, Contract!NoResult
    <2> QED BY <2>2 DEF ContractStep, Contract!Next
  <1>5. CASE Expires
    <2>1. Settled'
      BY <1>5, SettledStatuses DEF Expires
    <2>2. Contract!Expire
      BY <1>1, <1>2, <1>3, <1>5, <2>1 DEF Expires, Contract!Expire, Contract!Conclude, Contract!NoResult
    <2> QED BY <2>2 DEF ContractStep, Contract!Next
  <1>6. CASE Blocks
    <2>1. Settled' /\ ~IsRunnableCommitState(row.commit)
      BY <1>6, SettledStatuses DEF Blocks, IsRunnableCommitState
    <2>2. Contract!GiveUp
      BY <1>1, <1>2, <1>6, <2>1 DEF Blocks, Contract!GiveUp, Contract!Conclude, Contract!NoResult
    <2> QED BY <2>2 DEF ContractStep, Contract!Next
  <1> QED BY <1>4, <1>5, <1>6

\* Accepting the request and claiming it start an execution.
LEMMA Executions ==
  ASSUME IInv, ResultInv, UNCHANGED <<wire, pend>>, ~Settled, IsRunnableCommitState(row.commit),
         row'.status = "running", row'.token = row.token + 1, row'.by = 0,
         IsRunnableCommitState(row'.commit)
  PROVE  ContractStep
  <1>1. /\ row.by = 0 /\ row.status \notin {"expired", "resume_safety_blocked"}
    BY Unsettled
  <1>2. ~Settled'
    BY SettledStatuses
  <1>3. Contract!Execute
    BY <1>1, <1>2 DEF Contract!Execute, Contract!NoResult
  <1> QED BY <1>3 DEF ContractStep, Contract!Next

\* The first checkpoint of content commits the first execution.
LEMMA Commits ==
  ASSUME IInv, ResultInv, NEW s \in CommitStates,
         CheckpointCommitState(FrontendOwner, tok[Frontend], s), UNCHANGED <<wire, pend>>
  PROVE  ContractStep
  <1>0. TypeOK /\ Frontend \in Procs /\ row.commit \in CommitStates
    BY DEF IInv, TypeOK, RowType, Procs
  <1>1. /\ row.status = "running" /\ row.token = tok[Frontend] /\ row'.status = "running"
        /\ row'.commit = s /\ row'.token = row.token /\ row'.by = row.by
        /\ CommitStateRank(row.commit) < CommitStateRank(s)
    BY <1>0, CheckpointEffect
  <1>2. ~Settled /\ ~Settled'
    BY <1>1, SettledStatuses
  <1>3. row.token = 1 /\ row.by = 0
    BY <1>1, <1>2, Unsettled DEF IInv, TokensHandedOut
  <1>4. CASE IsRunnableCommitState(s)
    <2>1. IsRunnableCommitState(row.commit)
      BY <1>0, <1>1, <1>4 DEF CommitStates, CommitStateRank, IsRunnableCommitState
    <2> QED BY <1>1, <1>2, <1>4, <2>1 DEF ContractStep, Contract!cvars
  <1>5. CASE ~IsRunnableCommitState(s)
    <2>1. Contract!Commit
      BY <1>1, <1>2, <1>3, <1>5 DEF Contract!Commit, Contract!NoResult
    <2> QED BY <2>1 DEF ContractStep, Contract!Next
  <1> QED BY <1>4, <1>5

\* Content is written by the first execution after its commit.
LEMMA Shows ==
  ASSUME IInv, ResultInv, AuthorInv, WriteFrame
  PROVE  ContractStep
  <1>0. /\ row.commit \in CommitStates /\ fgRank \in 0..4 /\ wire \in 0..4
        /\ row.status \in Statuses \cup {"absent"} /\ row.token \in Nat
    BY DEF IInv, TypeOK, RowType
  <1>1. row' = row /\ pend' = pend /\ wire' = fgRank /\ wire < fgRank /\ pc[Frontend] = "run"
    BY DEF WriteFrame, storeVars
  <1>2. CASE ~(fgRank >= ContentRank)
    <2>1. ~(wire >= ContentRank) /\ ~(wire' >= ContentRank)
      BY <1>0, <1>1, <1>2, Ranks
    <2> QED BY <1>1, <2>1 DEF ContractStep, Contract!cvars, Settled
  <1>3. CASE fgRank >= ContentRank
    <2>1. ~IsRunnableCommitState(row.commit)
      BY <1>0, <1>3, Ranks DEF IInv, WriteAhead
    <2>2. \/ row.token = 1 /\ row.status \notin {"expired", "resume_safety_blocked"}
          \/ row.token = 2 /\ row.status = "resume_safety_blocked"
      BY <1>3 DEF IInv, ForegroundAlone
    <2>3. row.token = 1 => row.status \notin {"completed", "failed", "canceled"}
      BY <1>1 DEF AuthorInv, Starting, ResultInv, SettledOnce
    <2>4. Settled => row.status = "resume_safety_blocked"
      BY <2>2, <2>3, SettledStatuses
    <2>5. wire' >= ContentRank
      BY <1>1, <1>3
    <2>6. Contract!Show
      BY <1>1, <2>1, <2>2, <2>4, <2>5 DEF Contract!Show, Settled
    <2> QED BY <2>6 DEF ContractStep, Contract!Next
  <1> QED BY <1>2, <1>3

\* The projector publishes the outcome of the settled row.
LEMMA Publishes ==
  ASSUME IInv, ResultInv, NEW w \in Workers, Project(w)
  PROVE  ContractStep
  <1>1. row' = row /\ wire' = wire
    BY DEF Project, storeVars
  <1>2. CASE pend' = pend
    BY <1>1, <1>2 DEF ContractStep, Contract!cvars, Settled
  <1>3. CASE pend' # pend
    <2>1. OutboxReady /\ pend'.status = ProjectedStatus(row.status)
      BY <1>3 DEF Project, SaveDurableCAS
    <2>2. Settled
      BY <2>1 DEF OutboxReady, ResultInv, OutboxOfResult
    <2>3. row.status # "none"
      BY <2>2, SettledStatuses
    <2>4. Contract!Publish
      BY <1>1, <2>1, <2>2, <2>3 DEF Contract!Publish, Contract!NoResult, ProjectedStatus, Settled
    <2> QED BY <2>4 DEF ContractStep, Contract!Next
  <1> QED BY <1>2, <1>3

\* The foreground's steps keep the contract.
LEMMA ContractForeground ==
  ASSUME IInv, ResultInv, AuthorInv, ForegroundStep
  PROVE  ContractStep
  <1>0. TypeOK /\ Frontend \in Procs
    BY DEF IInv, Procs
  <1>1. CASE Accept
    <2>1. /\ row.status = "absent" /\ row'.status = "running" /\ row'.commit = "none"
          /\ row'.token = 1 /\ row'.by = 0
      BY <1>0, <1>1, CreateEffect DEF Accept, Owners
    <2>2. ~Settled /\ row.token = 0 /\ row.commit = "none"
      BY <1>0, <2>1, SettledStatuses DEF IInv, TokensHandedOut, SettledClosed, TypeOK, RowType
    <2> QED BY <1>1, <2>1, <2>2, Executions DEF Accept, IsRunnableCommitState
  <1>2. CASE Handoff \/ ForegroundRelease
    BY <1>0, <1>2, RescheduleQuiet, Invisible DEF Handoff, ForegroundRelease
  <1>3. ASSUME NEW s \in StreamStates, Checkpoint(s) \/ CheckpointReplyLost(s)
        PROVE  ContractStep
    BY <1>3, Commits, ConstantsAssumption DEF Checkpoint, CheckpointReplyLost
  <1>4. CASE WriteFrame
    BY <1>4, Shows
  <1>5. CASE ForegroundRenew
    BY <1>0, <1>5, RenewQuiet, Invisible DEF ForegroundRenew
  <1>6. CASE UNCHANGED <<row, wire, pend>>
    BY <1>0, <1>6, Frames, Invisible
  <1> QED BY <1>1, <1>2, <1>3, <1>4, <1>5, <1>6
          DEF ForegroundStep, ForegroundRenewStops, ForegroundSettle, ForegroundReleaseFails,
              ForegroundAbandon, storeVars

\* Settlements keep the contract.
LEMMA ContractSettle ==
  ASSUME IInv, ResultInv, NEW p \in Procs, SettleStep(p)
  PROVE  ContractStep
  <1>0. TypeOK
    BY DEF IInv
  <1>1. CASE UNCHANGED row
    <2>1. UNCHANGED <<wire, pend>>
      BY DEF SettleStep, Persist, Insert, SettlementClaim, Finalize, FinalizeRetry
    <2> QED BY <1>0, <1>1, <2>1, Frames, Invisible
  <1>2. CASE Finalize(p) /\ row' # row
    <2>1. FinalizeSettlement(Owner(p), ctok[p]) /\ UNCHANGED <<wire, pend>>
      BY <1>2 DEF Finalize
    <2>2. /\ row.owner \in Owners /\ ~IsTerminalStatus(row.status)
          /\ row'.status \in {"completed", "failed"} /\ row'.commit = "terminal"
          /\ row'.owner = NoOwner /\ row'.live = FALSE
          /\ row'.token = row.token /\ row'.by = row.token
      BY <1>0, <1>2, <2>1, FinalizeEffect
    <2>3. row.status = "running"
      BY <2>2 DEF IInv, SettledClosed, NoOwner, Owners, FrontendOwner, WorkerOwner
    <2>4. Concludes
      BY <2>2, <2>3, SettledStatuses DEF Concludes
    <2> QED BY <2>1, <2>4, Conclusions
  <1> QED BY <1>1, <1>2
          DEF SettleStep, Persist, Insert, SettlementClaim, Finalize, FinalizeRetry, storeVars

\* The reapers, the projector and the claim keep the contract.
LEMMA ContractTick ==
  ASSUME IInv, ResultInv, NEW w \in Workers, TickStep(w)
  PROVE  ContractStep
  <1>0. TypeOK
    BY DEF IInv
  <1>1. CASE Project(w)
    BY <1>1, Publishes
  <1>2. CASE UNCHANGED <<row, wire, pend>>
    BY <1>0, <1>2, Frames, Invisible
  <1>3. CASE ReapDeadlines /\ UNCHANGED <<wire, pend>>
    <2>1. ~Settled
      BY <1>0, <1>3, DeadlineEffect DEF IInv, SettledClosed
    <2>2. Expires
      BY <1>0, <1>3, <2>1, DeadlineEffect DEF Expires
    <2> QED BY <1>3, <2>2, Conclusions
  <1>4. CASE ReapUnsafeCheckpointed /\ UNCHANGED <<wire, pend>>
    <2>1. row.status # "absent"
      BY <1>0, <1>4, UnsafeEffect DEF IInv, SettledClosed
    <2>2. Blocks
      BY <1>0, <1>4, <2>1, UnsafeEffect DEF Blocks, Settled
    <2> QED BY <1>4, <2>2, Conclusions
  <1>5. CASE ClaimRunnable(WorkerOwner) /\ UNCHANGED <<wire, pend>>
    <2>1. /\ row.status \in RunnableStatuses /\ row'.status = "running"
          /\ row'.token = row.token + 1 /\ row'.commit = row.commit
          /\ row'.by = row.by /\ IsRunnableCommitState(row.commit)
      BY <1>0, <1>5, ClaimEffect DEF Owners
    <2>2. ~Settled
      BY <2>1, SettledStatuses DEF RunnableStatuses
    <2>3. row'.by = 0
      BY <2>1, <2>2, Unsettled
    <2> QED BY <1>5, <2>1, <2>2, <2>3, Executions
  <1> QED BY <1>1, <1>2, <1>3, <1>4, <1>5
          DEF TickStep, Drain, ScanDeadlines, ScanUnsafe, ScanClaim, Scan, ApplyDeadlines, ApplyUnsafe,
              ApplyClaim, ProjectCommit, ProjectFails, storeVars

\* Executions are invisible once they have started.
LEMMA ContractRun ==
  ASSUME IInv, NEW w \in Workers, RunStep(w)
  PROVE  ContractStep
  <1>0. TypeOK /\ w \in Procs
    BY DEF IInv, Procs
  <1>1. Idles \/ Parks
    BY <1>0, Frames, RenewQuiet, RescheduleQuiet
       DEF RunStep, RunRenew, RunLeaseLost, RunReschedule, RunSettle, storeVars
  <1>2. UNCHANGED <<wire, pend>>
    BY DEF RunStep, RunRenew, RunLeaseLost, RunReschedule, RunSettle
  <1> QED BY <1>1, <1>2, Invisible

\* Faults are invisible; when the read window closes the entry is evicted.
LEMMA ContractEnvironment ==
  ASSUME IInv, EnvironmentStep
  PROVE  ContractStep
  <1>0. TypeOK
    BY DEF IInv
  <1>1. CASE UNCHANGED <<row, wire, pend>>
    BY <1>0, <1>1, Frames, Invisible
  <1>2. CASE LeaseExpires
    <2>1. Idles
      BY <1>0, <1>2, LeaseEffect DEF LeaseExpires, Idles
    <2> QED BY <1>2, <2>1, Invisible DEF LeaseExpires
  <1>3. CASE RetryDue
    <2>1. Idles
      BY <1>0, <1>3, DueEffect, Frames DEF RetryDue, Idles
    <2> QED BY <1>3, <2>1, Invisible DEF RetryDue
  <1>4. CASE WindowCloses
    <2>1. row' = row /\ wire' = wire /\ pend'.status = "none"
      BY <1>4 DEF WindowCloses, storeVars, NoEntry
    <2>2. Contract!Evict
      BY <2>1 DEF Contract!Evict, Settled
    <2> QED BY <2>2 DEF ContractStep, Contract!Next
  <1> QED BY <1>1, <1>2, <1>3, <1>4
          DEF EnvironmentStep, OpError, Crash, IntentClaimExpires, DeadlinePasses, storeVars

\* Every step is a step of the contract or invisible.
LEMMA StepKeepsContract == IInv /\ ResultInv /\ AuthorInv /\ [Next]_vars => ContractStep
  <1> SUFFICES ASSUME IInv, ResultInv, AuthorInv, [Next]_vars PROVE ContractStep
    OBVIOUS
  <1>1. CASE UNCHANGED vars
    BY <1>1, Frames, Invisible DEF vars, storeVars, IInv
  <1> QED
    BY <1>1, ContractForeground, ContractSettle, ContractTick, ContractRun, ContractEnvironment DEF Next

\* The initial states are initial states of the contract.
LEMMA InitKeepsContract == Init => Contract!Init
  <1> SUFFICES ASSUME Init PROVE Contract!Init
    OBVIOUS
  <1>1. /\ row.status = "absent" /\ row.token = 0 /\ row.commit = "none" /\ row.by = 0
        /\ wire = 0 /\ pend.status = "none"
    BY DEF Init, AbsentRow, NoEntry
  <1>2. ~Settled
    BY <1>1, SettledStatuses
  <1> QED BY <1>1, <1>2, Ranks DEF Contract!Init, Contract!NoResult, IsRunnableCommitState

\* Before the request is accepted nobody has settled it.
LEMMA AuthorInit == Init => AuthorInv
  BY DEF Init, AbsentRow, AuthorInv

\* Foreground, workers, store and projector together implement the contract:
\* a request is executed again only before its first content is committed,
\* content comes from the first execution only, the request is settled once,
\* and pollers are told nothing but the settled outcome.
THEOREM ContractKept == Spec => KeepsContract
  <1>1. Spec => []AuthorInv
    BY AuthorInit, AuthorStep, Invariance, PTL DEF Spec
  <1>2. Init => Contract!Init
    BY InitKeepsContract
  <1>3. IInv /\ ResultInv /\ AuthorInv /\ [Next]_vars => [Contract!Next]_Contract!cvars
    BY StepKeepsContract DEF ContractStep
  <1> QED BY <1>1, <1>2, <1>3, Invariance, ResultInvariance, PTL DEF Spec, KeepsContract, Contract!Spec

=============================================================================
