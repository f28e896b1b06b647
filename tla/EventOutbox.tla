---------------------------- MODULE EventOutbox -----------------------------
(***************************************************************************)
(* The transactional outbox that carries the gateway's events to the       *)
(* session manager (internal/outbox): events are written with the business *)
(* transaction, dispatchers claim them one at a time under a row lock that *)
(* lasts until the result is committed.  What ended in the dead-letter     *)
(* queue is redelivered by an operator's replay tool, or put back, closed  *)
(* or deleted by a script.                                                 *)
(*                                                                         *)
(* A transaction shows as one change of the row at its commit; between     *)
(* claim and commit the row is locked (cur[w] is the locked event) and the *)
(* HTTP round trip happens.  A crash or a failed commit gives the row back *)
(* as it was, after the session manager may have taken the event.  A lost  *)
(* database connection frees the row while its worker is still delivering. *)
(*                                                                         *)
(* attempts counts up to MaxAttempts and stays there, and is kept for the  *)
(* events still to be delivered: the code only compares it with that limit *)
(* when one of them fails, and the backoffs derived from it are the        *)
(* nondeterministic RetryDue.                                              *)
(***************************************************************************)
EXTENDS Naturals

CONSTANTS
  NumEvents,    \* bound: events, numbered in the order of occurred_at
  Poison,       \* events whose payload does not parse
  Dispatchers,  \* one per gateway instance
  Replayers,    \* runs of cmd/tools/outbox-dlq-replay
  Scripts,      \* operators at scripts/outbox-dlq-replay.sh
  MaxAttempts,  \* DispatcherConfig.MaxAttempts
  MaxFaults,    \* bound: crashes, failed commits, lost connections
  Nobody        \* no event

Events == 1..NumEvents
Workers == Dispatchers \cup Replayers

ASSUME OutboxAssumption ==
  /\ NumEvents \in Nat
  /\ Poison \subseteq Events
  /\ MaxAttempts \in Nat \ {0}
  /\ MaxFaults \in Nat
  /\ Nobody \notin Events
  /\ Dispatchers \cap Replayers = {}

VARIABLES
  row,       \* outbox_events: status, attempts and whether the retry is due
  pc,        \* where each worker is
  cur,       \* the event each worker has claimed
  lost,      \* the workers whose database connection, and lock, is gone
  verdict,   \* what Deliver returned for it
  paused,    \* bpPausedUntil is in the future
  todo,      \* the ids a replay selected and has not reached
  script,    \* the event each script has found dead-lettered and will reset
  gate,      \* the session manager's ingress is open
  asm,       \* the events the session manager holds (it deduplicates by id)
  mirrored,  \* the events copied to the task bus by OnEventSent
  blamed,    \* history: the open events with a failure other than backpressure
  faults

vars == <<row, pc, cur, lost, verdict, paused, todo, script, gate, asm, mirrored, blamed, faults>>
aside == <<lost, script>>

Statuses == {"none", "pending", "failed", "sent", "dlq", "closed"}
Row == [status : Statuses, attempts : 0..MaxAttempts, due : BOOLEAN]
Verdicts == {"accepted", "backpressure", "retryable", "rejected"}

Init ==
  /\ row = [e \in Events |-> [status |-> "none", attempts |-> 0, due |-> FALSE]]
  /\ pc = [w \in Workers |-> "idle"]
  /\ cur = [w \in Workers |-> Nobody]
  /\ lost = {}
  /\ verdict = [w \in Workers |-> "none"]
  /\ paused = [d \in Dispatchers |-> FALSE]
  /\ todo = [r \in Replayers |-> {}]
  /\ script = [o \in Scripts |-> Nobody]
  /\ gate = TRUE
  /\ asm = {}
  /\ mirrored = {}
  /\ blamed = {}
  /\ faults = 0

\* Row locks last as long as the connection of their transaction.
Locked(e) == \E w \in Workers \ lost : cur[w] = e

Bump(n) == IF n < MaxAttempts THEN n + 1 ELSE n

\* The session manager holds e twice: only the dispatcher takes that for yes.
AcceptDuplicate(w) == w \in Dispatchers

-----------------------------------------------------------------------------
(* Writing.                                                                *)

\* Writer.Write: the insert becomes visible when the caller's transaction commits.
Write(e) ==
  /\ row[e].status = "none"
  /\ row' = [row EXCEPT ![e] = [status |-> "pending", attempts |-> 0, due |-> FALSE]]
  /\ UNCHANGED <<pc, cur, verdict, paused, todo, gate, asm, mirrored, blamed, faults, aside>>

-----------------------------------------------------------------------------
(* The rows the marks write.                                               *)

markSent(r) == [status |-> "sent", attempts |-> 0, due |-> FALSE]

markDLQ(r) == [status |-> "dlq", attempts |-> 0, due |-> FALSE]

markFailed(r) ==
  IF Bump(r.attempts) >= MaxAttempts THEN markDLQ(r)
  ELSE [status |-> "failed", attempts |-> Bump(r.attempts), due |-> FALSE]

\* Mutant: backpressure spends the budget like any failure.
markBackpressure_Counted(r) == markFailed(r)

markBackpressure(r) ==
  [status |-> "failed", attempts |-> Bump(r.attempts), due |-> FALSE]

\* Mutant: an ordinary failure goes back to the queue without being counted.
DispatchMark_Uncounted(r, v) ==
  IF v = "accepted" THEN markSent(r)
  ELSE IF v \in {"backpressure", "retryable"}
       THEN [status |-> "failed", attempts |-> r.attempts, due |-> FALSE]
       ELSE markDLQ(r)

\* dispatchOne after Deliver.
DispatchMark(r, v) ==
  IF v = "accepted" THEN markSent(r)
  ELSE IF v = "backpressure" THEN markBackpressure(r)
  ELSE IF v = "retryable" THEN markFailed(r)
  ELSE markDLQ(r)

-----------------------------------------------------------------------------
(* The dispatchers.                                                        *)

\* Mutant: the lock ends with the SELECT, as it did before per-event transactions.
Claimable_NoLock(e) ==
  row[e].status = "pending" \/ (row[e].status = "failed" /\ row[e].due)

\* The WHERE of the claim query with SKIP LOCKED.
Claimable(e) ==
  /\ row[e].status = "pending" \/ (row[e].status = "failed" /\ row[e].due)
  /\ ~Locked(e)

\* A tick of Start; while paused the tick only refreshes gauges.
Tick(d) ==
  /\ pc[d] = "idle"
  /\ ~paused[d]
  /\ pc' = [pc EXCEPT ![d] = "batch"]
  /\ UNCHANGED <<row, cur, verdict, paused, todo, gate, asm, mirrored, blamed, faults, aside>>

\* Nothing is left to claim: dispatchOutcomeNone ends the batch.
BatchEmpty(d) ==
  /\ pc[d] = "batch"
  /\ \A e \in Events : ~Claimable(e)
  /\ pc' = [pc EXCEPT ![d] = "idle"]
  /\ UNCHANGED <<row, cur, verdict, paused, todo, gate, asm, mirrored, blamed, faults, aside>>

\* The oldest claimable row is locked; a payload that does not parse is
\* judged at once.
Claim(d) ==
  /\ pc[d] = "batch"
  /\ \E e \in Events :
       /\ Claimable(e)
       /\ \A f \in Events : Claimable(f) => e <= f
       /\ cur' = [cur EXCEPT ![d] = e]
       /\ pc' = [pc EXCEPT ![d] = IF e \in Poison THEN "answered" ELSE "claimed"]
       /\ verdict' = [verdict EXCEPT ![d] = IF e \in Poison THEN "rejected" ELSE "none"]
  /\ UNCHANGED <<row, paused, todo, gate, asm, mirrored, blamed, faults, aside>>

\* Backpressure stops the batch, anything else goes on with the next event.
AfterCommit(v) == IF v = "backpressure" THEN "idle" ELSE "batch"

\* The mark and its commit; backpressure pauses the whole loop.
Commit(d) ==
  LET e == cur[d]
      v == verdict[d]
  IN /\ pc[d] = "answered" /\ d \notin lost
     /\ row' = [row EXCEPT ![e] = DispatchMark(row[e], v)]
     /\ blamed' = IF v \in {"retryable", "rejected"} THEN blamed \cup {e}
                  ELSE IF v = "accepted" THEN blamed \ {e} ELSE blamed
     /\ paused' = [paused EXCEPT ![d] = @ \/ v = "backpressure"]
     /\ pc' = [pc EXCEPT ![d] = AfterCommit(v)]
     /\ cur' = [cur EXCEPT ![d] = Nobody]
     /\ verdict' = [verdict EXCEPT ![d] = "none"]
     /\ UNCHANGED <<todo, gate, asm, mirrored, faults, aside>>

-----------------------------------------------------------------------------
(* The session manager and the HTTP round trip.                            *)

\* onEventSent is called for a delivery that succeeded, by the dispatcher only.
Mirrors(w, v) == w \in Dispatchers /\ v = "accepted"

\* What Deliver can return.  An acknowledgment that counts a duplicate is an
\* ordinary error for the replay tool.
Answers(w, e) ==
  IF gate
  THEN {"retryable", "rejected"}
       \cup (IF e \in asm /\ ~AcceptDuplicate(w) THEN {} ELSE {"accepted"})
  ELSE {"backpressure", "retryable"}

\* Deliver: the session manager may have taken the event although the answer
\* is an error (timeout, undecodable acknowledgment); the bridge to the task
\* bus may fail without consequence.
Deliver(w) ==
  LET e == cur[w] IN
  /\ pc[w] = "claimed"
  /\ \E v \in Answers(w, e) :
       /\ verdict' = [verdict EXCEPT ![w] = v]
       /\ asm' \in IF v = "accepted" THEN {asm \cup {e}}
                  ELSE IF v = "retryable" /\ gate THEN {asm, asm \cup {e}} ELSE {asm}
       /\ mirrored' \in {mirrored} \cup (IF Mirrors(w, v) THEN {mirrored \cup {e}} ELSE {})
  /\ pc' = [pc EXCEPT ![w] = "answered"]
  /\ UNCHANGED <<row, cur, paused, todo, gate, blamed, faults, aside>>

\* The ingress readiness gate opens and closes.
Gate ==
  /\ gate' = ~gate
  /\ UNCHANGED <<row, pc, cur, verdict, paused, todo, asm, mirrored, blamed, faults, aside>>

-----------------------------------------------------------------------------
(* The replay tool.                                                        *)

\* selectDLQ: the ids are read without a lock.
ReplaySelect(r) ==
  /\ pc[r] = "idle"
  /\ \E s \in SUBSET {e \in Events : row[e].status = "dlq"} :
       s # {} /\ todo' = [todo EXCEPT ![r] = s]
  /\ pc' = [pc EXCEPT ![r] = "replay"]
  /\ UNCHANGED <<row, cur, verdict, paused, gate, asm, mirrored, blamed, faults, aside>>

\* Mutant: the claim takes the id without looking at the status again.
StillDead_Unchecked(e) == TRUE

\* The WHERE of replayClaimQuery, evaluated again once the lock is free.
StillDead(e) == row[e].status = "dlq"

\* replayOne up to Deliver: the next id is locked, waiting for whoever holds
\* it, or skipped; a payload that does not parse is judged at once.
ReplayClaim(r) ==
  /\ pc[r] = "replay"
  /\ \E e \in todo[r] :
       /\ \A f \in todo[r] : e <= f
       /\ ~Locked(e)
       /\ todo' = [todo EXCEPT ![r] = @ \ {e}]
       /\ IF StillDead(e)
          THEN /\ cur' = [cur EXCEPT ![r] = e]
               /\ pc' = [pc EXCEPT ![r] = IF e \in Poison THEN "answered" ELSE "claimed"]
               /\ verdict' = [verdict EXCEPT ![r] = IF e \in Poison THEN "rejected" ELSE "none"]
          ELSE UNCHANGED <<cur, pc, verdict>>
  /\ UNCHANGED <<row, paused, gate, asm, mirrored, blamed, faults, aside>>

\* The event is sent, or stays in the queue with another last_error.
ReplayCommit(r) ==
  LET e == cur[r] IN
  /\ pc[r] = "answered" /\ r \notin lost
  /\ IF verdict[r] = "accepted"
     THEN row' = [row EXCEPT ![e] = markSent(row[e])] /\ blamed' = blamed \ {e}
     ELSE UNCHANGED <<row, blamed>>
  /\ pc' = [pc EXCEPT ![r] = "replay"]
  /\ cur' = [cur EXCEPT ![r] = Nobody]
  /\ verdict' = [verdict EXCEPT ![r] = "none"]
  /\ UNCHANGED <<paused, todo, gate, asm, mirrored, faults, aside>>

ReplayDone(r) ==
  /\ pc[r] = "replay"
  /\ todo[r] = {}
  /\ pc' = [pc EXCEPT ![r] = "idle"]
  /\ UNCHANGED <<row, cur, verdict, paused, todo, gate, asm, mirrored, blamed, faults, aside>>

-----------------------------------------------------------------------------
(* The script.  Its statements wait for row locks; those on several rows   *)
(* are taken row by row, which adds no state: a statement skips the rows   *)
(* that were not dead-lettered yet when it started.                        *)

Reset(e) ==
  /\ row' = [row EXCEPT ![e] = [status |-> "pending", attempts |-> 0, due |-> FALSE]]
  /\ blamed' = blamed \ {e}

\* cmd_replay reads the status ...
ScriptVerify(o) ==
  /\ script[o] = Nobody
  /\ \E e \in Events : row[e].status = "dlq" /\ script' = [script EXCEPT ![o] = e]
  /\ UNCHANGED <<row, pc, cur, lost, verdict, paused, todo, gate, asm, mirrored, blamed, faults>>

\* ... and resets the row, whatever has become of it; a deleted one is not found.
ScriptReset(o) ==
  LET e == script[o] IN
  /\ e # Nobody
  /\ ~Locked(e)
  /\ script' = [script EXCEPT ![o] = Nobody]
  /\ Reset(e) \/ (row[e].status = "closed" /\ UNCHANGED <<row, blamed>>)
  /\ UNCHANGED <<pc, cur, lost, verdict, paused, todo, gate, asm, mirrored, faults>>

\* cmd_replay_all, on one of its rows: here the UPDATE tests the status.
ResetDead(e) ==
  /\ row[e].status = "dlq" /\ ~Locked(e)
  /\ Reset(e)
  /\ UNCHANGED <<pc, cur, verdict, paused, todo, gate, asm, mirrored, faults, aside>>

\* cmd_mark_processed, where the table has no CHECK on the status, or cmd_purge,
\* which deletes the row.
Close(e) ==
  /\ row[e].status = "dlq" /\ ~Locked(e)
  /\ row' = [row EXCEPT ![e] = [status |-> "closed", attempts |-> 0, due |-> FALSE]]
  /\ blamed' = blamed \ {e}
  /\ UNCHANGED <<pc, cur, verdict, paused, todo, gate, asm, mirrored, faults, aside>>

-----------------------------------------------------------------------------
(* Faults and time.                                                        *)

Fault ==
  /\ faults < MaxFaults
  /\ faults' = faults + 1

\* The worker stops; its transaction is rolled back and the lock released.
GiveBack(w) ==
  /\ pc' = [pc EXCEPT ![w] = "idle"]
  /\ cur' = [cur EXCEPT ![w] = Nobody]
  /\ lost' = lost \ {w}
  /\ verdict' = [verdict EXCEPT ![w] = "none"]
  /\ todo' = [r \in Replayers |-> IF r = w THEN {} ELSE todo[r]]
  /\ UNCHANGED <<row, script, gate, asm, mirrored, blamed>>

\* The connection breaks while the delivery is under way: the server rolls back
\* and frees the row, the worker goes on.  (Once the answer is there, a broken
\* connection is a failed commit.)
ConnectionLost(w) ==
  /\ pc[w] = "claimed" /\ w \notin lost
  /\ Fault
  /\ lost' = lost \cup {w}
  /\ UNCHANGED <<row, pc, cur, verdict, paused, todo, script, gate, asm, mirrored, blamed>>

\* Its mark then fails: the batch or the replay ends.
MarkLost(w) ==
  /\ pc[w] = "answered" /\ w \in lost
  /\ GiveBack(w)
  /\ UNCHANGED <<paused, faults>>

\* So it does after any other structural error, the commit's above all.
CommitFails(w) ==
  /\ pc[w] # "idle"
  /\ Fault
  /\ GiveBack(w)
  /\ UNCHANGED paused

\* The process dies and comes back: the pause was in its memory.
Crash(w) ==
  /\ Fault
  /\ GiveBack(w)
  /\ paused' = [d \in Dispatchers |-> paused[d] /\ d # w]

\* next_retry_at is reached.
RetryDue(e) ==
  /\ row[e].status = "failed"
  /\ ~row[e].due
  /\ row' = [row EXCEPT ![e] = [status |-> "failed", attempts |-> row[e].attempts, due |-> TRUE]]
  /\ UNCHANGED <<pc, cur, verdict, paused, todo, gate, asm, mirrored, blamed, faults, aside>>

\* The cooldown of the backpressure pause is over.
CooldownOver(d) ==
  /\ paused[d]
  /\ paused' = [paused EXCEPT ![d] = FALSE]
  /\ UNCHANGED <<row, pc, cur, verdict, todo, gate, asm, mirrored, blamed, faults, aside>>

-----------------------------------------------------------------------------
Dispatch(d) == Tick(d) \/ BatchEmpty(d) \/ Claim(d) \/ Deliver(d) \/ Commit(d) \/ MarkLost(d)

Replay(r) ==
  \/ ReplaySelect(r) \/ ReplayClaim(r) \/ Deliver(r) \/ ReplayCommit(r) \/ MarkLost(r)
  \/ ReplayDone(r)

Next ==
  \/ \E e \in Events : Write(e) \/ RetryDue(e)
  \/ \E d \in Dispatchers : Dispatch(d) \/ CooldownOver(d)
  \/ \E r \in Replayers : Replay(r)
  \/ \E o \in Scripts : ScriptVerify(o) \/ ScriptReset(o)
  \/ \E e \in Events : ResetDead(e) \/ Close(e)
  \/ \E w \in Workers : ConnectionLost(w) \/ CommitFails(w) \/ Crash(w)
  \/ Gate

Spec == Init /\ [][Next]_vars

\* The poll loops run, time passes, an operator finishes a replay once it is
\* started; nothing is assumed of the gate, of new events, new replays or scripts.
Fairness ==
  /\ \A d \in Dispatchers : WF_vars(Dispatch(d)) /\ WF_vars(CooldownOver(d))
  /\ \A r \in Replayers :
       WF_vars(ReplayClaim(r) \/ Deliver(r) \/ ReplayCommit(r) \/ MarkLost(r) \/ ReplayDone(r))
  /\ \A e \in Events : WF_vars(RetryDue(e))

FairSpec == Spec /\ Fairness
-----------------------------------------------------------------------------
(* Properties.                                                             *)

\* Types: the statuses outbox_events allows, attempts within its limit, and
\* a verdict only for a worker that holds an event.
TypeOK ==
  /\ row \in [Events -> Row]
  /\ pc \in [Workers -> {"idle", "batch", "replay", "claimed", "answered"}]
  /\ cur \in [Workers -> Events \cup {Nobody}]
  /\ lost \subseteq Workers
  /\ verdict \in [Workers -> Verdicts \cup {"none"}]
  /\ paused \in [Dispatchers -> BOOLEAN]
  /\ todo \in [Replayers -> SUBSET Events]
  /\ script \in [Scripts -> Events \cup {Nobody}]
  /\ gate \in BOOLEAN
  /\ asm \subseteq Events
  /\ mirrored \subseteq Events
  /\ blamed \subseteq Events
  /\ faults \in 0..MaxFaults

\* Two workers deliver the same event at the same time only if one of them has
\* lost its connection: the row lock covers the whole delivery (dispatchBatch,
\* replayOne).
OneDelivery ==
  \A v, w \in Workers \ lost : v # w /\ cur[v] = cur[w] => cur[v] = Nobody

\* An event that is recorded as sent has reached the session manager,
\* whatever crashed, was lost or was replayed in between.
SentWasReceived == \A e \in Events : row[e].status = "sent" => e \in asm

\* No worker is about to record anything of an event that is already recorded
\* as sent, closed or deleted: a replay selected it before somebody else
\* finished it, and must skip it.  (Who lost his connection records nothing.)
SentIsLeftAlone ==
  \A w \in Workers \ lost :
    cur[w] # Nobody => row[cur[w]].status \in {"pending", "failed", "dlq"}

\* The task bus never gets an event the session manager has not taken, so
\* the reconciliation of the two tables by event_id finds no stray entry.
MirroredWasReceived == mirrored \subseteq asm

\* Backpressure alone never dead-letters an event: whatever is in the
\* dead-letter queue has met a failure of another kind (markBackpressure).
DeadForCause == \A e \in Events : row[e].status = "dlq" => e \in blamed

\* A dispatcher that met a closed gate delivers nothing until its cooldown
\* is over: the rest of the batch is abandoned too.
QuietWhilePaused ==
  \A d \in Dispatchers : paused[d] => pc[d] = "idle" /\ cur[d] = Nobody

\* The outbox keeps the promise of an at-least-once queue.
QueueState ==
  [e \in Events |-> IF row[e].status = "none" THEN "absent"
                    ELSE IF row[e].status \in {"pending", "failed"} THEN "owed"
                    ELSE IF row[e].status = "sent" THEN "done"
                    ELSE IF row[e].status = "dlq" THEN "parked" ELSE "dropped"]

Asked == {script[o] : o \in Scripts} \ {Nobody}

Queue == INSTANCE AtLeastOnce WITH
  Items <- Events, state <- QueueState, received <- asm, asked <- Asked

\* Refinement: every step of the outbox is a step of AtLeastOnce or none.
KeepsQueuePromise == Queue!Spec

\* If the session manager stays open from some time on, and operators stop
\* putting events back at the head of the queue, every event that was written
\* ends as sent or in the dead-letter queue: neither a pause, a backoff, an event
\* that cannot be delivered nor a lock left by a dead dispatcher holds it for ever.
Drained ==
  /\ <>[]gate
  /\ <>[][\A e \in Events : row'[e].status = "pending" => row[e].status \in {"none", "pending"}]_row
  => \A e \in Events :
       row[e].status \in {"pending", "failed"} ~> row[e].status \in {"sent", "dlq"}
=============================================================================
