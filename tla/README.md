# AI Native Gateway: a TLA+ verification project

This directory models the parts of the gateway in which several processes,
goroutines or instances cooperate through shared storage or one connection. Its
core is the *durable takeover*: the protocol that keeps an LLM request alive when
its client leaves or the instance that serves it dies, without ever executing it
twice behind a client that has already seen output. Around it stand the delivery
path that decides what a client sees (commit gate, survival coordinator), the
queues that carry events and tasks, and the two leases that ration a credential.

## 1. Inventory

The gateway is a Go program (PostgreSQL + Redis, usually two or more instances on
one schema). The parts that keep state across steps:

| part | code | state | operations | what is hard |
|---|---|---|---|---|
| durable store | `durable/` | rows of `durable_llm_tasks`, `durable_task_settlement_intents`, `durable_pending_outbox` | create+claim, claim, renew, checkpoint, reschedule, persist / claim / finalize / retry intent, two reapers | leases that run out under live holders, fences checked without locks, snapshot reads before row locks |
| foreground stream | `domains/streaming/durable_wiring.go`, `durable_stream.go` | lease copy, highest checkpointed rank, renewal loop | accept, hand off, checkpoint, settle, release, abandon | write-ahead of checkpoints against bytes on the wire, lost replies |
| recovery worker | `durable_recovery_worker.go`, `durable_runner.go` | a claimed task per execution | drain, reap, project, claim, run, settle | all workers share one `lease_owner` |
| projector | `durable/pending_outbox.go`, `pending/durable_cas.go` | Redis hash per request | project | Redis write before the PostgreSQL commit |
| pending store, sweeper | `pending/`, `bg/pending_sweeper.go` | Redis hash per request | mark in progress, save, get, sweep | plain writes beside a compare-and-set |
| commit gate | `domains/streaming/attempt_commit_gate.go` | buffer, commit state, checkpointed state, holdback window | write frame, flush holdback, commit, finish, discard | two locks, the inner one free during the hook and the write |
| survival coordinator | `survival_coordinator.go`, `stream_recovery.go` and the bridges | attempts, replay plan, committed prefix | run, execute attempt, judge, retry, replay, end | who ends the stream, what a replay may repeat |
| event outbox | `internal/outbox`, `cmd/tools/outbox-dlq-replay`, `scripts/outbox-dlq-replay.sh` | rows of `outbox_events`, pause of a dispatcher | write, claim, deliver, record, replay, reset, close | a row lock held across an HTTP call, operators beside it |
| task bus | `internal/taskbus` | tasks in memory or SQL | enqueue, claim batch, handle, mark, sweep | marks by id, whoever holds the claim |
| credential slots | `credentialfpslot` | slot and pin keys in Redis | acquire, release, hard release, reclaim, reset | idleness inferred from a TTL that a setting changes |
| dispatch governor | `domains/dispatch` | sorted set of tokens in Redis, renewal loop | acquire, renew, release | clocks of server and client, failed and late renewals |
| breaker, rate limiter, degradation guard, node state, event bus | `domains/credential`, `domains/credentialstate`, `ratelimit`, `domains/dbdegradation`, `domains/nodestatecache`, `domains/events` | counters and caches | | not modelled, see section 7 |
| routing, conversion, executors, admin, statistics | `autoroute`, `internal/ir*`, `admin`, `bg`, ... | mostly request-local or CRUD | | no protocol of their own |

How they meet: a client request passes the governor and takes a slot; the survival
coordinator runs attempts, each behind a commit gate; the gate's checkpoint hook
writes the foreground stream's commit state into the durable store; settlement and
projection carry the outcome to the pending store; events of all of them go through
the outbox, whose successes are mirrored to the task bus.

What makes them correct: content shown to a client is never produced a second time;
the recorded result belongs to the last execution that was started; a settled row
never changes; every accepted task is settled; pollers see the settled outcome;
nothing reaches the wire before its checkpoint; a stream has one end; events and
tasks are delivered or parked, never lost; a slot in use is not given away; the
cluster keeps to its concurrency cap. `PROJECT.json` lists the hazards line by line.

## 2. Modules

| module | models |
|---|---|
| `DurableTask` | `durable/task.go`: statuses, commit-state ranks, the claim gate, the transition matrix |
| `DurableStore` | one operator per repository operation on one task row, its intent and its outbox row |
| `DurableTakeover` | the processes: foreground handler, workers, projector, and the environment (faults and timers); the specification, its properties and its inductive invariant |
| `TakeoverContract` | abstract specification: what the client is promised |
| `DurableTakeoverProofs` | TLAPS proofs of its safety, the refinement of `TakeoverContract` included |
| `PendingStore` | `pending/` and `bg/pending_sweeper.go`: one cached response and all who write it (captured streams, sweepers, the projection, expiry) |
| `PendingStoreProofs` | TLAPS proofs |
| `CommitGate` | one attempt's gate: the calls of the bridge and the coordinator, both locks, the hook, the holdback window |
| `CommitGateProofs` | TLAPS proofs |
| `SurvivalLoop`, `MCSurvivalLoop` | `SurvivalCoordinator.Run` over all attempts of a request; the settings TLC runs it under |
| `SurvivalLoopProofs` | TLAPS proofs |
| `AtLeastOnce` | abstract specification: what a delivery queue promises, and what an operator may do to it |
| `EventOutbox` | writer, dispatchers, HTTP delivery, bridge to the task bus, replay tool, DLQ script; refines `AtLeastOnce` |
| `EventOutboxProofs` | TLAPS proofs, the refinement included |
| `TaskBus`, `TaskBusProofs` | both stores and the dispatcher; TLAPS proofs |
| `CredentialSlots`, `MCCredentialSlots` | the fingerprint slots of one credential; symmetry of holders and requests |
| `CredentialSlotsProofs` | TLAPS proofs |
| `GovernorLease`, `GovernorLeaseProofs` | the cluster-wide concurrency lease of one credential; TLAPS proofs |

### State and atomicity: durable takeover and pending store

Rows of different tasks share nothing, so the model follows one task. `row` keeps
the columns the SQL tests: status, `commit_state`, owner, fencing token,
attempt count, result version, plus `by`, the fencing token of the execution whose
result was recorded (a history variable: the row keeps that token in
`fencing_token`). Times become Booleans: `live` (lease_until > now), `due`
(next_retry_at <= now), `deadline`, `window` (expires_at > now).

A statement or a locked transaction is one step. Four operations are two steps
because the code leaves a gap: `ClaimRunnable`, `ReapDeadlines` and
`ReapUnsafeCheckpointed` evaluate `NOT EXISTS (settlement intent)` on the
snapshot of their SELECT while the row lock re-tests only the task row (`Scan*`,
`Apply*`); `PersistSettlementIntent` reads the task row without a lock and inserts
elsewhere (`Persist`, `Insert`). The projector writes Redis and then commits
(`Project`, `ProjectCommit`).

A process is a program counter, the token of its task copy (`tok`, `att`), the
outcome it settles (`out`) and the claim token of the intent it holds (`ctok`).
All frontends use the owner `gateway-frontend` and all workers
`gateway-durable-worker`, as the configuration defaults do.

The environment may fail any statement (`OpError`), kill any process (`Crash`),
lose the reply of a checkpoint, and let a lease or an intent claim run out under a
live holder. Each of these is a *fault*; `MaxFaults` bounds their number. A lease
that nobody renews runs out for free.

`NestedQuery` says whether the driver runs a second statement on a transaction whose
row stream is open. The vendored pgx does not (`pgconn.go:770`, where `ClaimSucceeds`
is mapped); `claimSettlementIntents` needs it to (see Findings). The theorems hold for both values. The runs about the rest of
the protocol set it to TRUE, that is, they describe the code with that one defect
repaired.

### State and atomicity: the delivery path

`CommitGate`. A call that holds `writeMu` is the record `op`, parked wherever `mu`
is free: around the checkpoint hook and around a write to the connection. `Discard`
takes `mu` only and so may happen in every state. Mode and window are chosen in
Init, as they are fixed when a gate is built. A frame is its class, its number and
whether it is `whole`. The byte assembly inside `WriteFrame` is left out: what it leaves
at the end of the stream is a frame that is not whole. `FinishAttempt` classifies it
but, unless it is taken for the end, writes or buffers it without a checkpoint; one
taken for the end is checkpointed like a frame.

`SurvivalLoop`. `ExecuteAttempt` is synchronous, so a call of the gate is one step
here; `CommitGate` covers what can happen inside it. An answer is a sequence of
content units and an end (0); a frame carries one or more units, and a replay that
says something else at place n sends -n. `conf`, chosen in Init, holds the settings
of the request: holdback, L2 replay with its alignment threshold and prefix window,
durability, whether the bridge latches the gate with its terminal, and what it
renders when a committed stream breaks off. The aggregated failure kinds are reduced
to what the decision makes of them. A replay that matches sends the suffix frame by
frame; since the verdict has checkpointed content, only the end of the stream can
still fail its checkpoint, and the suffix then stops before it (`CutShort`).

### State and atomicity: the queues

`EventOutbox`. A claim locks the row until the commit that records the delivery
(`cur`); the HTTP round trip is in between. A crash or a failed commit gives the row
back unchanged after the session manager may have taken the event. A database
connection lost during the round trip frees the row at once while the delivery goes on
(`lost`); the worker finds out when it records the result. `attempts`
saturates at its limit and is kept for open events only, backoffs are the action
`RetryDue`. Dead-lettered events leave the queue by the replay tool, which delivers them
itself, or by the script the alert's runbook names: `replay` reads the status and then
resets the row to `pending` in a second statement that does not test it again
(`ScriptVerify`, `ScriptReset`); `replay-all` tests it (`ResetDead`); `mark-processed`
and `purge` are `Close`. `blamed` is history. `AtLeastOnce` keeps of all this whether an
item is owed, done, parked or dropped, what the consumer holds, and which items an
operator saw parked and may still requeue.

`TaskBus`. The store (`memory` or `sql`) is chosen in Init. A batch holds copies of
the tasks as they were at the claim, and marks go by task id. A claim of a dead
dispatcher expires for free in the SQL store; one of a living dispatcher is counted
by `slow`, because some properties need to know. `old` says that the retention of a
finished task has passed, so that the memory store may sweep it.

### State and atomicity: credentials

`CredentialSlots`. Each Lua script is one step; `Acquire` reads the pin and then runs
one or two scripts, with other processes in between. Time is in ticks, `Second` of them
to a second: the `TTL` command rounds what is left of a key to the nearest second
(`Remaining`), settings are whole seconds, keys expire at any tick. `silent`, `age` and
`stale` are history; `stale` says of a slot that the TTL setting was changed since it
was last used. `outside` records that an administrator or a watchdog freed slots
(`freed`) or that the TTL setting was changed (`tuned`, at most once). The watchdog's
`ReleaseHard` may be applied although its reply is lost: the fallback then finds the
slot gone and the lease stays unreleased (`Fallback`).

`GovernorLease`. Time is discrete; the sorted set keeps the age of each token. A
Redis call takes effect and returns within `CallTime`, or fails, applied or not; an
`Acquire` whose reply is late may be sent again by the client. Tickers are punctual.
`Acquire`'s clock is truncated to the second, as in the script. `misses` and `unheld`
are history.

## 3. Runs

| run | bounds | shows |
|---|---|---|
| `takeover` | 2 workers, 1 retry, 2 settlement tries, content only, 1 fault, fairness | the safety invariants and the action properties; every task settles, every intent is drained, every result is published; refinement `KeepsContract` |
| `settlement_claim_nested` | 1 worker, pgx's answer to a nested query | violation: an intent is never drained |
| `pending_liveness` | 2 streams, 2 sweepers, 2 faults, fairness | placeholders are resolved, settled tasks are answered, sweepers never send pollers back to waiting |
| `sweeper_overwrites` | 1 stream, 1 sweeper, no fault | violation: an answer is overwritten by `stale_timeout` |
| `gate` | 5 frames, buffer of 3, window 0 or 2, both modes | write-ahead, silent discard, order and completeness of the wire |
| `survival` | 2 retries, 2 recoveries, frames of 1 or 2 units, four settings (durable Responses, Chat, Chat with replay, durable Chat with a replay that accepts half the prefix), fairness | no repetition, one end, whole answers, `Run` returns |
| `survival_ends_twice` | same, a bridge that renders without latching | violation: two ends |
| `outbox` | 2 events, the first unparsable, 2 dispatchers, 1 replay, 1 script, 2 attempts, 1 fault, fairness | one delivery at a time, stale selections skipped, no dead letter for backpressure, refinement of `AtLeastOnce`, every event ends |
| `taskbus` | 3 tasks (one without handler), batches of 2, 2 dispatchers, 2 attempts, 1 slow claim, 1 fault, both stores, fairness | sent only if handled, given up only after the budget, finished tasks stay finished, all finish |
| `slots` | 2 holders, 2 requests, 2 slots, a second of 3 ticks, gate 3, TTL 3 or 6 | a fresh lease keeps its slot, an active holder is not preempted, nobody is refused a slot he could have |
| `governor` | 3 requests, limit 1, interval 4, second 2, calls up to 1 | the cap over the cluster, tolerance of one missed renewal, bounded overrun, leaks heal |
| `governor_overrun` | same, 2 requests | violation: a stream runs on an expired lease |

Bounds, takeover. Two workers are enough for a worker to race another and for a stale
holder to meet a new one; the foreground is a third process. One fault is a crash, a
failed statement, a lost reply or a lease lost at any point; leases that nobody renews
run out besides. (The safety properties were also checked with two faults and the
metadata state.) One retry lets a task be handed
over, rescheduled once more and exhaust its budget. `SettlementTries` is 2 instead
of 3: one repetition of the loop. The theorems need none of these bounds.

Bounds, pending store. Two sweepers and two streams let each kind race itself and
the other, the second stream being a retry of the same request; with a third of either
kind nothing new meets at the one entry. An execution captures once, so pollers are
sent back to waiting at most once per stream.

Bounds, others. Five frames fill a buffer of three, overflow it and leave one to
commit; a window of two closes by count and, before that, by time. Two retries let a
replay follow a replay; frames of two units straddle the committed prefix. In the
outbox two attempts separate a retry from the last one, a replay and the script select
the same id, and the unparsable event at the head would block the second one. Three tasks
exceed a batch of two. In the slots a holder with two slots forces the other to preempt
one; a second of three ticks shows the rounding; the TTL lies at the gate and above it.
(The same properties were also checked with three holders.) In the governor three requests let one leak a token,
one hold it and one wait; `Interval`, `Second` and `CallTime` are the smallest that
differ and keep `GovernorAssumption`. (Its safety properties were also checked with
two requests and limit 2.)

Fairness is that of the loops and timers of the code, never of faults:

- `DurableTakeover`: a handler's stream ends (client, upstream or interactive
  deadline end it); a settlement goes through its steps; a worker loop keeps ticking
  (`Start` restarts its ticker); an execution ends (upstream timeouts; the code has
  no per-attempt timeout of its own). Unrenewed leases and claims run out and retry
  times pass. Not fair: renewal, the deadline, the closing of the read window.
  `TaskSettles` therefore does not lean on the deadline reaper.
- `PendingStore`: sweepers keep ticking (`run` loops on a ticker until shutdown), the
  outbox keeps being projected (a failed row is retried after a minute), entries age;
  streams, settlement and expiry owe nothing.
- `EventOutbox`: poll loops, cooldowns, replays once started, retry times. Not the
  gate of the session manager, new events, new replays or the script; `Drained` assumes
  an open gate and operators who stop putting events back, since an old event that is
  reset again and again is claimed first every time.
- `TaskBus`: weak fairness of a dispatcher's work and of the timers; strong fairness
  of the claim of each task, since the SQL store claims `ORDER BY id` and the memory
  store in Go's random map order: a task that is claimable again and again is claimed.
- `SurvivalLoop`: the loop goes on, and an attempt ends (read timeouts and the
  attempt's deadline). Not the interactive deadline: `RunEnds` holds without it.
- `GovernorLease`: time passes, waiters poll, renewal loops run, releases are called.
- `CommitGate` and `CredentialSlots` have safety properties only.

Runs without a deadlock check are those of systems that may come to rest: a pending
entry nobody owes anything to, a finished gate, a run that has returned, a task bus
with no task left open.

## 4. Properties

Durable takeover and pending store:

- `NoReplayAfterContent`, `SoleAuthor`: no second execution after content, and no
  second author of a completed result.
- `FencingTokensUnique`, `ResultOfLastClaim`: the fencing token, not
  `lease_owner`, tells holders apart, and results come from the last claim.
- `SettledForever`, `FollowsTransitionMatrix`: settled rows are immutable although
  `FinalizeSettlement` does not exclude `resume_safety_blocked`, and the SQL obeys a
  matrix it never consults.
- `ProjectionNotLost`, `ProjectionFaithful`: outbox and Redis across crashes.
- `RetryBudget`: releases of all kinds share one counter.
- `TaskSettles`, `IntentDrained`, `ResultPublished`: liveness.
- `KeepsContract`: refinement of `TakeoverContract`.
- `PlaceholderResolved`: a placeholder does not outlive a crashed stream, even when
  sweepers fail in the middle of a turn or race each other.
- `PollersAnswered`: a settled task is answered in the end, whatever overwrote,
  expired or hid its projection; this needs the fallback to PostgreSQL.
- `OnlyStreamsWait`: a sweeper that lost a race never revives a placeholder.

Delivery path:

- `WriteAhead`: the client has no whole frame of a commit state the durable store does
  not have, for gates without a holdback window (with one, and for trailing bytes that
  are no whole frame, see Observations).
- `DiscardedIsSilent`: a discard that races any call of the bridge leaves the client
  with keepalives only, and the attempt is never committed afterwards.
- `InOrder`: order and completeness of the wire. `FailClosed` (proved): silence after
  a failed checkpoint.
- `NoRepeat`, `WholeAnswer`: over all attempts no place of the answer twice or out of
  order, and a success is a whole answer. `NoRepeat` is conditional on a replay having
  to match the whole prefix. `WholeAnswer` says which places a successful request may
  lack: the fresh units of the one frame that straddles the prefix, which the code does
  not forward.
- `LatchedEndsOnce`, `Answered`: one end, and an end for every client still there.
  `Answered` and `WholeAnswer` leave out a Responses bridge under L2 replay
  (`doneLatched` with `l2`), where they fail: see Observations.
- `RunEnds`: every request is over in the end.

Queues:

- `OneDelivery`, `SentIsLeftAlone`: among workers that are still connected to the
  database the row lock excludes other deliveries, and none is about to record anything
  of an event that was sent, closed or deleted meanwhile.
- `DeadForCause`: backpressure alone never dead-letters an event.
- `KeepsQueuePromise`: nothing is recorded as sent that the consumer lacks, nothing is
  lost, and what is done stays done unless an operator who saw it dead-lettered resets
  it late. Proved as well: `SentWasReceived`, `MirroredWasReceived` (the same of the
  mirror on the task bus) and `QuietWhilePaused` (a pause is respected).
- `Drained`: every event ends.
- `SentWasHandled`, `GivenUpAfterBudget`, `TerminalIsFinal`, `TaskFinishes`: the same
  questions of the task bus. `TerminalIsFinal` also says that a sweep takes no task
  whose retention has not passed; it excludes the case in which a living dispatcher lost
  its claim (Observations).

Credentials:

- `FreshLeaseOwns`, `ActiveKept`, `SaturatedIsReal`: a slot in use is not shared, an
  active holder is not preempted, a refusal is justified. "Active" is within the gate
  less half a second, because the scripts see rounded TTLs. A change of the TTL setting
  suspends the last two for the slots not used since, and `FreshLeaseOwns` altogether;
  that also leaves out slots an administrator or an older request's watchdog freed.
- `OneMissTolerated`, `ClusterCap`: "a single failed renewal (or a few transient ones)
  never spills past expiry" (`redis_backend.go:655`): one does not, and the cap holds
  over the streams that missed at most one in a row. Two in a row may spill: at the
  third tick after the last arm the token is a whole TTL old.
- `NeverUnheld`: "the stream never runs on an expired lease"; it is violated (section 6).
  `OverrunBounded`: how long a stream may outlive its token. `LeakHeals`: tokens of the
  dead do not close the credential.

Each property of a passing run has a mutant, an operator next to the definition it
replaces, named `<Definition>_<Bug>`. Every module states its types as `TypeOK`; it is
proved, or, for `SurvivalLoop` and `CredentialSlots`, the part of it the proofs need
(`Types`), and is not listed among the properties of a run. What is proved for every value of the constants and is plain
on an instance is left to the proof.

## 5. Proofs

Every safety property that a passing run checks, invariant, action property or
refinement, is proved for all values of the constants. A proof uses the named
assumption of its module; one theorem, `FreshLeaseOwnsSlot`, has hypotheses of its own.

### Durable takeover and pending store

`DurableTakeoverProofs` (`ConstantsAssumption`: any workers, any bounds) proves
`TypeCorrect`, `Invariance` (`Spec => []IInv`), `NoReplay`, `SoleAuthorship`,
`Fencing`, `LastClaimRecorded` and the action properties `SettledIsFinal` and
`MatrixObeyed`.

`NoReplayAfterContent` is not inductive. Suppose content is on the wire; a claim
must be impossible. That needs the stored commit state to be at least as high as
the wire (`WriteAhead`: wire <= binding's rank <= stored rank). But at the moment of
the checkpoint no *other* process may hold the task already, which needs the
uniqueness and order of tokens (`TokensHandedOut`, `FencingTokensUnique`: the
foreground's token is 1, a checkpoint with token 1 passes the fence only while
`row.token = 1`, so no worker ever claimed) and that reapers and finalizers leave a
row out of reach of every fence (`SettledClosed`, which also says that only a
running row has a lease: a settlement, fenced by owner and token, therefore never
concludes a parked task, which the matrix would forbid). `ForegroundAlone` records the
conclusion so that it survives later steps.

The proof has an effect lemma per store operation (what it changes, as facts
about fields), a type lemma and an invariant lemma per group of actions, and a few
lemmas on the *kinds* of steps (a process forgets its task, a row is parked,
concluded, expired, blocked) that most actions share.

On these kinds of steps rest the promises to the client:

- `ProjectionIsFaithful`, `ProjectionIsNotLost` from `ResultInv`: a result is recorded
  once (version 1), an outbox row belongs to a settled task and carries its version,
  and a projector between its two steps works on that outbox row.
- `RetryBudgetHolds` from `BudgetInv`. The budget is tested on the copy of the row a
  process took with its claim; the copy of whoever passes the fence equals the row
  (`AttemptCopies`), so the test is as good as one on the row.
- `ContractKept` (`Spec => KeepsContract`), the refinement. Beyond the invariants above
  it needs `AuthorInv`: as long as the foreground has not settled or released, no intent
  and no recorded result carries its token. Each step is a step of the contract or a
  stutter: a claim executes, a checkpointed write shows content, a finalization or a
  reaper settles, a projection publishes.

`PendingStoreProofs` (`PendingAssumption`) proves `PendingInvariance` and the action
property `OnlyStartsWait`. A sweeper writes back a copy it read two calls earlier; that
this never revives a placeholder rests on what the copy is (`CopiesArePlaceholders`) and
on the projection of settled tasks only (`ProjectsSettled`).

### Delivery path

`CommitGateProofs` (`GateAssumption`: any buffer size, number of frames and windows)
proves `GateTypes`, `GateFailsClosed`, `DiscardSilent`, `GateWriteAhead` and
`GateInOrder`. `DiscardSilent` rests on `Unseen`: as long as a buffered gate is not
committed, the wire, and whatever a parked call is about to write, are keepalives.
`GateWriteAhead` rests on `Ahead`: what is on the wire, what a parked call will write
after its hook, and the gate's own idea of what is checkpointed are all at or below
the durable state. `GateInOrder` rests on `Line`: wire, parked call, held frames and
the frames still to come, put one behind the other, are consecutive numbers.

`SurvivalLoopProofs` (`SurvivalAssumption`: any retries, recoveries, frame sizes and
settings) proves `OneEnd`, `ClientIsAnswered`, `NothingRepeats` and `AnswerIsWhole`.
A call of the gate is one of eight steps (`GateStep`), and every step of `Next` is one
of the attempt, the final flush or one of ten of the loop (`LoopCases`). `Struct` holds
the facts all four share: a gate replays exactly what the plan says, a committed or
matched gate holds nothing back, and the committed prefix that a replay must
reproduce is a tail of what the client has (`Trails`). Then each property has its own
invariant:

- `OneEnd`: while no end was rendered on a latched gate, neither the client nor the
  window has one (`Unended`).
- `ClientIsAnswered`: at the end of a good stream the end is with the client or in the
  window that the final flush sends, and an empty window means a committed gate
  (`Ending`). A matched replay whose suffix is empty must end inside the prefix, so
  the client has the end already (`ReplayEnds`).
- `NothingRepeats`: what is held is the beginning of the answer, each unit at its place
  (`InPlace`); before a commit without replay the client has nothing; after it, or
  after a match, all the client has lies before the next place (`UpTo`). With a
  threshold of 10000 the alignment offset is the length of the prefix, and the prefix
  is everything the client has been sent, whatever tail of it was observed
  (`PrefixIsAll`).
- `AnswerIsWhole`: held frames contain every place so far (`AllIn`), a committed or
  matched gate means that the client lacks at most one stretch shorter than a frame
  (`Covered`). The stretch comes from `SuffixGap`: the first frame that starts at or
  behind the offset starts less than one frame behind it.

A client that is gone gets nothing more (`GoneStill`), so the invariants speak of
connected clients only.

### Queues

`EventOutboxProofs` (`OutboxAssumption`: any events, workers, attempts and faults)
proves `OutboxInvariance`, `ExclusiveDelivery`, `NothingInvented`,
`SettledUntouched`, `BackpressureHandled` and the refinement `OutboxRefinement`
(`Spec => KeepsQueuePromise`). The invariant adds to the checked properties that a
worker's phase, lock and verdict fit together, that the row of a connected worker is
open to it (`pending` or `failed` for a dispatcher, `dlq` for a replay; the script waits
for the lock), that a worker without connection holds an event that was written
(`Written`), and that an accepted event is held by the session manager: without them a
commit could record an event as sent that is not there, or turn a finished item back,
which `AtLeastOnce` has no step for. The refinement then goes action by action: writing
is `Submit`, a delivery that arrives, in time or late, is `Receive`, a commit is
`Settle`, `GiveUp` or a stutter, and the script's statements are `Ask`, `Requeue`,
`Withdraw` and `Drop`.

`TaskBusProofs` (`TaskBusAssumption`: either store, any tasks, dispatchers, limits)
proves `TaskBusInvariance`, `OnlyHandledSent`, `BudgetRespected` and
`FinishedForGood`. Marks go by task id, so nothing in the store ties a mark to a
claim. The invariant says what ties them: while no living dispatcher has lost a claim,
at most one holds a copy of a task, and that task is open and claimed (`CopiesExclusive`);
an outcome in hand is a handler's (`ResultInHand`); no count, in the store or in a
copy, exceeds the failures that happened (`AttemptsAreFailures`). The latter two hold
for stale copies as well, so the first two theorems need no such condition.

### Credentials

`GovernorLeaseProofs` proves `GovernorInvariance`, `OneMissIsTolerated`,
`ClusterCapHolds` and `OverrunIsBounded`, for any requests, limit and times with
`2 * CallTime + Second <= Interval` (`GovernorAssumption`). The interval is a third of the
TTL, 10 s by default. `CallTime` is what a Redis call may take before the client gives it
up: go-redis applies context deadlines to socket reads only with `ContextTimeoutEnabled`
(`vendor/github.com/redis/go-redis/v9/redis.go:1027`), which the repository never sets, so
the 100 ms of `defaultRedisReleaseTimeout` do not cut a read off and the bound is
`ReadTimeout`, 3 s unless configured (`admin/live_stream_async.go:222` reports the same
3 s). 2 * 3 + 1 <= 10 holds; a lease TTL below 21 s would break it. Without the assumption
one late call and the truncated clock of `Acquire` use up the slack of a renewal. The invariant bounds, per request and phase of the
renewal loop, the time since the last armed lease (`Cadence`), the age of the token
(`TokenAge`), and the time since the token was lost (`LostLate`); the cap follows from
the number of tokens (`TokensCapped`), since a stream that missed at most one renewal
has its own.

`CredentialSlotsProofs` (`SlotAssumption`) proves `SlotInvariance`,
`ActiveHolderKeepsSlot`, `FreshLeaseOwnsSlot` and `RefusalIsReal`. The scripts infer a
holder's idleness from what is left of a TTL; `Aging` says that the two agree for every
slot used since the setting was last changed. What they read is rounded; `Rounding`
bounds the error by half a second, and since gate, TTL and idle time are whole seconds
(`SlotAssumption`) a holder is taken for idle at most half a second early and never late.
`FreshLeaseOwnsSlot` has the hypotheses `Gate <= FirstTTL`
and `Gate <= ReclaimIdle`. They are the code's defaults and limits: the gate is 300 s
(`slot.go:91`), the TTL is clamped to 300 s or more (`settings/spec_thresholds.go:268`),
the sweep's idle time is 1800 s (`slot.go:103`). Gate and idle time can be set from the
environment, and a larger gate makes the property false (Observations).

### Only model-checked

Liveness (`TaskSettles`, `IntentDrained`, `ResultPublished`, `PlaceholderResolved`,
`PollersAnswered`, `RunEnds`, `Drained`, `TaskFinishes`, `LeakHeals`): fairness and
`ENABLED` are outside the prover's reach. The four violations are runs, not theorems.

What the operators on sequences compute is proved, not assumed. The library's
`FlattenSeq` is a recursive function; with no induction rule the provers can
instantiate, its laws (type, one more sequence, split at a frame) are shown by the
least counterexample (`LeastNat`).

## 6. Findings

1. `claimSettlementIntents` issues `tx.QueryRow` inside the `rows.Next()` loop of
   its own SELECT. pgx answers "conn busy", every claim of an existing intent
   fails, and the intent then blocks the execution claim and both reapers of its
   task (`settlement_claim_nested`).
2. The sweeper's second look at the status does not prevent what its comment says
   it prevents: it and the `Save` are separate round trips (`sweeper_overwrites`).
3. Some endings of the Chat and Anthropic bridges (`stream.go:2041`,
   `anthropic_bridge.go:506`, `988`, `1014`) set `outcome.TerminalRendered` but not
   the gate's latch, which is what the coordinator tests
   (`survival_coordinator.go:1326`): its envelope follows as a second end
   (`survival_ends_twice`).
4. "The stream never runs on an expired lease" (`lease_renewer.go:21`, and `:75`, which
   calls an abort one tick after the expiry the window this code closes) is off by up to
   an interval and more: `lastArmed` is taken after the reply and tested on ticks a
   third of the TTL apart, so the tick at the TTL finds less than a TTL passed and the
   abort waits for the next; and `Acquire` dates the token back to the start of its
   second (`governor_overrun`). `OverrunBounded` is the bound that holds.

### Observations without a run

Durable takeover and pending store. The comment on `settleDurableStream`
(`durable_stream.go:294`) says a failed release is never re-executed; an uncommitted
task is, after its lease ran out (safely). The sweeper tests the age of an entry only
in its scan, so it also fails a placeholder written after the scan
(`pending_sweeper.go:142`). `write` replaces the task id and version that
`SaveDurableCAS` compares, so a captured stream or a sweeper that writes after the
projection hides the task's result from pollers while PostgreSQL keeps it
(`PollersAnswered` promises a terminal status, not that result, and
`ProjectionFaithful` is about the projector's writes only); a result that cannot be decrypted keeps its
intent for ever; a new holder whose `Persist` meets a stale intent drops its own
result and leaves the task to its lease; a claim that follows a crash does not
increment `attempt_count`; `CommitTerminal` has no caller; `waiting_recovery` and
`canceled` are never written.

Queues. Backpressure increments the same `attempts` column as failures
(`dispatcher.go:342`): it dead-letters nothing itself, but the next failure meets a
spent budget. A task-bus dispatcher whose claim was taken over still marks by id and
can reopen a row the new claimer has finished (`store_sql.go:170`). The replay tool takes
a duplicate acknowledgment for an error, so an event that was dead-lettered although the
session manager holds it cannot be replayed by the tool; the script's reset, after which
a dispatcher accepts the duplicate, is the way out. The script's `replay` looks at the
status in a statement of its own and its UPDATE does not (`outbox-dlq-replay.sh:208`):
an event that was sent in between is delivered again. Its `mark-processed` writes a
status that the CHECK of V357 does not allow and so fails on a migrated table.

Delivery path. Frames that leave a holdback window are checkpointed with the state of
the frame that closed it, or as content when they are flushed, though a terminal may be
among them (`attempt_commit_gate.go:784`). When the stream ends with trailing bytes that
are no whole frame while a window holds content, `FinishAttempt` buffers them instead of
flushing the window, and the `Commit` that follows (`survival_coordinator.go:841`) writes
all of it under the state it has checkpointed before, none or metadata. `WriteAhead`
therefore excludes windows. It also excludes trailing bytes themselves, which
`FinishAttempt` writes to a committed gate without a checkpoint whatever their class
(`:987`). An immediate
gate that is discarded has already shown its frames (`:557`), and a flush that fails
has reported its first byte (`:787`). In the coordinator, a deadline that fires after
a delivered `[DONE]` ends the stream again (`survival_coordinator.go:651`), a replay
can be armed behind a rendered terminal (`:1073`), a checkpoint that fails while a
finished attempt is flushed leaves the client without an end (`:818`), and with the
default threshold of 9000 basis points a replay that diverges in the last tenth of the
prefix is spliced onto it (`stream_recovery.go:737`).
A Responses bridge writes its terminal only through a committed gate
(`responses_bridge.go:281`, `attempt_commit_gate.go:401`); under L2 a replay that
matches and adds nothing to the prefix leaves the new gate uncommitted, so the request
is reported as a success and the client gets no end. `Answered` and `WholeAnswer`
exclude that combination.

Credentials. With an active gate above the TTL or the sweep's idle time, both of which
are free settings, a slot expires or is swept under a lease that the gate still calls
active: `FreshLeaseOwns` needs the gate to be the smallest of the three
(`slot.go:91`, `:103`). Idleness is "setting minus what is left of the TTL": raising
`fp_slot_ttl_seconds` makes active holders preemptible (`slot.go:968`), lowering it
makes silent ones unpreemptible (`:1067`). The watchdog of an old request frees the
slot of a younger one of the same holder (`:528`), and when the reply of its script is
lost the lease stays unreleased (`:490`); a holder may end up with two slots
(`:1037`); preemption leaves the victim's pin (`:973`); a nil reply of the release
script leaves the gauge high (`:630`).

## 7. Not modelled, and the plan

The repository has some 780,000 lines; most are consoles, conversions, statistics and
vendor adapters without a protocol between processes. The models take the parts where
interleaving, failure and time decide, and the map covers a small share of the lines.

Not modelled in the modelled parts: encryption and snapshots, the event log, the
decision history and the attempt-budget registry (inputs of a policy, not of the
protocol), row-level security, metrics and gauges, the wire formats; the clamp of the
sweeper's stale timeout (`cmd/gateway/main.go:4407`), which needs a numeric clock in
`PendingStore`; the per-session index of the pending store; several credentials at a
time, and `AcquireWithQuota`, which has no production caller; the governor's local,
shadow and rate modes, queue resizing and policy revisions.

Not modelled at all: the circuit breaker, the rate limiter, the database degradation
guard, the versioned node-state cache and the in-process event bus (candidates), and
routing, conversion, executors, administration, statistics and installers (no
protocol of their own).

Plan, in order:

1. Proofs of what the runs do not state: bounds of the survival loop (attempts, calls and
   recoveries within their limits), and the cap of `TypeOK` on the holdback window.
2. Breaker, rate limiter, degradation guard, node-state cache.
3. Composition of `SurvivalLoop` with the binding of `DurableTakeover`.
