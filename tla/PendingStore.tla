---------------------------- MODULE PendingStore ----------------------------
(***************************************************************************)
(* The Redis cache of responses that clients poll (pending/pending.go):    *)
(* one entry, and everybody who writes it.  Captured streams leave a       *)
(* placeholder before the upstream answers and replace it at the end       *)
(* (cmd/gateway/main_types.go); the durable projector writes the settled   *)
(* result of the task with the same session and request id                 *)
(* (pending/durable_cas.go); the sweepers of every gateway instance turn   *)
(* placeholders nobody finished into failures (bg/pending_sweeper.go);     *)
(* Redis expires entries.                                                  *)
(*                                                                         *)
(* All writers but the projector are plain writes: the last one wins.  A   *)
(* read misses Redis into PostgreSQL when the request is a durable task.   *)
(***************************************************************************)
EXTENDS Naturals

CONSTANTS
  Streams,    \* captured executions of the request (retries, workers)
  Sweepers,   \* one per gateway instance
  MaxFaults   \* bound on crashes and failed Redis calls

ASSUME PendingAssumption == MaxFaults \in Nat

VARIABLES
  entry,    \* the hash pending_response:{session}:{request}, or NoEntry
  task,     \* the durable task of the request: its status as a reader maps it
  outbox,   \* its projection is still to be written
  stream,   \* where each captured stream is
  sweep,    \* where each sweeper is in its tick
  copy,     \* the entry it read to write back
  faults

vars == <<entry, task, outbox, stream, sweep, copy, faults>>

Terminal == {"completed", "failed"}

\* old: created_at is before now - staleTimeout; task: task_id is set.
EntryType == [status : {"in_progress"} \cup Terminal, old : BOOLEAN, task : BOOLEAN]

NoEntry == [status |-> "none", old |-> FALSE, task |-> FALSE]

\* No durable task, or one that is running when the model starts.
Init ==
  /\ entry = NoEntry
  /\ task \in {"none", "in_progress"}
  /\ outbox = FALSE
  /\ stream = [s \in Streams |-> "idle"]
  /\ sweep = [x \in Sweepers |-> "list"]
  /\ copy = [x \in Sweepers |-> NoEntry]
  /\ faults = 0

\* Types: an entry has one of the three statuses pending.go declares, and a
\* sweeper holds a copy only of such an entry.
TypeOK ==
  /\ entry \in EntryType \cup {NoEntry}
  /\ task \in {"none", "in_progress"} \cup Terminal
  /\ outbox \in BOOLEAN
  /\ stream \in [Streams -> {"idle", "open", "done"}]
  /\ sweep \in [Sweepers -> {"list", "get", "recheck", "save"}]
  /\ copy \in [Sweepers -> EntryType \cup {NoEntry}]
  /\ faults \in 0..MaxFaults

Fault == faults < MaxFaults /\ faults' = faults + 1

\* The hash write of Store.write: every field is replaced, task_id included.
write(status) == entry' = [status |-> status, old |-> FALSE, task |-> FALSE]

\* Mutant: a miss in Redis is the answer.
Get_NoFallback == entry

\* PGSource.Get: the row of the task as an entry, without created_at.
PGRow ==
  IF task = "none" THEN NoEntry
  ELSE [status |-> task, old |-> FALSE, task |-> TRUE]

\* Store.Get: a miss goes to PostgreSQL.
Get == IF entry = NoEntry THEN PGRow ELSE entry

-----------------------------------------------------------------------------
(* Captured streams.                                                       *)

\* markCapturedPendingInProgress; the stream starts also when the write fails.
MarkInProgress(s) ==
  /\ stream[s] = "idle"
  /\ stream' = [stream EXCEPT ![s] = "open"]
  /\ \/ write("in_progress") /\ UNCHANGED faults
     \/ Fault /\ UNCHANGED entry
  /\ UNCHANGED <<task, outbox, sweep, copy>>

\* saveCapturedPending: completed, or failed; a crash, a capture that was never
\* finalized or a failed write leaves what was there.
SaveCaptured(s) ==
  /\ stream[s] = "open"
  /\ stream' = [stream EXCEPT ![s] = "done"]
  /\ (\E status \in Terminal : write(status)) \/ UNCHANGED entry
  /\ UNCHANGED <<task, outbox, sweep, copy, faults>>

-----------------------------------------------------------------------------
(* The durable task, seen from here: settled once, then projected.         *)

Settle(status) ==
  /\ task = "in_progress"
  /\ task' = status
  /\ outbox' = TRUE
  /\ UNCHANGED <<entry, stream, sweep, copy, faults>>

\* The script finds no entry, an entry without task, or one of this task with
\* no newer version, so it applies; once the read window is over nothing is
\* written.  Either way the outbox row goes, unless the commit that deletes it
\* fails: then the same projection is made again.
SaveDurableCAS ==
  /\ outbox
  /\ entry' = PGRow \/ UNCHANGED entry
  /\ \/ outbox' = FALSE /\ UNCHANGED faults
     \/ Fault /\ UNCHANGED outbox
  /\ UNCHANGED <<task, stream, sweep, copy>>

-----------------------------------------------------------------------------
(* One tick of a sweeper for this entry.  A failed call ends its turn, but *)
(* the error of the second read is discarded and counts as "not found".    *)

SweepGoto(x, l) == sweep' = [sweep EXCEPT ![x] = l]

\* Mutant: the scan skips entries a durable task does not own.
Stale_DurableOnly == entry.status = "in_progress" /\ entry.old /\ entry.task

\* ListStaleInProgress.
Stale == entry.status = "in_progress" /\ entry.old

SweepList(x) ==
  /\ sweep[x] = "list"
  /\ Stale
  /\ SweepGoto(x, "get")
  /\ UNCHANGED <<entry, task, outbox, stream, copy, faults>>

\* The status is looked at again, the age is not.  When Redis fails, the read
\* is answered by PostgreSQL alone.
SweepGet(x) ==
  /\ sweep[x] = "get"
  /\ \E r \in {Get, PGRow} :
       /\ IF r = Get THEN UNCHANGED faults ELSE Fault
       /\ IF r.status = "in_progress"
          THEN copy' = [copy EXCEPT ![x] = r] /\ SweepGoto(x, "recheck")
          ELSE SweepGoto(x, "list") /\ UNCHANGED copy
  /\ UNCHANGED <<entry, task, outbox, stream>>

SweepRecheck(x) ==
  /\ sweep[x] = "recheck"
  /\ \/ /\ Get.status \in Terminal
        /\ SweepGoto(x, "list")
        /\ copy' = [copy EXCEPT ![x] = NoEntry]
        /\ UNCHANGED faults
     \/ /\ Get.status \notin Terminal
        /\ SweepGoto(x, "save")
        /\ UNCHANGED <<copy, faults>>
     \/ /\ Fault
        /\ SweepGoto(x, "save")
        /\ UNCHANGED copy
  /\ UNCHANGED <<entry, task, outbox, stream>>

\* Mutant: the entry is written back as it was read.
SweptEntry_StatusKept(x) == copy[x]

\* What the sweeper writes: the copy it read, marked failed.
SweptEntry(x) == [copy[x] EXCEPT !.status = "failed"]

SweepSave(x) ==
  /\ sweep[x] = "save"
  /\ entry' = SweptEntry(x)
  /\ SweepGoto(x, "list")
  /\ copy' = [copy EXCEPT ![x] = NoEntry]
  /\ UNCHANGED <<task, outbox, stream, faults>>

\* A failed scan, read or write, or a restart of the instance.
SweepFails(x) ==
  /\ sweep[x] # "list"
  /\ Fault
  /\ SweepGoto(x, "list")
  /\ copy' = [copy EXCEPT ![x] = NoEntry]
  /\ UNCHANGED <<entry, task, outbox, stream>>

-----------------------------------------------------------------------------
(* Time.                                                                   *)

\* created_at falls behind now - staleTimeout.
Age ==
  /\ entry # NoEntry
  /\ ~entry.old
  /\ entry' = [entry EXCEPT !.old = TRUE]
  /\ UNCHANGED <<task, outbox, stream, sweep, copy, faults>>

\* The TTL, or Store.Delete.  The stale timeout is kept below the TTL, but an
\* entry may expire before a sweeper gets to it all the same.
Expire ==
  /\ entry # NoEntry
  /\ entry' = NoEntry
  /\ UNCHANGED <<task, outbox, stream, sweep, copy, faults>>

-----------------------------------------------------------------------------
SweepStep(x) ==
  SweepList(x) \/ SweepGet(x) \/ SweepRecheck(x) \/ SweepSave(x)

Next ==
  \/ \E s \in Streams : MarkInProgress(s) \/ SaveCaptured(s)
  \/ \E status \in Terminal : Settle(status)
  \/ SaveDurableCAS
  \/ \E x \in Sweepers : SweepStep(x) \/ SweepFails(x)
  \/ Age \/ Expire

Spec == Init /\ [][Next]_vars

\* Sweepers keep ticking, the outbox keeps being projected, time passes.
\* Streams, settlement and expiry owe nothing.
Fairness ==
  /\ \A x \in Sweepers : WF_vars(SweepStep(x))
  /\ WF_vars(SaveDurableCAS)
  /\ WF_vars(Age)

FairSpec == Spec /\ Fairness

-----------------------------------------------------------------------------
\* A placeholder never stays for ever, although its stream crashed, a sweeper
\* died in the middle of its turn or another one raced it.
PlaceholderResolved ==
  entry.status = "in_progress" ~> entry.status # "in_progress"

\* Once the task is settled, pollers are in the end told a terminal status and
\* are never sent back to waiting, whatever late streams, sweepers and expiry
\* did to the projection.
PollersAnswered ==
  task \in Terminal ~> [](Get.status \in Terminal)

\* A sweeper that lost a race may overwrite an answer, but it never sends
\* pollers back to waiting: only the start of a captured stream does that.
OnlyStreamsWait ==
  [][ (entry.status # "in_progress" /\ entry'.status = "in_progress") =>
        \E s \in Streams : stream[s] = "idle" /\ stream'[s] = "open" ]_vars

\* x replaces the entry by its swept copy in this step.
Sweeps(x) == sweep[x] = "save" /\ sweep'[x] = "list" /\ entry' # entry

\* The comment in sweep says that the second look at the status, right before
\* Save, prevents overwriting a completed or failed entry.
SweeperSparesAnswers ==
  [][\A x \in Sweepers : Sweeps(x) => entry.status \notin Terminal]_vars
=============================================================================
