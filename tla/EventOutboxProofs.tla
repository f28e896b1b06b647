------------------------- MODULE EventOutboxProofs --------------------------
(***************************************************************************)
(* The safety of the outbox for any number of events, dispatchers and      *)
(* replays, any attempt limit and any number of faults, and its refinement *)
(* of AtLeastOnce.                                                         *)
(***************************************************************************)
EXTENDS EventOutbox, TLAPS

\* A worker holds an event exactly while it delivers or commits it, and knows
\* a verdict in the last phase only.
Phases ==
  \A w \in Workers :
    /\ cur[w] # Nobody <=> pc[w] \in {"claimed", "answered"}
    /\ pc[w] = "answered" <=> verdict[w] # "none"

\* The row a connected worker holds is one it may change: nobody moved it
\* meanwhile, the script included.
HoldsOpenRow ==
  \A w \in Workers \ lost :
    cur[w] # Nobody =>
      row[cur[w]].status \in (IF w \in Dispatchers THEN {"pending", "failed"} ELSE {"dlq"})

\* A worker holds events that were written, connected or not.
Written == \A w \in Workers : cur[w] # Nobody => row[cur[w]].status # "none"

\* A verdict of acceptance is backed by the session manager.
AcceptedIsHeld == \A w \in Workers : verdict[w] = "accepted" => cur[w] \in asm

IInv ==
  /\ TypeOK
  /\ OneDelivery
  /\ Phases
  /\ HoldsOpenRow
  /\ Written
  /\ AcceptedIsHeld
  /\ SentWasReceived
  /\ MirroredWasReceived
  /\ DeadForCause
  /\ QuietWhilePaused

-----------------------------------------------------------------------------
\* What the four marks write is a row, and only an accepted verdict writes sent,
\* only an ordinary failure or a refusal writes dlq.
LEMMA MarkType ==
  ASSUME NEW r \in Row, NEW v \in Verdicts
  PROVE  /\ DispatchMark(r, v) \in Row
         /\ DispatchMark(r, v).status \in {"failed", "sent", "dlq"}
         /\ DispatchMark(r, v).status = "sent" <=> v = "accepted"
         /\ DispatchMark(r, v).status = "dlq" => v \in {"retryable", "rejected"}
  BY OutboxAssumption DEF DispatchMark, markSent, markDLQ, markFailed, markBackpressure,
     Bump, Row, Statuses, Verdicts

\* Init establishes the invariant.
LEMMA InitIInv == Init => IInv
  BY OutboxAssumption DEF Init, IInv, TypeOK, OneDelivery, Phases, HoldsOpenRow, Written, AcceptedIsHeld,
     SentWasReceived, MirroredWasReceived, DeadForCause, QuietWhilePaused, Row, Statuses,
     Verdicts, Workers

\* Writing an event: nobody holds a row that does not exist yet.
LEMMA WriteStep ==
  ASSUME IInv, NEW e \in Events, Write(e) PROVE IInv'
  BY OutboxAssumption DEF Write, aside, IInv, TypeOK, OneDelivery, Phases, HoldsOpenRow, Written, AcceptedIsHeld,
     SentWasReceived, MirroredWasReceived, DeadForCause, QuietWhilePaused, Row, Statuses, Workers

\* The end of a backoff.
LEMMA RetryDueStep ==
  ASSUME IInv, NEW e \in Events, RetryDue(e) PROVE IInv'
  BY OutboxAssumption DEF RetryDue, aside, IInv, TypeOK, OneDelivery, Phases, HoldsOpenRow, Written, AcceptedIsHeld,
     SentWasReceived, MirroredWasReceived, DeadForCause, QuietWhilePaused, Row, Statuses, Workers

\* The steps of a dispatcher that change no row.
LEMMA PollStep ==
  ASSUME IInv, NEW d \in Dispatchers, Tick(d) \/ BatchEmpty(d) \/ CooldownOver(d) PROVE IInv'
  <1>1. CASE Tick(d)
    BY <1>1, OutboxAssumption DEF Tick, aside, IInv, TypeOK, OneDelivery, Phases, HoldsOpenRow, Written,
       AcceptedIsHeld, SentWasReceived, MirroredWasReceived, DeadForCause, QuietWhilePaused, Workers
  <1>2. CASE BatchEmpty(d)
    BY <1>2, OutboxAssumption DEF BatchEmpty, aside, IInv, TypeOK, OneDelivery, Phases, HoldsOpenRow, Written,
       AcceptedIsHeld, SentWasReceived, MirroredWasReceived, DeadForCause, QuietWhilePaused, Workers
  <1>3. CASE CooldownOver(d)
    BY <1>3, OutboxAssumption DEF CooldownOver, aside, IInv, TypeOK, OneDelivery, Phases, HoldsOpenRow, Written,
       AcceptedIsHeld, SentWasReceived, MirroredWasReceived, DeadForCause, QuietWhilePaused, Workers
  <1> QED BY <1>1, <1>2, <1>3

\* A claim takes a free row that is pending or due.
LEMMA ClaimStep ==
  ASSUME IInv, NEW d \in Dispatchers, Claim(d) PROVE IInv'
  <1>1. PICK e \in Events :
          /\ Claimable(e)
          /\ cur' = [cur EXCEPT ![d] = e]
          /\ pc' = [pc EXCEPT ![d] = IF e \in Poison THEN "answered" ELSE "claimed"]
          /\ verdict' = [verdict EXCEPT ![d] = IF e \in Poison THEN "rejected" ELSE "none"]
    BY DEF Claim
  <1>2. TypeOK' /\ Phases' /\ OneDelivery'
    BY <1>1, OutboxAssumption DEF Claim, aside, Claimable, Locked, IInv, TypeOK, Phases, OneDelivery, Workers, Verdicts
  <1>3. HoldsOpenRow' /\ Written' /\ AcceptedIsHeld'
    BY <1>1, OutboxAssumption DEF Claim, aside, Claimable, IInv, TypeOK, HoldsOpenRow, Written, AcceptedIsHeld, Workers
  <1>4. SentWasReceived' /\ MirroredWasReceived' /\ DeadForCause' /\ QuietWhilePaused'
    BY <1>1, OutboxAssumption DEF Claim, aside, IInv, TypeOK, SentWasReceived, MirroredWasReceived,
       DeadForCause, QuietWhilePaused, Workers
  <1> QED BY <1>2, <1>3, <1>4 DEF IInv

\* The round trip: acceptance and the copy on the task bus come with the event
\* in the session manager.
LEMMA DeliverStep ==
  ASSUME IInv, NEW w \in Workers, Deliver(w) PROVE IInv'
  <1>0. cur[w] \in Events
    BY OutboxAssumption DEF Deliver, aside, IInv, TypeOK, Phases
  <1>1. PICK v \in Answers(w, cur[w]) :
          /\ verdict' = [verdict EXCEPT ![w] = v]
          /\ asm' \in IF v = "accepted" THEN {asm \cup {cur[w]}}
                      ELSE IF v = "retryable" /\ gate THEN {asm, asm \cup {cur[w]}} ELSE {asm}
          /\ mirrored' \in {mirrored} \cup (IF Mirrors(w, v) THEN {mirrored \cup {cur[w]}} ELSE {})
    BY DEF Deliver
  <1>2. v \in Verdicts
    BY DEF Answers, Verdicts
  <1>3. asm \subseteq asm' /\ asm' \subseteq asm \cup {cur[w]} /\ (v = "accepted" => cur[w] \in asm')
    BY <1>1
  <1>4. TypeOK' /\ Phases' /\ OneDelivery'
    BY <1>0, <1>1, <1>2, <1>3 DEF Deliver, aside, IInv, TypeOK, Phases, OneDelivery, Mirrors, Verdicts
  <1>5. HoldsOpenRow' /\ Written'
    BY DEF Deliver, aside, IInv, HoldsOpenRow, Written
  <1>6. AcceptedIsHeld'
    BY <1>1, <1>3 DEF Deliver, aside, IInv, TypeOK, AcceptedIsHeld
  <1>7. MirroredWasReceived'
    BY <1>1, <1>3 DEF IInv, MirroredWasReceived, Mirrors
  <1>8. SentWasReceived' /\ DeadForCause' /\ QuietWhilePaused'
    BY <1>3 DEF Deliver, aside, IInv, TypeOK, Phases, SentWasReceived, DeadForCause, QuietWhilePaused, Workers
  <1> QED BY <1>4, <1>5, <1>6, <1>7, <1>8 DEF IInv

\* The mark and its commit by a dispatcher.
LEMMA CommitStep ==
  ASSUME IInv, NEW d \in Dispatchers, Commit(d) PROVE IInv'
  <1> DEFINE e == cur[d]
             v == verdict[d]
             r == DispatchMark(row[e], v)
  <1>0. d \in Workers /\ e \in Events /\ v \in Verdicts /\ row[e] \in Row
    BY OutboxAssumption DEF Commit, IInv, TypeOK, Phases, Workers
  <1>1. /\ r \in Row
        /\ r.status \in {"failed", "sent", "dlq"}
        /\ r.status = "sent" <=> v = "accepted"
        /\ r.status = "dlq" => v \in {"retryable", "rejected"}
    BY <1>0, MarkType
  <1> HIDE DEF r
  <1>2. /\ row' = [row EXCEPT ![e] = r]
        /\ pc[d] = "answered" /\ d \notin lost
        /\ blamed' = IF v \in {"retryable", "rejected"} THEN blamed \cup {e}
                     ELSE IF v = "accepted" THEN blamed \ {e} ELSE blamed
        /\ paused' = [paused EXCEPT ![d] = @ \/ v = "backpressure"]
        /\ pc' = [pc EXCEPT ![d] = AfterCommit(v)]
        /\ cur' = [cur EXCEPT ![d] = Nobody]
        /\ verdict' = [verdict EXCEPT ![d] = "none"]
        /\ UNCHANGED <<todo, gate, asm, mirrored, faults, lost, script>>
    BY DEF Commit, aside, r
  <1>3. /\ blamed' \subseteq Events
        /\ v \in {"retryable", "rejected"} => e \in blamed'
        /\ blamed \ {e} \subseteq blamed'
    BY <1>0, <1>2 DEF IInv, TypeOK
  <1>4. paused' \in [Dispatchers -> BOOLEAN]
    BY <1>2 DEF IInv, TypeOK
  <1>5. TypeOK'
    BY <1>0, <1>1, <1>2, <1>3, <1>4 DEF IInv, TypeOK, AfterCommit
  <1>6. OneDelivery' /\ Phases'
    BY <1>0, <1>2 DEF IInv, TypeOK, OneDelivery, Phases, AfterCommit
  <1>7. HoldsOpenRow' /\ Written' /\ AcceptedIsHeld'
    BY <1>0, <1>1, <1>2 DEF IInv, TypeOK, OneDelivery, HoldsOpenRow, Written, AcceptedIsHeld
  <1>8. SentWasReceived' /\ MirroredWasReceived' /\ DeadForCause'
    BY <1>0, <1>1, <1>2, <1>3 DEF IInv, TypeOK, AcceptedIsHeld, SentWasReceived,
       MirroredWasReceived, DeadForCause
  <1>9. QuietWhilePaused'
    BY <1>0, <1>2 DEF IInv, TypeOK, Phases, QuietWhilePaused, AfterCommit, Workers
  <1> QED BY <1>5, <1>6, <1>7, <1>8, <1>9 DEF IInv

\* The steps of a replay that change no row.
LEMMA ReplayQuietStep ==
  ASSUME IInv, NEW r \in Replayers, ReplaySelect(r) \/ ReplayDone(r) PROVE IInv'
  <1>1. CASE ReplaySelect(r)
    BY <1>1, OutboxAssumption DEF ReplaySelect, aside, IInv, TypeOK, OneDelivery, Phases, HoldsOpenRow, Written,
       AcceptedIsHeld, SentWasReceived, MirroredWasReceived, DeadForCause, QuietWhilePaused, Workers
  <1>2. CASE ReplayDone(r)
    BY <1>2, OutboxAssumption DEF ReplayDone, aside, IInv, TypeOK, OneDelivery, Phases, HoldsOpenRow, Written,
       AcceptedIsHeld, SentWasReceived, MirroredWasReceived, DeadForCause, QuietWhilePaused, Workers
  <1> QED BY <1>1, <1>2

\* A replay takes a free row that is still dead-lettered, or skips it.
LEMMA ReplayClaimStep ==
  ASSUME IInv, NEW r \in Replayers, ReplayClaim(r) PROVE IInv'
  <1>1. PICK e \in todo[r] :
          /\ ~Locked(e)
          /\ todo' = [todo EXCEPT ![r] = @ \ {e}]
          /\ IF StillDead(e)
             THEN /\ cur' = [cur EXCEPT ![r] = e]
                  /\ pc' = [pc EXCEPT ![r] = IF e \in Poison THEN "answered" ELSE "claimed"]
                  /\ verdict' = [verdict EXCEPT ![r] = IF e \in Poison THEN "rejected" ELSE "none"]
             ELSE UNCHANGED <<cur, pc, verdict>>
    BY DEF ReplayClaim
  <1>2. r \in Workers /\ r \notin Dispatchers /\ e \in Events /\ pc[r] = "replay"
    BY OutboxAssumption DEF ReplayClaim, aside, IInv, TypeOK, Workers
  <1>3. TypeOK' /\ Phases' /\ OneDelivery'
    BY <1>1, <1>2, OutboxAssumption DEF ReplayClaim, aside, Locked, IInv, TypeOK, Phases, OneDelivery, Verdicts
  <1>4. HoldsOpenRow' /\ Written' /\ AcceptedIsHeld'
    BY <1>1, <1>2 DEF ReplayClaim, aside, StillDead, IInv, TypeOK, HoldsOpenRow, Written, AcceptedIsHeld
  <1>5. SentWasReceived' /\ MirroredWasReceived' /\ DeadForCause'
    BY DEF ReplayClaim, aside, IInv, SentWasReceived, MirroredWasReceived, DeadForCause
  <1>6. QuietWhilePaused'
    BY <1>1, <1>2 DEF ReplayClaim, aside, IInv, TypeOK, QuietWhilePaused, Workers
  <1> QED BY <1>3, <1>4, <1>5, <1>6 DEF IInv

\* The commit of a replay.
LEMMA ReplayCommitStep ==
  ASSUME IInv, NEW r \in Replayers, ReplayCommit(r) PROVE IInv'
  <1> DEFINE e == cur[r]
  <1>0. r \in Workers /\ r \notin Dispatchers /\ e \in Events /\ row[e] \in Row /\ markSent(row[e]) \in Row
    BY OutboxAssumption DEF ReplayCommit, aside, IInv, TypeOK, Phases, Workers, markSent, Row, Statuses
  <1>1. markSent(row[e]).status = "sent"
    BY <1>0 DEF markSent, Row
  <1>3. TypeOK' /\ Phases' /\ OneDelivery'
    BY <1>0 DEF ReplayCommit, aside, IInv, TypeOK, Phases, OneDelivery
  <1>4. HoldsOpenRow' /\ Written' /\ AcceptedIsHeld'
    <2>1. /\ cur' = [cur EXCEPT ![r] = Nobody] /\ verdict' = [verdict EXCEPT ![r] = "none"]
          /\ asm' = asm /\ lost' = lost /\ r \notin lost
      BY DEF ReplayCommit, aside
    <2>2. \A f \in Events : f # e => row'[f] = row[f]
      BY <1>0 DEF ReplayCommit, IInv, TypeOK
    <2>3. row'[e].status = "sent" \/ row'[e] = row[e]
      BY <1>0, <1>1 DEF ReplayCommit, IInv, TypeOK
    <2> QED BY <1>0, <2>1, <2>2, <2>3 DEF IInv, TypeOK, OneDelivery, HoldsOpenRow, Written, AcceptedIsHeld
  <1>5. SentWasReceived' /\ MirroredWasReceived' /\ DeadForCause'
    BY <1>0, <1>1 DEF ReplayCommit, aside, IInv, TypeOK, AcceptedIsHeld, SentWasReceived, MirroredWasReceived, DeadForCause
  <1>6. QuietWhilePaused'
    BY <1>0 DEF ReplayCommit, aside, IInv, TypeOK, QuietWhilePaused, Workers
  <1> QED BY <1>3, <1>4, <1>5, <1>6 DEF IInv

\* Crashes and failed commits give the row back.
LEMMA FaultStep ==
  ASSUME IInv, NEW w \in Workers, MarkLost(w) \/ CommitFails(w) \/ Crash(w) PROVE IInv'
  <1>1. /\ GiveBack(w)
        /\ paused' \in [Dispatchers -> BOOLEAN]
        /\ \A d \in Dispatchers : paused'[d] => paused[d]
    BY DEF MarkLost, CommitFails, Crash, IInv, TypeOK
  <1>0. faults' \in 0..MaxFaults
    BY OutboxAssumption DEF MarkLost, CommitFails, Crash, Fault, IInv, TypeOK
  <1>2. TypeOK' /\ Phases' /\ OneDelivery'
    BY <1>0, <1>1, OutboxAssumption DEF GiveBack, IInv, TypeOK, Phases, OneDelivery
  <1>3. HoldsOpenRow' /\ Written' /\ AcceptedIsHeld'
    BY <1>1 DEF GiveBack, IInv, TypeOK, HoldsOpenRow, Written, AcceptedIsHeld
  <1>4. SentWasReceived' /\ MirroredWasReceived' /\ DeadForCause'
    BY <1>1 DEF GiveBack, IInv, SentWasReceived, MirroredWasReceived, DeadForCause
  <1>5. QuietWhilePaused'
    BY <1>1 DEF GiveBack, IInv, TypeOK, QuietWhilePaused, Workers
  <1> QED BY <1>2, <1>3, <1>4, <1>5 DEF IInv

\* A worker whose connection breaks holds nothing any more; it keeps its verdict.
LEMMA ConnectionLostStep ==
  ASSUME IInv, NEW w \in Workers, ConnectionLost(w) PROVE IInv'
  BY OutboxAssumption DEF ConnectionLost, Fault, IInv, TypeOK, OneDelivery, Phases, HoldsOpenRow, Written,
     AcceptedIsHeld, SentWasReceived, MirroredWasReceived, DeadForCause, QuietWhilePaused

\* The script changes rows that nobody holds; what it resets has a clean record,
\* and it makes no row sent or dead-lettered.
LEMMA FreeRowStep ==
  ASSUME IInv, NEW e \in Events, NEW r \in Row, r.status \in {"pending", "closed"},
         row' = [row EXCEPT ![e] = r], blamed' = blamed \ {e}, ~Locked(e),
         script' \in [Scripts -> Events \cup {Nobody}],
         UNCHANGED <<pc, cur, lost, verdict, paused, todo, gate, asm, mirrored, faults>>
  PROVE  IInv'
  <1>1. TypeOK' /\ Phases' /\ OneDelivery' /\ AcceptedIsHeld' /\ QuietWhilePaused'
    BY DEF IInv, TypeOK, Phases, OneDelivery, AcceptedIsHeld, QuietWhilePaused
  <1>2. HoldsOpenRow' /\ Written'
    BY DEF Locked, IInv, TypeOK, HoldsOpenRow, Written
  <1>3. SentWasReceived' /\ MirroredWasReceived' /\ DeadForCause'
    BY DEF IInv, TypeOK, SentWasReceived, MirroredWasReceived, DeadForCause
  <1> QED BY <1>1, <1>2, <1>3 DEF IInv

\* What the script writes.
LEMMA ScriptRows ==
  /\ [status |-> "pending", attempts |-> 0, due |-> FALSE] \in Row
  /\ [status |-> "closed", attempts |-> 0, due |-> FALSE] \in Row
  BY OutboxAssumption DEF Row, Statuses

\* A script that only looks, or finds its row deleted, changes no row.
LEMMA ScriptQuiet ==
  ASSUME IInv, script' \in [Scripts -> Events \cup {Nobody}],
         UNCHANGED <<row, pc, cur, lost, verdict, paused, todo, gate, asm, mirrored, blamed, faults>>
  PROVE  IInv'
  BY DEF IInv, TypeOK, OneDelivery, Phases, HoldsOpenRow, Written, AcceptedIsHeld,
     SentWasReceived, MirroredWasReceived, DeadForCause, QuietWhilePaused

\* The four things the script does.
LEMMA ScriptStep ==
  ASSUME IInv,
         \/ \E o \in Scripts : ScriptVerify(o) \/ ScriptReset(o)
         \/ \E e \in Events : ResetDead(e) \/ Close(e)
  PROVE  IInv'
  <1>0. script \in [Scripts -> Events \cup {Nobody}]
    BY DEF IInv, TypeOK
  <1>1. ASSUME NEW o \in Scripts, ScriptVerify(o) PROVE IInv'
    BY <1>0, <1>1, ScriptQuiet DEF ScriptVerify
  <1>2. ASSUME NEW o \in Scripts, ScriptReset(o) PROVE IInv'
    <2> DEFINE e == script[o]
    <2>1. /\ e \in Events /\ ~Locked(e) /\ script' \in [Scripts -> Events \cup {Nobody}]
          /\ UNCHANGED <<pc, cur, lost, verdict, paused, todo, gate, asm, mirrored, faults>>
          /\ Reset(e) \/ UNCHANGED <<row, blamed>>
      BY <1>0, <1>2 DEF ScriptReset
    <2> HIDE DEF e
    <2>2. CASE Reset(e)
      BY <2>1, <2>2, ScriptRows, FreeRowStep DEF Reset
    <2>3. CASE UNCHANGED <<row, blamed>>
      BY <2>1, <2>3, ScriptQuiet
    <2> QED BY <2>1, <2>2, <2>3
  <1>3. ASSUME NEW e \in Events, ResetDead(e) PROVE IInv'
    BY <1>0, <1>3, ScriptRows, FreeRowStep DEF ResetDead, Reset, aside
  <1>4. ASSUME NEW e \in Events, Close(e) PROVE IInv'
    BY <1>0, <1>4, ScriptRows, FreeRowStep DEF Close, aside
  <1> QED BY <1>1, <1>2, <1>3, <1>4

\* The session manager's gate is no part of the invariant but its type.
LEMMA GateStep ==
  ASSUME IInv, Gate PROVE IInv'
  BY DEF Gate, aside, IInv, TypeOK, OneDelivery, Phases, HoldsOpenRow, Written, AcceptedIsHeld,
     SentWasReceived, MirroredWasReceived, DeadForCause, QuietWhilePaused

\* Every step preserves the invariant.
LEMMA NextIInv == IInv /\ [Next]_vars => IInv'
  <1> SUFFICES ASSUME IInv, [Next]_vars PROVE IInv'
    OBVIOUS
  <1>1. ASSUME NEW e \in Events, Write(e) \/ RetryDue(e) PROVE IInv'
    BY <1>1, WriteStep, RetryDueStep
  <1>2. ASSUME NEW d \in Dispatchers, Dispatch(d) \/ CooldownOver(d) PROVE IInv'
    BY <1>2, PollStep, ClaimStep, DeliverStep, CommitStep, FaultStep DEF Dispatch, Workers
  <1>3. ASSUME NEW r \in Replayers, Replay(r) PROVE IInv'
    BY <1>3, ReplayQuietStep, ReplayClaimStep, DeliverStep, ReplayCommitStep, FaultStep
       DEF Replay, Workers
  <1>4. ASSUME NEW w \in Workers, ConnectionLost(w) \/ CommitFails(w) \/ Crash(w) PROVE IInv'
    BY <1>4, ConnectionLostStep, FaultStep
  <1>5. CASE Gate
    BY <1>5, GateStep
  <1>6. CASE UNCHANGED vars
    BY <1>6 DEF vars, IInv, TypeOK, OneDelivery, Phases, HoldsOpenRow, Written, AcceptedIsHeld,
       SentWasReceived, MirroredWasReceived, DeadForCause, QuietWhilePaused
  <1>7. CASE \/ \E o \in Scripts : ScriptVerify(o) \/ ScriptReset(o)
             \/ \E e \in Events : ResetDead(e) \/ Close(e)
    BY <1>7, ScriptStep
  <1> QED BY <1>1, <1>2, <1>3, <1>4, <1>5, <1>6, <1>7 DEF Next

\* The inductive invariant holds in every reachable state.
THEOREM OutboxInvariance == Spec => []IInv
  BY InitIInv, NextIInv, PTL DEF Spec

\* No two connected workers deliver the same event at a time: the row lock
\* covers the whole delivery.
THEOREM ExclusiveDelivery == Spec => []OneDelivery
  BY OutboxInvariance, PTL DEF IInv

\* What the table calls sent has reached the session manager, and so has what
\* the bridge copied to the task bus.
THEOREM NothingInvented == Spec => [](SentWasReceived /\ MirroredWasReceived)
  BY OutboxInvariance, PTL DEF IInv

\* No connected worker holds an event recorded as sent, closed or deleted.
THEOREM SettledUntouched == Spec => []SentIsLeftAlone
  <1>1. IInv => SentIsLeftAlone
    BY DEF IInv, TypeOK, HoldsOpenRow, SentIsLeftAlone, Workers
  <1> QED BY <1>1, OutboxInvariance, PTL

\* Backpressure alone dead-letters nothing, and a paused dispatcher is quiet.
THEOREM BackpressureHandled == Spec => [](DeadForCause /\ QuietWhilePaused)
  BY OutboxInvariance, PTL DEF IInv

-----------------------------------------------------------------------------
(* Refinement.                                                             *)

\* The state a row's status stands for.
St(t) ==
  IF t = "none" THEN "absent"
  ELSE IF t \in {"pending", "failed"} THEN "owed"
  ELSE IF t = "sent" THEN "done"
  ELSE IF t = "dlq" THEN "parked" ELSE "dropped"

\* A change of one row changes one item.
LEMMA OneItem ==
  ASSUME IInv, NEW e \in Events, NEW r \in Row, row' = [row EXCEPT ![e] = r]
  PROVE  /\ QueueState' = [QueueState EXCEPT ![e] = St(r.status)]
         /\ QueueState[e] = St(row[e].status)
         /\ QueueState \in [Events -> {"absent", "owed", "done", "parked", "dropped"}]
  BY DEF IInv, TypeOK, QueueState, St

\* A step that changes one row, and neither the session manager nor a script, is
\* a step of the queue if the change is one the queue allows.
LEMMA RowStep ==
  ASSUME IInv, NEW e \in Events, NEW r \in Row, row' = [row EXCEPT ![e] = r], asm' = asm,
         script' = script,
         \/ row[e].status = "none" /\ r.status = "pending"
         \/ row[e].status \in {"pending", "failed"} /\ r.status \in {"failed", "dlq"}
         \/ row[e].status \in {"pending", "failed", "dlq"} /\ r.status = "sent" /\ e \in asm
         \/ row[e].status = "dlq" /\ r.status \in {"pending", "closed"}
         \/ r.status = row[e].status
  PROVE  [Queue!Next]_(Queue!avars)
  <1> DEFINE new == St(r.status)
  <1>1. QueueState' = [QueueState EXCEPT ![e] = new] /\ Asked' = Asked
    BY OneItem DEF Asked
  <1>2. \/ QueueState[e] = "absent" /\ new = "owed"
        \/ QueueState[e] = "owed" /\ new = "parked"
        \/ QueueState[e] \in {"owed", "parked"} /\ new = "done" /\ e \in asm
        \/ QueueState[e] = "parked" /\ new \in {"owed", "dropped"}
        \/ new = QueueState[e]
    BY OneItem DEF St
  <1>3. CASE new = QueueState[e]
    <2>1. QueueState' = QueueState
      BY <1>1, <1>3, OneItem
    <2> QED BY <1>1, <2>1 DEF Queue!avars
  <1> HIDE DEF new
  <1>4. CASE new # QueueState[e]
    <2>1. \/ Queue!Submit(e) \/ Queue!GiveUp(e) \/ Queue!Settle(e) \/ Queue!Requeue(e)
          \/ Queue!Drop(e)
      BY <1>1, <1>2, <1>4 DEF Queue!Submit, Queue!GiveUp, Queue!Settle, Queue!Requeue, Queue!Drop
    <2> QED BY <2>1 DEF Queue!Next
  <1> QED BY <1>3, <1>4

\* A script that looks at a dead-lettered row asks; one that acts requeues the
\* row it asked for, or finds it deleted.
LEMMA ScriptRefines ==
  ASSUME IInv, NEW o \in Scripts, ScriptVerify(o) \/ ScriptReset(o)
  PROVE  [Queue!Next]_(Queue!avars)
  <1>0. row \in [Events -> Row] /\ script \in [Scripts -> Events \cup {Nobody}]
    BY DEF IInv, TypeOK
  <1>1. CASE ScriptVerify(o)
    <2>1. PICK e \in Events : row[e].status = "dlq" /\ script' = [script EXCEPT ![o] = e]
      BY <1>1 DEF ScriptVerify
    <2>2. script[o] = Nobody /\ row' = row /\ asm' = asm
      BY <1>1 DEF ScriptVerify
    <2>3. Asked' = Asked \cup {e}
      BY <1>0, <2>1, <2>2, OutboxAssumption DEF Asked
    <2>4. QueueState[e] = "parked" /\ QueueState' = QueueState
      BY <2>1, <2>2 DEF QueueState
    <2>5. Queue!Ask(e)
      BY <2>2, <2>3, <2>4 DEF Queue!Ask
    <2> QED BY <2>5 DEF Queue!Next
  <1>2. CASE ScriptReset(o)
    <2> DEFINE e == script[o]
    <2>1. /\ e \in Events /\ e \in Asked /\ asm' = asm /\ script' = [script EXCEPT ![o] = Nobody]
          /\ Reset(e) \/ row' = row
      BY <1>0, <1>2 DEF ScriptReset, Asked
    <2>2. Asked' \in {Asked, Asked \ {e}}
      BY <1>0, <2>1 DEF Asked
    <2> HIDE DEF e
    <2>3. CASE Reset(e)
      <3>1. QueueState' = [QueueState EXCEPT ![e] = "owed"]
        BY <1>0, <2>1, <2>3 DEF Reset, QueueState
      <3>2. Queue!Requeue(e)
        BY <2>1, <2>2, <3>1 DEF Queue!Requeue
      <3> QED BY <2>1, <3>2 DEF Queue!Next
    <2>4. CASE row' = row
      <3>1. QueueState' = QueueState
        BY <2>4 DEF QueueState
      <3>2. CASE Asked' = Asked
        BY <2>1, <3>1, <3>2 DEF Queue!avars
      <3>3. CASE Asked' = Asked \ {e}
        <4>1. Queue!Withdraw(e)
          BY <2>1, <3>1, <3>3 DEF Queue!Withdraw
        <4> QED BY <2>1, <4>1 DEF Queue!Next
      <3> QED BY <2>2, <3>2, <3>3
    <2> QED BY <2>1, <2>3, <2>4
  <1> QED BY <1>1, <1>2

\* The initial table is an empty queue.
LEMMA InitRefines == Init => Queue!Init
  BY DEF Init, Queue!Init, QueueState, Asked

\* A delivery is received or leaves the session manager as it was.
LEMMA DeliverRefines ==
  ASSUME IInv, NEW w \in Workers, Deliver(w) PROVE [Queue!Next]_(Queue!avars)
  <1> DEFINE e == cur[w]
  <1>1. e \in Events /\ row' = row /\ script' = script
    BY OutboxAssumption DEF Deliver, aside, IInv, TypeOK, Phases
  <1>2. row[e].status # "none"
    BY <1>1, OutboxAssumption DEF IInv, Written
  <1>3. asm' = asm \/ asm' = asm \cup {e}
    BY DEF Deliver
  <1>6. QueueState[e] # "absent" /\ QueueState' = QueueState /\ Asked' = Asked
    BY <1>1, <1>2 DEF QueueState, Asked
  <1>4. CASE asm' = asm
    BY <1>4, <1>6 DEF Queue!avars
  <1>5. CASE asm' = asm \cup {e}
    <2>1. Queue!Receive(e)
      BY <1>5, <1>6 DEF Queue!Receive
    <2> QED BY <1>1, <2>1 DEF Queue!Next
  <1> QED BY <1>3, <1>4, <1>5

\* A dispatcher's commit settles an event, gives it up or leaves it owed.
LEMMA CommitRefines ==
  ASSUME IInv, NEW d \in Dispatchers, Commit(d) PROVE [Queue!Next]_(Queue!avars)
  <1> DEFINE e == cur[d]
             v == verdict[d]
             r == DispatchMark(row[e], v)
  <1>1. d \in Workers /\ e \in Events /\ v \in Verdicts /\ row[e] \in Row
    BY OutboxAssumption DEF Commit, IInv, TypeOK, Phases, Workers
  <1>2. /\ r \in Row
        /\ r.status \in {"failed", "sent", "dlq"}
        /\ r.status = "sent" <=> v = "accepted"
    BY <1>1, MarkType
  <1>4. row' = [row EXCEPT ![e] = r] /\ asm' = asm /\ script' = script /\ d \notin lost
    BY DEF Commit, aside
  <1>5. row[e].status \in {"pending", "failed"}
    BY <1>1, <1>4, OutboxAssumption DEF IInv, HoldsOpenRow, Written
  <1>6. v = "accepted" => e \in asm
    BY <1>1 DEF IInv, AcceptedIsHeld
  <1>7. r.status \in {"failed", "dlq"} \/ (r.status = "sent" /\ e \in asm)
    BY <1>2, <1>6
  <1> HIDE DEF r, e, v
  <1> QED BY <1>1, <1>2, <1>4, <1>5, <1>7, RowStep

\* A replay's commit settles an event or changes nothing.
LEMMA ReplayCommitRefines ==
  ASSUME IInv, NEW r \in Replayers, ReplayCommit(r) PROVE [Queue!Next]_(Queue!avars)
  <1> DEFINE e == cur[r]
             q == IF verdict[r] = "accepted" THEN markSent(row[e]) ELSE row[e]
  <1>1. r \in Workers /\ r \notin Dispatchers /\ e \in Events /\ row[e] \in Row
    BY OutboxAssumption DEF ReplayCommit, aside, IInv, TypeOK, Phases, Workers
  <1>2. q \in Row
    BY <1>1, OutboxAssumption DEF markSent, Row, Statuses
  <1>3. row' = [row EXCEPT ![e] = q] /\ asm' = asm /\ script' = script /\ r \notin lost
    BY <1>1 DEF ReplayCommit, aside, IInv, TypeOK
  <1>4. row[e].status = "dlq"
    BY <1>1, <1>3, OutboxAssumption DEF IInv, HoldsOpenRow, Written
  <1>5. q.status = row[e].status \/ (q.status = "sent" /\ e \in asm)
    BY <1>1 DEF IInv, AcceptedIsHeld, markSent
  <1> HIDE DEF q, e
  <1> QED BY <1>1, <1>2, <1>3, <1>4, <1>5, RowStep

\* Every step of the outbox is a step of the queue or none.
LEMMA NextRefines == IInv /\ [Next]_vars => [Queue!Next]_(Queue!avars)
  <1> SUFFICES ASSUME IInv, [Next]_vars PROVE [Queue!Next]_(Queue!avars)
    OBVIOUS
  <1>0. ASSUME row' = row, asm' = asm, script' = script PROVE [Queue!Next]_(Queue!avars)
    BY <1>0 DEF Queue!avars, QueueState, Asked
  <1>1. ASSUME NEW e \in Events, Write(e) PROVE [Queue!Next]_(Queue!avars)
    <2> DEFINE r == [status |-> "pending", attempts |-> 0, due |-> FALSE]
    <2>1. r \in Row /\ r.status = "pending"
      BY OutboxAssumption DEF Row, Statuses
    <2>2. row' = [row EXCEPT ![e] = r] /\ asm' = asm /\ script' = script /\ row[e].status = "none"
      BY <1>1 DEF Write, aside
    <2> HIDE DEF r
    <2> QED BY <2>1, <2>2, RowStep
  <1>2. ASSUME NEW e \in Events, RetryDue(e) PROVE [Queue!Next]_(Queue!avars)
    <2> DEFINE r == [status |-> "failed", attempts |-> row[e].attempts, due |-> TRUE]
    <2>1. r \in Row /\ r.status = "failed"
      BY DEF IInv, TypeOK, Row, Statuses
    <2>2. row' = [row EXCEPT ![e] = r] /\ asm' = asm /\ script' = script /\ row[e].status = "failed"
      BY <1>2 DEF RetryDue, aside
    <2> HIDE DEF r
    <2> QED BY <2>1, <2>2, RowStep
  <1>3. ASSUME NEW d \in Dispatchers, Dispatch(d) \/ CooldownOver(d)
        PROVE [Queue!Next]_(Queue!avars)
    <2>1. CASE Tick(d) \/ BatchEmpty(d) \/ Claim(d) \/ CooldownOver(d) \/ MarkLost(d)
      BY <2>1, <1>0 DEF Tick, BatchEmpty, Claim, CooldownOver, MarkLost, GiveBack, aside
    <2> QED BY <1>3, <2>1, DeliverRefines, CommitRefines DEF Dispatch, Workers
  <1>4. ASSUME NEW r \in Replayers, Replay(r) PROVE [Queue!Next]_(Queue!avars)
    <2>1. CASE ReplaySelect(r) \/ ReplayClaim(r) \/ ReplayDone(r) \/ MarkLost(r)
      BY <2>1, <1>0 DEF ReplaySelect, ReplayClaim, ReplayDone, MarkLost, GiveBack, aside
    <2> QED BY <1>4, <2>1, DeliverRefines, ReplayCommitRefines DEF Replay, Workers
  <1>5. ASSUME NEW w \in Workers, ConnectionLost(w) \/ CommitFails(w) \/ Crash(w)
        PROVE [Queue!Next]_(Queue!avars)
    BY <1>5, <1>0 DEF ConnectionLost, CommitFails, Crash, GiveBack
  <1>6. CASE Gate
    BY <1>6, <1>0 DEF Gate, aside
  <1>7. CASE UNCHANGED vars
    BY <1>7, <1>0 DEF vars
  <1>8. ASSUME NEW o \in Scripts, ScriptVerify(o) \/ ScriptReset(o) PROVE [Queue!Next]_(Queue!avars)
    BY <1>8, ScriptRefines
  <1>9. ASSUME NEW e \in Events, ResetDead(e) \/ Close(e) PROVE [Queue!Next]_(Queue!avars)
    <2> DEFINE p == [status |-> "pending", attempts |-> 0, due |-> FALSE]
               c == [status |-> "closed", attempts |-> 0, due |-> FALSE]
    <2>1. p \in Row /\ c \in Row /\ p.status = "pending" /\ c.status = "closed"
      BY ScriptRows
    <2>2. /\ row' = [row EXCEPT ![e] = p] \/ row' = [row EXCEPT ![e] = c]
          /\ asm' = asm /\ script' = script /\ row[e].status = "dlq"
      BY <1>9 DEF ResetDead, Close, Reset, aside
    <2> HIDE DEF p, c
    <2> QED BY <2>1, <2>2, RowStep
  <1> QED BY <1>1, <1>2, <1>3, <1>4, <1>5, <1>6, <1>7, <1>8, <1>9 DEF Next

\* The outbox implements the at-least-once queue: nothing owed is dropped,
\* what is done was received, and only a delivery or an operator takes out what
\* is parked; what is done becomes owed again only by an operator who saw the
\* event dead-lettered.
THEOREM OutboxRefinement == Spec => KeepsQueuePromise
  BY InitRefines, NextRefines, OutboxInvariance, PTL DEF Spec, KeepsQueuePromise, Queue!Spec
=============================================================================
