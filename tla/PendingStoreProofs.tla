------------------------- MODULE PendingStoreProofs -------------------------
(***************************************************************************)
(* The pending entry for any number of streams, sweepers and faults: its   *)
(* types, and that nothing but the start of a captured stream sends        *)
(* pollers back to waiting.                                                *)
(***************************************************************************)
EXTENDS PendingStore, TLAPS

\* A sweeper on its way to Save has read a placeholder, in Redis or as the row
\* of the task.
CopiesArePlaceholders ==
  \A x \in Sweepers :
    sweep[x] \in {"recheck", "save"} => copy[x] \in EntryType /\ copy[x].status = "in_progress"

\* Only a settled task is projected.
ProjectsSettled == outbox => task \in Terminal

IInv == TypeOK /\ CopiesArePlaceholders /\ ProjectsSettled

-----------------------------------------------------------------------------
\* What a read returns is an entry or none.
LEMMA ReadTypes ==
  ASSUME IInv
  PROVE  PGRow \in EntryType \cup {NoEntry} /\ Get \in EntryType \cup {NoEntry}
  BY DEF IInv, TypeOK, PGRow, Get, EntryType, NoEntry, Terminal

\* What Store.write leaves.
LEMMA WriteTypes ==
  ASSUME NEW status \in {"in_progress"} \cup Terminal, write(status)
  PROVE  entry' \in EntryType /\ entry'.status = status
  BY DEF write, EntryType

\* A step of one sweeper: its copy, if it goes on to Save, is a placeholder.
LEMMA SweeperStep ==
  ASSUME IInv, NEW x \in Sweepers, NEW l \in {"list", "get", "recheck", "save"},
         NEW c \in EntryType \cup {NoEntry}, SweepGoto(x, l), copy' = [copy EXCEPT ![x] = c],
         l \in {"recheck", "save"} => c \in EntryType /\ c.status = "in_progress",
         entry' \in EntryType \cup {NoEntry}, faults' \in 0..MaxFaults, UNCHANGED <<task, outbox, stream>>
  PROVE  IInv'
  <1>1. TypeOK'
    BY DEF IInv, TypeOK, SweepGoto
  <1>2. CopiesArePlaceholders'
    BY DEF IInv, TypeOK, CopiesArePlaceholders, SweepGoto
  <1> QED BY <1>1, <1>2 DEF IInv, ProjectsSettled

\* The calls of a sweeper, and a turn that fails.
LEMMA SweepInv ==
  ASSUME IInv, NEW x \in Sweepers, SweepStep(x) \/ SweepFails(x)
  PROVE  IInv'
  <1>1. /\ copy[x] \in EntryType \cup {NoEntry} /\ copy = [copy EXCEPT ![x] = copy[x]]
        /\ NoEntry \in EntryType \cup {NoEntry} /\ entry \in EntryType \cup {NoEntry}
    BY DEF IInv, TypeOK
  <1>2. Fault \/ UNCHANGED faults => faults' \in 0..MaxFaults
    BY PendingAssumption DEF Fault, IInv, TypeOK
  <1>3. CASE SweepList(x)
    BY <1>1, <1>2, <1>3, SweeperStep DEF SweepList
  <1>4. CASE SweepGet(x)
    <2>1. PICK r \in {Get, PGRow} :
            /\ IF r = Get THEN UNCHANGED faults ELSE Fault
            /\ IF r.status = "in_progress"
               THEN copy' = [copy EXCEPT ![x] = r] /\ SweepGoto(x, "recheck")
               ELSE SweepGoto(x, "list") /\ UNCHANGED copy
      BY <1>4 DEF SweepGet
    <2>2. r \in EntryType \cup {NoEntry} /\ faults' \in 0..MaxFaults
          /\ UNCHANGED <<entry, task, outbox, stream>>
      BY <1>2, <1>4, <2>1, ReadTypes DEF SweepGet
    <2>3. CASE r.status = "in_progress"
      <3>1. r \in EntryType
        BY <2>2, <2>3 DEF NoEntry
      <3> QED BY <1>1, <2>1, <2>2, <2>3, <3>1, SweeperStep
    <2>4. CASE r.status # "in_progress"
      BY <1>1, <2>1, <2>2, <2>4, SweeperStep
    <2> QED BY <2>3, <2>4
  <1>5. CASE SweepRecheck(x)
    <2>1. copy[x] \in EntryType /\ copy[x].status = "in_progress"
      BY <1>5 DEF SweepRecheck, IInv, CopiesArePlaceholders
    <2>2. faults' \in 0..MaxFaults /\ UNCHANGED <<entry, task, outbox, stream>>
      BY <1>2, <1>5 DEF SweepRecheck
    <2>3. CASE SweepGoto(x, "save") /\ UNCHANGED copy
      BY <1>1, <2>1, <2>2, <2>3, SweeperStep
    <2>4. CASE SweepGoto(x, "list") /\ copy' = [copy EXCEPT ![x] = NoEntry]
      BY <1>1, <2>2, <2>4, SweeperStep
    <2> QED BY <1>5, <2>3, <2>4 DEF SweepRecheck
  <1>6. CASE SweepSave(x)
    <2>1. copy[x] \in EntryType
      BY <1>6 DEF SweepSave, IInv, CopiesArePlaceholders
    <2>2. SweptEntry(x) \in EntryType
      BY <2>1 DEF SweptEntry, EntryType, Terminal
    <2> QED BY <1>1, <1>2, <1>6, <2>2, SweeperStep DEF SweepSave
  <1>7. CASE SweepFails(x)
    BY <1>1, <1>2, <1>7, SweeperStep DEF SweepFails
  <1> QED BY <1>3, <1>4, <1>5, <1>6, <1>7 DEF SweepStep

\* Everybody else leaves the sweepers alone.
LEMMA OthersInv ==
  ASSUME IInv, UNCHANGED <<sweep, copy>>, entry' \in EntryType \cup {NoEntry},
         stream' \in [Streams -> {"idle", "open", "done"}], faults' \in 0..MaxFaults,
         task' \in {"none", "in_progress"} \cup Terminal, outbox' \in BOOLEAN, outbox' => task' \in Terminal
  PROVE  IInv'
  BY DEF IInv, TypeOK, CopiesArePlaceholders, ProjectsSettled

LEMMA InitIInv == Init => IInv
  <1> SUFFICES ASSUME Init PROVE IInv
    OBVIOUS
  <1>1. faults \in 0..MaxFaults
    BY PendingAssumption DEF Init
  <1>2. TypeOK
    BY <1>1 DEF Init, TypeOK
  <1>3. CopiesArePlaceholders /\ ProjectsSettled
    BY DEF Init, CopiesArePlaceholders, ProjectsSettled
  <1> QED BY <1>2, <1>3 DEF IInv

LEMMA NextIInv == IInv /\ [Next]_vars => IInv'
  <1> SUFFICES ASSUME IInv, [Next]_vars PROVE IInv'
    OBVIOUS
  <1>1. TypeOK /\ (outbox => task \in Terminal)
    BY DEF IInv, ProjectsSettled
  <1>2. Fault \/ UNCHANGED faults => faults' \in 0..MaxFaults
    BY <1>1, PendingAssumption DEF Fault, TypeOK
  <1>3. ASSUME NEW s \in Streams, MarkInProgress(s) PROVE IInv'
    <2>1. entry' \in EntryType \cup {NoEntry}
      BY <1>1, <1>3, WriteTypes DEF MarkInProgress, TypeOK
    <2> QED BY <1>1, <1>2, <1>3, <2>1, OthersInv DEF MarkInProgress, TypeOK
  <1>4. ASSUME NEW s \in Streams, SaveCaptured(s) PROVE IInv'
    <2>1. entry' \in EntryType \cup {NoEntry}
      BY <1>1, <1>4, WriteTypes DEF SaveCaptured, TypeOK
    <2> QED BY <1>1, <1>4, <2>1, OthersInv DEF SaveCaptured, TypeOK
  <1>5. ASSUME NEW status \in Terminal, Settle(status) PROVE IInv'
    BY <1>1, <1>5, OthersInv DEF Settle, TypeOK
  <1>6. CASE SaveDurableCAS
    BY <1>1, <1>2, <1>6, ReadTypes, OthersInv DEF SaveDurableCAS, TypeOK
  <1>7. ASSUME NEW x \in Sweepers, SweepStep(x) \/ SweepFails(x) PROVE IInv'
    BY <1>7, SweepInv
  <1>8. CASE Age \/ Expire
    <2>1. entry' \in EntryType \cup {NoEntry}
      BY <1>1, <1>8 DEF Age, Expire, TypeOK, EntryType
    <2> QED BY <1>1, <1>8, <2>1, OthersInv DEF Age, Expire, TypeOK
  <1>9. CASE UNCHANGED vars
    BY <1>1, <1>9, OthersInv DEF vars, TypeOK
  <1> QED BY <1>3, <1>4, <1>5, <1>6, <1>7, <1>8, <1>9 DEF Next

\* Types, what a sweeper may hold when it saves, and which tasks are projected,
\* for any number of streams, sweepers and faults.
THEOREM PendingInvariance == Spec => []IInv
  BY InitIInv, NextIInv, PTL DEF Spec

\* sweep in pending_sweeper.go, saveCapturedPending, SaveDurableCAS: however their
\* reads and writes are interleaved, and although a sweeper writes back a copy
\* of a placeholder, none of them turns an answer into a placeholder again; only
\* markCapturedPendingInProgress of a stream that starts does.
THEOREM OnlyStartsWait == Spec => OnlyStreamsWait
  <1> DEFINE A == (entry.status # "in_progress" /\ entry'.status = "in_progress") =>
                    \E s \in Streams : stream[s] = "idle" /\ stream'[s] = "open"
  <1>1. IInv /\ [Next]_vars => [A]_vars
    <2> SUFFICES ASSUME IInv, Next, entry.status # "in_progress", entry'.status = "in_progress"
                 PROVE  \E s \in Streams : stream[s] = "idle" /\ stream'[s] = "open"
      OBVIOUS
    <2>1. ASSUME NEW s \in Streams, MarkInProgress(s)
          PROVE  \E t \in Streams : stream[t] = "idle" /\ stream'[t] = "open"
      BY <2>1 DEF MarkInProgress, IInv, TypeOK
    <2>2. ASSUME NEW s \in Streams, SaveCaptured(s) PROVE FALSE
      BY <2>2, WriteTypes DEF SaveCaptured, Terminal
    <2>3. ASSUME NEW status \in Terminal, Settle(status) PROVE FALSE
      BY <2>3 DEF Settle
    <2>4. CASE SaveDurableCAS
      BY <2>4 DEF SaveDurableCAS, PGRow, NoEntry, IInv, ProjectsSettled, Terminal
    <2>5. ASSUME NEW x \in Sweepers, SweepStep(x) \/ SweepFails(x) PROVE FALSE
      <3>1. CASE SweepSave(x)
        <4>1. copy[x] \in EntryType
          BY <3>1 DEF SweepSave, IInv, CopiesArePlaceholders
        <4>2. SweptEntry(x).status = "failed"
          BY <4>1 DEF SweptEntry, EntryType
        <4> QED BY <3>1, <4>2 DEF SweepSave
      <3>2. CASE ~SweepSave(x)
        BY <2>5, <3>2 DEF SweepStep, SweepList, SweepGet, SweepRecheck, SweepFails
      <3> QED BY <3>1, <3>2
    <2>6. CASE Age \/ Expire
      BY <2>6 DEF Age, Expire, NoEntry, IInv, TypeOK, EntryType
    <2> QED BY <2>1, <2>2, <2>3, <2>4, <2>5, <2>6 DEF Next
  <1> QED BY <1>1, PendingInvariance, PTL DEF Spec, OnlyStreamsWait
=============================================================================
