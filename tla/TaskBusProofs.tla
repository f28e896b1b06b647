--------------------------- MODULE TaskBusProofs ---------------------------
(***************************************************************************)
(* The safety of the task bus, for either store and any tasks, handlers,   *)
(* dispatchers, batch sizes, attempt limits, slow claims and faults.       *)
(***************************************************************************)
EXTENDS TaskBus, TLAPS

\* While no living dispatcher has lost a claim, the copies are exclusive: a
\* task in a batch is open, claimed, and in no other batch.
CopiesExclusive ==
  slow = 0 =>
    \A d \in Dispatchers : \A k \in Keys :
      batch[d][k] # NotHeld =>
        /\ task[k].status \in Open
        /\ task[k].claimed
        /\ \A e \in Dispatchers : batch[e][k] # NotHeld => e = d

\* Claims are lost in the SQL store only, and that one keeps every row: no
\* copy outlives its task.
CopiesKnown ==
  /\ store = "memory" => slow = 0
  /\ \A d \in Dispatchers : \A k \in Keys : batch[d][k] # NotHeld => task[k].status # "none"

\* What a dispatcher has in hand is the outcome of a handler that ran on one of
\* its copies.
ResultInHand ==
  \A d \in Dispatchers :
    result[d] # Idle =>
      /\ result[d].key \in Keys \ NoHandler
      /\ batch[d][result[d].key] # NotHeld
      /\ result[d].ok => result[d].key \in done

\* Attempts are failures: the store, a copy, and a copy with the failure in
\* hand never count more than there were.
AttemptsAreFailures ==
  \A k \in Keys :
    /\ task[k].attempts <= fails[k]
    /\ \A d \in Dispatchers :
         /\ batch[d][k] # NotHeld => batch[d][k] <= fails[k]
         /\ (result[d] # Idle /\ result[d].key = k /\ ~result[d].ok) => batch[d][k] + 1 <= fails[k]

IInv ==
  /\ TypeOK
  /\ CopiesExclusive
  /\ CopiesKnown
  /\ ResultInHand
  /\ AttemptsAreFailures
  /\ SentWasHandled
  /\ GivenUpAfterBudget

-----------------------------------------------------------------------------
\* A task marked sent or dlq.
LEMMA MarkTerminalType ==
  ASSUME NEW t \in Task, NEW s \in Finished
  PROVE  /\ markTerminal(t, s) \in Task
         /\ markTerminal(t, s).status = s
         /\ markTerminal(t, s).status \notin {"none", "failed"}
         /\ markTerminal(t, s).attempts = t.attempts
  BY DEF markTerminal, Task, Open, Finished

\* A task marked failed.
LEMMA MarkFailedType ==
  ASSUME NEW t \in Task, NEW n \in 0..MaxAttempts
  PROVE  /\ MarkFailed(t, n) \in Task
         /\ MarkFailed(t, n).status = "failed"
         /\ MarkFailed(t, n).attempts = n
  BY DEF MarkFailed, Task, Open, Finished

\* What a mark writes: a task again, sent only after a success, given up only
\* when the budget is used up, and never a task that is not there.
LEMMA MarkedType ==
  ASSUME NEW t \in Task, NEW ok \in BOOLEAN, NEW n \in 1..NotHeld
  PROVE  /\ Marked(t, ok, n) \in Task
         /\ Marked(t, ok, n).status # "none"
         /\ Marked(t, ok, n).status = "sent" => ok
         /\ Marked(t, ok, n).status = "dlq" => ~ok /\ n >= MaxAttempts
         /\ Marked(t, ok, n).attempts = t.attempts \/ (~ok /\ Marked(t, ok, n).attempts = n)
  <1>1. CASE ok
    <2>1. Marked(t, ok, n) = markTerminal(t, "sent")
      BY <1>1 DEF Marked
    <2> QED BY <2>1, <1>1, MarkTerminalType, "sent" \in Finished DEF Finished
  <1>2. CASE ~ok /\ n >= MaxAttempts
    <2>1. Marked(t, ok, n) = markTerminal(t, "dlq")
      BY <1>2 DEF Marked, Exhausted
    <2> QED BY <2>1, <1>2, MarkTerminalType, "dlq" \in Finished DEF Finished
  <1>3. CASE ~ok /\ ~(n >= MaxAttempts)
    <2>1. Marked(t, ok, n) = MarkFailed(t, n)
      BY <1>3 DEF Marked, Exhausted
    <2>2. n \in 0..MaxAttempts
      BY <1>3, TaskBusAssumption DEF NotHeld
    <2> QED BY <2>1, <2>2, <1>3, MarkFailedType
  <1> QED BY <1>1, <1>2, <1>3

\* Init establishes the invariant.
LEMMA InitIInv == Init => IInv
  BY TaskBusAssumption DEF Init, IInv, TypeOK, CopiesExclusive, CopiesKnown, ResultInHand,
     AttemptsAreFailures, SentWasHandled, GivenUpAfterBudget, NoTask, Task, Idle, NotHeld, Open, Finished

\* A new task starts without successes or failures; no stale copy of an
\* earlier task of its key could bring one in.
LEMMA EnqueueStep ==
  ASSUME IInv, NEW k \in Keys, Enqueue(k) PROVE IInv'
  <1>1. \A d \in Dispatchers : batch[d][k] = NotHeld
    BY DEF Enqueue, IInv, CopiesKnown
  <1>2. TypeOK'
    <2>1. [NoTask EXCEPT !.status = "pending", !.due = TRUE] \in Task
      <3>1. NoTask \in Task
        BY TaskBusAssumption DEF NoTask, Task, Open, Finished
      <3> QED BY <3>1 DEF Task, Open, Finished
    <2> QED BY <2>1, TaskBusAssumption DEF Enqueue, IInv, TypeOK, NotHeld
  <1>3. CopiesExclusive' /\ CopiesKnown'
    BY <1>1 DEF Enqueue, IInv, TypeOK, CopiesExclusive, CopiesKnown, NoTask
  <1>4. ResultInHand'
    BY <1>1 DEF Enqueue, IInv, ResultInHand
  <1>5. AttemptsAreFailures'
    BY <1>1 DEF Enqueue, IInv, TypeOK, AttemptsAreFailures, ResultInHand, NoTask
  <1>6. SentWasHandled' /\ GivenUpAfterBudget'
    BY DEF Enqueue, IInv, TypeOK, SentWasHandled, GivenUpAfterBudget, NoTask
  <1> QED BY <1>2, <1>3, <1>4, <1>5, <1>6 DEF IInv

\* A claim takes tasks nobody has claimed, hence none that is in a batch.
LEMMA ClaimBatchStep ==
  ASSUME IInv, NEW d \in Dispatchers, ClaimBatch(d) PROVE IInv'
  <1>1. PICK s \in SUBSET {k \in Keys : Claimable(k)} :
          /\ task' = [k \in Keys |-> IF k \in s THEN [task[k] EXCEPT !.claimed = TRUE] ELSE task[k]]
          /\ batch' = [batch EXCEPT ![d] = [k \in Keys |-> IF k \in s THEN task[k].attempts ELSE NotHeld]]
    BY DEF ClaimBatch
  <1>2. UNCHANGED <<store, result, done, fails, slow, faults>> /\ result[d] = Idle
    BY DEF ClaimBatch
  <1>3. \A k \in Keys : /\ task[k] \in Task
                        /\ task'[k].status = task[k].status
                        /\ task'[k].attempts = task[k].attempts
                        /\ k \in s => task'[k].claimed
                        /\ k \notin s => task'[k] = task[k]
                        /\ task'[k] \in Task
    BY <1>1 DEF IInv, TypeOK, Task
  <1>4. \A k \in s : k \in Keys /\ task[k].status \in Open /\ ~task[k].claimed
    BY <1>1 DEF Claimable
  <1>5. \A e \in Dispatchers : \A k \in Keys :
          batch'[e][k] = IF e = d THEN (IF k \in s THEN task[k].attempts ELSE NotHeld) ELSE batch[e][k]
    BY <1>1 DEF IInv, TypeOK
  <1>6. TypeOK'
    <2>1. task' \in [Keys -> Task]
      BY <1>1, <1>3
    <2>2. \A k \in Keys : task[k].attempts \in 0..NotHeld /\ NotHeld \in 0..NotHeld
      BY <1>3, TaskBusAssumption DEF Task, NotHeld
    <2>3. batch' \in [Dispatchers -> [Keys -> 0..NotHeld]]
      BY <1>1, <2>2 DEF IInv, TypeOK
    <2> QED BY <1>2, <2>1, <2>3 DEF IInv, TypeOK
  <1>7. CopiesExclusive'
    <2> SUFFICES ASSUME slow = 0, NEW e \in Dispatchers, NEW k \in Keys, batch'[e][k] # NotHeld
                 PROVE  /\ task'[k].status \in Open
                        /\ task'[k].claimed
                        /\ \A f \in Dispatchers : batch'[f][k] # NotHeld => f = e
      BY <1>2 DEF CopiesExclusive
    <2>1. CASE k \in s
      <3>1. \A f \in Dispatchers : batch[f][k] = NotHeld
        BY <1>4, <2>1 DEF IInv, CopiesExclusive
      <3> QED BY <1>3, <1>4, <1>5, <2>1, <3>1
    <2>2. CASE k \notin s
      BY <1>3, <1>5, <2>2 DEF IInv, CopiesExclusive
    <2> QED BY <2>1, <2>2
  <1>8. CopiesKnown'
    BY <1>2, <1>3, <1>4, <1>5 DEF IInv, CopiesKnown, Open
  <1>9. ResultInHand'
    BY <1>2, <1>5 DEF IInv, ResultInHand
  <1>10. AttemptsAreFailures'
    BY <1>2, <1>3, <1>5 DEF IInv, AttemptsAreFailures
  <1>11. SentWasHandled' /\ GivenUpAfterBudget'
    BY <1>2, <1>3 DEF IInv, SentWasHandled, GivenUpAfterBudget
  <1> QED BY <1>6, <1>7, <1>8, <1>9, <1>10, <1>11 DEF IInv

\* The handler runs: successes are recorded, failures counted, up to a bound
\* no copy reaches.
LEMMA HandleStep ==
  ASSUME IInv, NEW d \in Dispatchers, Handle(d) PROVE IInv'
  <1>1. PICK k \in Held(d) \ NoHandler, ok \in BOOLEAN :
          /\ result' = [result EXCEPT ![d] = [key |-> k, ok |-> ok]]
          /\ done' = IF ok THEN done \cup {k} ELSE done
          /\ fails' = [fails EXCEPT ![k] = IF ok THEN @ ELSE Bump(@)]
    BY DEF Handle
  <1>2. UNCHANGED <<store, task, batch, slow, faults>> /\ result[d] = Idle
    BY DEF Handle
  <1>3. k \in Keys \ NoHandler /\ batch[d][k] # NotHeld
    BY <1>1 DEF Held
  <1>4. batch[d][k] \in 0..MaxAttempts
    <2>1. batch[d][k] \in 0..NotHeld /\ batch[d][k] # NotHeld
      BY <1>3 DEF IInv, TypeOK
    <2> QED BY <2>1, TaskBusAssumption DEF NotHeld
  <1>5. \A j \in Keys : /\ fails[j] \in 0..NotHeld
                        /\ fails'[j] \in 0..NotHeld
                        /\ fails[j] <= fails'[j]
                        /\ (j = k /\ ~ok) => batch[d][k] + 1 <= fails'[j]
    BY <1>1, <1>3, <1>4, TaskBusAssumption DEF IInv, TypeOK, AttemptsAreFailures, Bump, NotHeld
  <1>6. TypeOK'
    BY <1>1, <1>2, <1>3, <1>5 DEF IInv, TypeOK
  <1>7. CopiesExclusive' /\ CopiesKnown'
    BY <1>2 DEF IInv, CopiesExclusive, CopiesKnown
  <1>8. \A e \in Dispatchers : result'[e] = IF e = d THEN [key |-> k, ok |-> ok] ELSE result[e]
    BY <1>1 DEF IInv, TypeOK
  <1>9. ResultInHand'
    BY <1>1, <1>2, <1>3, <1>8 DEF IInv, ResultInHand
  <1>10. AttemptsAreFailures'
    <2> SUFFICES ASSUME NEW j \in Keys
                 PROVE  /\ task[j].attempts <= fails'[j]
                        /\ \A e \in Dispatchers :
                             /\ batch[e][j] # NotHeld => batch[e][j] <= fails'[j]
                             /\ (result'[e] # Idle /\ result'[e].key = j /\ ~result'[e].ok) => batch[e][j] + 1 <= fails'[j]
      BY <1>2 DEF AttemptsAreFailures
    <2>1. task[j].attempts \in Nat /\ \A e \in Dispatchers : batch[e][j] \in Nat
      BY TaskBusAssumption DEF IInv, TypeOK, Task, NotHeld
    <2> QED BY <2>1, <1>5, <1>8, TaskBusAssumption DEF IInv, AttemptsAreFailures, NotHeld
  <1>11. SentWasHandled' /\ GivenUpAfterBudget'
    BY <1>1, <1>2, <1>5, TaskBusAssumption DEF IInv, SentWasHandled, GivenUpAfterBudget, NotHeld
  <1> QED BY <1>6, <1>7, <1>9, <1>10, <1>11 DEF IInv

\* A dispatcher is through with one of its copies.
LEMMA FinishEffect ==
  ASSUME IInv, NEW d \in Dispatchers, NEW k \in Keys, Finish(d, k)
  PROVE  /\ batch' \in [Dispatchers -> [Keys -> 0..NotHeld]]
         /\ result' \in [Dispatchers -> [key : Keys \cup {"none"}, ok : BOOLEAN]]
         /\ \A e \in Dispatchers : \A j \in Keys :
              /\ (e = d /\ j = k) => batch'[e][j] = NotHeld
              /\ ~(e = d /\ j = k) => batch'[e][j] = batch[e][j]
         /\ result'[d] = Idle
         /\ \A e \in Dispatchers : e # d => result'[e] = result[e]
  <1>1. NotHeld \in 0..NotHeld
    BY TaskBusAssumption DEF NotHeld
  <1>2. Idle \in [key : Keys \cup {"none"}, ok : BOOLEAN]
    BY DEF Idle
  <1> QED BY <1>1, <1>2 DEF Finish, IInv, TypeOK

\* A mark, by the dispatcher that has the task in its batch: whatever it
\* writes is covered by the outcome in hand.
LEMMA MarkStep ==
  ASSUME IInv, NEW d \in Dispatchers, Mark(d) PROVE IInv'
  <1> DEFINE k == result[d].key
             ok == result[d].ok
             t == Marked(task[k], ok, batch[d][k] + 1)
  <1>1. /\ result[d] # Idle /\ k \in Keys \ NoHandler /\ ok \in BOOLEAN
        /\ batch[d][k] # NotHeld /\ (ok => k \in done)
    BY DEF Mark, IInv, TypeOK, ResultInHand
  <1>2. batch[d][k] \in 0..MaxAttempts
    <2>1. batch[d][k] \in 0..NotHeld
      BY <1>1 DEF IInv, TypeOK
    <2> QED BY <1>1, <2>1, TaskBusAssumption DEF NotHeld
  <1>3. ~ok => batch[d][k] + 1 <= fails[k]
    BY <1>1 DEF IInv, AttemptsAreFailures
  <1>4. /\ t \in Task
        /\ t.status # "none"
        /\ t.status = "sent" => ok
        /\ t.status = "dlq" => ~ok /\ batch[d][k] + 1 >= MaxAttempts
        /\ t.attempts = task[k].attempts \/ (~ok /\ t.attempts = batch[d][k] + 1)
    <2>1. batch[d][k] + 1 \in 1..NotHeld /\ task[k] \in Task
      BY <1>1, <1>2, TaskBusAssumption DEF IInv, TypeOK, NotHeld
    <2> QED BY <2>1, <1>1, MarkedType
  <1>5. /\ task' = [task EXCEPT ![k] = t]
        /\ Finish(d, k)
        /\ UNCHANGED <<store, done, fails, slow, faults>>
    BY DEF Mark
  <1> HIDE DEF t
  <1>6. /\ task' \in [Keys -> Task]
        /\ task'[k] = t
        /\ \A j \in Keys : j # k => task'[j] = task[j]
    BY <1>1, <1>4, <1>5 DEF IInv, TypeOK
  <1>7. /\ batch' \in [Dispatchers -> [Keys -> 0..NotHeld]]
        /\ result' \in [Dispatchers -> [key : Keys \cup {"none"}, ok : BOOLEAN]]
        /\ \A e \in Dispatchers : \A j \in Keys :
             /\ (e = d /\ j = k) => batch'[e][j] = NotHeld
             /\ ~(e = d /\ j = k) => batch'[e][j] = batch[e][j]
        /\ result'[d] = Idle
        /\ \A e \in Dispatchers : e # d => result'[e] = result[e]
    BY <1>1, <1>5, FinishEffect
  <1>8. TypeOK'
    BY <1>5, <1>6, <1>7 DEF IInv, TypeOK
  <1>9. CopiesExclusive'
    <2> SUFFICES ASSUME slow = 0, NEW e \in Dispatchers, NEW j \in Keys, batch'[e][j] # NotHeld
                 PROVE  /\ task'[j].status \in Open
                        /\ task'[j].claimed
                        /\ \A f \in Dispatchers : batch'[f][j] # NotHeld => f = e
      BY <1>5 DEF CopiesExclusive
    <2>1. j # k
      BY <1>1, <1>7 DEF IInv, CopiesExclusive
    <2>2. task'[j] = task[j] /\ \A f \in Dispatchers : batch'[f][j] = batch[f][j]
      BY <1>6, <1>7, <2>1
    <2>3. CopiesExclusive
      BY DEF IInv
    <2> QED BY <2>2, <2>3 DEF CopiesExclusive
  <1>10. CopiesKnown'
    <2>1. store' = "memory" => slow' = 0
      BY <1>5 DEF IInv, CopiesKnown
    <2>2. ASSUME NEW e \in Dispatchers, NEW j \in Keys, batch'[e][j] # NotHeld
          PROVE  task'[j].status # "none"
      <3>1. CASE j = k
        BY <1>4, <1>6, <3>1
      <3>2. CASE j # k
        <4>1. batch[e][j] # NotHeld /\ task'[j] = task[j]
          BY <1>6, <1>7, <2>2, <3>2
        <4> QED BY <4>1 DEF IInv, CopiesKnown
      <3> QED BY <3>1, <3>2
    <2> QED BY <2>1, <2>2 DEF CopiesKnown
  <1>11. ResultInHand'
    BY <1>1, <1>5, <1>7 DEF IInv, ResultInHand
  <1>12. AttemptsAreFailures'
    <2>1. t.attempts <= fails[k]
      BY <1>1, <1>3, <1>4 DEF IInv, AttemptsAreFailures
    <2>2. AttemptsAreFailures
      BY DEF IInv
    <2>3. ASSUME NEW j \in Keys PROVE task'[j].attempts <= fails'[j]
      <3>1. CASE j = k
        BY <1>5, <1>6, <2>1, <3>1
      <3>2. CASE j # k
        BY <1>5, <1>6, <2>2, <3>2 DEF AttemptsAreFailures
      <3> QED BY <3>1, <3>2
    <2>4. ASSUME NEW j \in Keys, NEW e \in Dispatchers, batch'[e][j] # NotHeld
          PROVE  batch'[e][j] <= fails'[j]
      <3>1. batch'[e][j] = batch[e][j] /\ fails' = fails
        BY <1>5, <1>7, <2>4
      <3> QED BY <2>2, <2>4, <3>1 DEF AttemptsAreFailures
    <2>5. ASSUME NEW j \in Keys, NEW e \in Dispatchers, result'[e] # Idle, result'[e].key = j, ~result'[e].ok
          PROVE  batch'[e][j] + 1 <= fails'[j]
      <3>1. e # d
        BY <1>7, <2>5
      <3>2. batch'[e][j] = batch[e][j] /\ result'[e] = result[e] /\ fails' = fails
        BY <1>5, <1>7, <3>1
      <3> QED BY <2>2, <2>5, <3>2 DEF AttemptsAreFailures
    <2> QED BY <2>3, <2>4, <2>5 DEF AttemptsAreFailures
  <1>13. SentWasHandled'
    BY <1>1, <1>4, <1>5, <1>6 DEF IInv, SentWasHandled
  <1>14. GivenUpAfterBudget'
    <2>1. fails[k] \in Nat
      BY <1>1, TaskBusAssumption DEF IInv, TypeOK, NotHeld
    <2>2. t.status = "dlq" => fails[k] >= MaxAttempts
      BY <2>1, <1>2, <1>3, <1>4, TaskBusAssumption
    <2> QED BY <2>2, <1>1, <1>5, <1>6 DEF IInv, GivenUpAfterBudget
  <1> QED BY <1>8, <1>9, <1>10, <1>11, <1>12, <1>13, <1>14 DEF IInv

\* A task without a handler is given up at once.
LEMMA MarkNoHandlerStep ==
  ASSUME IInv, NEW d \in Dispatchers, MarkNoHandler(d) PROVE IInv'
  <1>1. PICK k \in Held(d) \cap NoHandler :
          /\ task' = [task EXCEPT ![k] = markTerminal(@, "dlq")]
          /\ Finish(d, k)
    BY DEF MarkNoHandler
  <1>2. k \in Keys /\ k \in NoHandler /\ batch[d][k] # NotHeld
    BY <1>1 DEF Held
  <1>3. UNCHANGED <<store, done, fails, slow, faults>> /\ result[d] = Idle
    BY DEF MarkNoHandler
  <1>4. /\ task' \in [Keys -> Task]
        /\ task'[k].status = "dlq" /\ task'[k].attempts = task[k].attempts
        /\ \A j \in Keys : j # k => task'[j] = task[j]
    <2>1. task[k] \in Task /\ "dlq" \in Finished
      BY <1>2 DEF IInv, TypeOK, Finished
    <2>2. /\ markTerminal(task[k], "dlq") \in Task
          /\ markTerminal(task[k], "dlq").status = "dlq"
          /\ markTerminal(task[k], "dlq").attempts = task[k].attempts
      BY <2>1, MarkTerminalType
    <2> QED BY <2>2, <1>1, <1>2 DEF IInv, TypeOK
  <1>5. /\ batch' \in [Dispatchers -> [Keys -> 0..NotHeld]]
        /\ result' \in [Dispatchers -> [key : Keys \cup {"none"}, ok : BOOLEAN]]
        /\ \A e \in Dispatchers : \A j \in Keys :
             /\ (e = d /\ j = k) => batch'[e][j] = NotHeld
             /\ ~(e = d /\ j = k) => batch'[e][j] = batch[e][j]
        /\ result'[d] = Idle
        /\ \A e \in Dispatchers : e # d => result'[e] = result[e]
    BY <1>1, <1>2, FinishEffect
  <1>6. TypeOK'
    BY <1>3, <1>4, <1>5 DEF IInv, TypeOK
  <1>7. CopiesExclusive'
    <2> SUFFICES ASSUME slow = 0, NEW e \in Dispatchers, NEW j \in Keys, batch'[e][j] # NotHeld
                 PROVE  /\ task'[j].status \in Open
                        /\ task'[j].claimed
                        /\ \A f \in Dispatchers : batch'[f][j] # NotHeld => f = e
      BY <1>3 DEF CopiesExclusive
    <2>1. j # k
      BY <1>2, <1>5 DEF IInv, CopiesExclusive
    <2>2. task'[j] = task[j] /\ \A f \in Dispatchers : batch'[f][j] = batch[f][j]
      BY <1>4, <1>5, <2>1
    <2>3. CopiesExclusive
      BY DEF IInv
    <2> QED BY <2>2, <2>3 DEF CopiesExclusive
  <1>8. CopiesKnown'
    BY <1>2, <1>3, <1>4, <1>5 DEF IInv, CopiesKnown
  <1>9. ResultInHand'
    BY <1>2, <1>3, <1>5 DEF IInv, ResultInHand
  <1>10. AttemptsAreFailures'
    BY <1>2, <1>3, <1>4, <1>5 DEF IInv, AttemptsAreFailures
  <1>11. SentWasHandled' /\ GivenUpAfterBudget'
    BY <1>2, <1>3, <1>4 DEF IInv, SentWasHandled, GivenUpAfterBudget
  <1> QED BY <1>6, <1>7, <1>8, <1>9, <1>10, <1>11 DEF IInv

\* Copies that are dropped leave their claims behind.
LEMMA DropStep ==
  ASSUME IInv, NEW d \in Dispatchers, MarkFails(d) \/ Crash(d) PROVE IInv'
  <1>1. /\ UNCHANGED <<store, task, done, fails, slow>>
        /\ faults' \in 0..MaxFaults
    BY TaskBusAssumption DEF MarkFails, Crash, IInv, TypeOK
  <1>2. /\ batch' \in [Dispatchers -> [Keys -> 0..NotHeld]]
        /\ result' \in [Dispatchers -> [key : Keys \cup {"none"}, ok : BOOLEAN]]
        /\ \A e \in Dispatchers : \A j \in Keys : batch'[e][j] = NotHeld \/ batch'[e][j] = batch[e][j]
        /\ result'[d] = Idle
        /\ \A e \in Dispatchers : e # d => result'[e] = result[e] /\ batch'[e] = batch[e]
    <2>1. CASE MarkFails(d)
      <3>1. PICK k \in Keys : Finish(d, k)
        BY <2>1 DEF MarkFails, ToMark, Held, IInv, ResultInHand
      <3>2. \A e \in Dispatchers : e # d => batch'[e] = batch[e]
        BY <3>1 DEF Finish, IInv, TypeOK
      <3> QED BY <3>1, <3>2, FinishEffect
    <2>2. CASE Crash(d)
      <3>1. NotHeld \in 0..NotHeld
        BY TaskBusAssumption DEF NotHeld
      <3>2. Idle \in [key : Keys \cup {"none"}, ok : BOOLEAN]
        BY DEF Idle
      <3> QED BY <2>2, <3>1, <3>2 DEF Crash, IInv, TypeOK
    <2> QED BY <2>1, <2>2
  <1>3. TypeOK'
    BY <1>1, <1>2 DEF IInv, TypeOK
  <1>4. \A e \in Dispatchers : \A j \in Keys : batch'[e][j] # NotHeld => batch[e][j] # NotHeld
    BY <1>2
  <1>8. CopiesExclusive'
    BY <1>1, <1>4 DEF IInv, CopiesExclusive
  <1>9. CopiesKnown'
    BY <1>1, <1>4 DEF IInv, CopiesKnown
  <1>5. ResultInHand'
    BY <1>1, <1>2 DEF IInv, ResultInHand
  <1>6. AttemptsAreFailures'
    BY <1>1, <1>2 DEF IInv, AttemptsAreFailures
  <1>7. SentWasHandled' /\ GivenUpAfterBudget'
    BY <1>1 DEF IInv, SentWasHandled, GivenUpAfterBudget
  <1> QED BY <1>3, <1>8, <1>9, <1>5, <1>6, <1>7 DEF IInv

\* Timers: a claim runs out, a retry is due, retention passes.
LEMMA TimerStep ==
  ASSUME IInv, NEW k \in Keys, ExpireDead(k) \/ ExpireSlow(k) \/ RetryDue(k) \/ Age(k) PROVE IInv'
  <1>1. UNCHANGED <<store, batch, result, done, fails, faults>>
    BY DEF ExpireDead, ExpireSlow, RetryDue, Age
  <1>2. task[k] \in Task
    BY DEF IInv, TypeOK
  <1>3. /\ task' \in [Keys -> Task]
        /\ \A j \in Keys : /\ task'[j].status = task[j].status
                           /\ task'[j].attempts = task[j].attempts
                           /\ j # k => task'[j] = task[j]
    <2>1. /\ [task[k] EXCEPT !.claimed = FALSE] \in Task
          /\ [task[k] EXCEPT !.due = TRUE] \in Task
          /\ [task[k] EXCEPT !.old = TRUE] \in Task
      BY <1>2 DEF Task
    <2>2. \A r \in {[task[k] EXCEPT !.claimed = FALSE], [task[k] EXCEPT !.due = TRUE],
                    [task[k] EXCEPT !.old = TRUE]} :
            r.status = task[k].status /\ r.attempts = task[k].attempts
      BY <1>2 DEF Task
    <2>3. \E r \in {[task[k] EXCEPT !.claimed = FALSE], [task[k] EXCEPT !.due = TRUE],
                    [task[k] EXCEPT !.old = TRUE]} : task' = [task EXCEPT ![k] = r]
      BY DEF ExpireDead, ExpireSlow, RetryDue, Age
    <2>4. PICK r \in {[task[k] EXCEPT !.claimed = FALSE], [task[k] EXCEPT !.due = TRUE],
                     [task[k] EXCEPT !.old = TRUE]} : task' = [task EXCEPT ![k] = r]
      BY <2>3
    <2>5. r \in Task /\ r.status = task[k].status /\ r.attempts = task[k].attempts
      BY <2>1, <2>2, <2>4
    <2> QED BY <2>4, <2>5 DEF IInv, TypeOK
  <1>4. slow' \in 0..MaxSlow /\ (store = "memory" => slow' = slow)
    BY TaskBusAssumption DEF ExpireDead, ExpireSlow, RetryDue, Age, ClaimExpires, IInv, TypeOK
  <1>5. TypeOK'
    BY <1>1, <1>3, <1>4 DEF IInv, TypeOK
  <1>6. CopiesExclusive'
    <2> SUFFICES ASSUME slow' = 0, NEW e \in Dispatchers, NEW j \in Keys, batch[e][j] # NotHeld
                 PROVE  /\ task'[j].status \in Open
                        /\ task'[j].claimed
                        /\ \A f \in Dispatchers : batch[f][j] # NotHeld => f = e
      BY <1>1 DEF CopiesExclusive
    <2>1. slow = 0 /\ ~ExpireSlow(k)
      BY TaskBusAssumption DEF ExpireDead, ExpireSlow, RetryDue, Age, IInv, TypeOK
    <2>2. /\ task[j].status \in Open
          /\ task[j].claimed
          /\ \A f \in Dispatchers : batch[f][j] # NotHeld => f = e
      BY <2>1 DEF IInv, CopiesExclusive
    <2>3. j = k => ~ExpireDead(k)
      BY DEF ExpireDead, Held
    <2>4. task'[j].claimed
      <3>1. CASE j # k
        BY <3>1, <2>2, <1>3
      <3>2. CASE j = k /\ RetryDue(k)
        BY <3>2, <2>2, <1>2 DEF RetryDue, IInv, TypeOK, Task
      <3>3. CASE j = k /\ Age(k)
        BY <3>3, <2>2, <1>2 DEF Age, IInv, TypeOK, Task
      <3> QED BY <2>1, <2>3, <3>1, <3>2, <3>3
    <2> QED BY <2>2, <2>4, <1>3
  <1>7. CopiesKnown' /\ ResultInHand'
    BY <1>1, <1>3, <1>4 DEF IInv, CopiesKnown, ResultInHand
  <1>8. AttemptsAreFailures' /\ SentWasHandled' /\ GivenUpAfterBudget'
    BY <1>1, <1>3 DEF IInv, AttemptsAreFailures, SentWasHandled, GivenUpAfterBudget
  <1> QED BY <1>5, <1>6, <1>7, <1>8 DEF IInv

\* The sweep removes finished tasks of the in-memory store, of which nobody
\* has a copy.
LEMMA SweepStep ==
  ASSUME IInv, NEW d \in Dispatchers, Sweep(d) PROVE IInv'
  <1>1. UNCHANGED <<store, batch, result, done, fails, slow, faults>> /\ slow = 0
    <2>1. store = "memory"
      BY DEF Sweep, ClaimExpires, IInv, TypeOK
    <2> QED BY <2>1 DEF Sweep, IInv, CopiesKnown
  <1>2. /\ task' \in [Keys -> Task]
        /\ \A k \in Keys : task'[k] = IF Sweepable(k) THEN NoTask ELSE task[k]
    <2>1. NoTask \in Task
      BY TaskBusAssumption DEF NoTask, Task, Open, Finished
    <2> QED BY <2>1 DEF Sweep, IInv, TypeOK
  <1>3. NoTask.status = "none" /\ NoTask.attempts = 0
    BY DEF NoTask
  <1>4. \A k \in Keys : Sweepable(k) => \A e \in Dispatchers : batch[e][k] = NotHeld
    BY <1>1 DEF Sweepable, IInv, CopiesExclusive, Open, Finished
  <1>5. TypeOK'
    BY <1>1, <1>2 DEF IInv, TypeOK
  <1>6. CopiesExclusive' /\ CopiesKnown' /\ ResultInHand'
    BY <1>1, <1>2, <1>4 DEF IInv, CopiesExclusive, CopiesKnown, ResultInHand
  <1>7. AttemptsAreFailures'
    <2>1. \A k \in Keys : 0 <= fails[k]
      BY TaskBusAssumption DEF IInv, TypeOK, NotHeld
    <2> QED BY <2>1, <1>1, <1>2, <1>3 DEF IInv, AttemptsAreFailures
  <1>8. SentWasHandled' /\ GivenUpAfterBudget'
    BY <1>1, <1>2, <1>3 DEF IInv, SentWasHandled, GivenUpAfterBudget
  <1> QED BY <1>5, <1>6, <1>7, <1>8 DEF IInv

\* Every step keeps the invariant.
LEMMA NextIInv == IInv /\ [Next]_vars => IInv'
  <1> SUFFICES ASSUME IInv, [Next]_vars PROVE IInv'
    OBVIOUS
  <1>1. CASE \E k \in Keys : Enqueue(k) \/ ExpireDead(k) \/ ExpireSlow(k) \/ RetryDue(k) \/ Age(k)
    BY <1>1, EnqueueStep, TimerStep
  <1>2. CASE \E d \in Dispatchers : Work(d) \/ MarkFails(d) \/ Crash(d) \/ Sweep(d)
    BY <1>2, ClaimBatchStep, HandleStep, MarkStep, MarkNoHandlerStep, DropStep, SweepStep DEF Work
  <1>3. CASE UNCHANGED vars
    BY <1>3 DEF vars, IInv, TypeOK, CopiesExclusive, CopiesKnown, ResultInHand, AttemptsAreFailures,
       SentWasHandled, GivenUpAfterBudget
  <1> QED BY <1>1, <1>2, <1>3 DEF Next

-----------------------------------------------------------------------------
\* The inductive invariant of the task bus, types included: exclusive copies
\* until a living dispatcher loses a claim, no copy without its task, outcomes
\* in hand that come from a handler, attempts that count real failures.
THEOREM TaskBusInvariance == Spec => []IInv
  BY InitIInv, NextIInv, PTL DEF Spec

\* A task recorded as sent was handled with success since it was enqueued, also
\* when a stale dispatcher marked it by id (DispatchOnce, MarkSent).
THEOREM OnlyHandledSent == Spec => []SentWasHandled
  <1>1. IInv => SentWasHandled
    BY DEF IInv
  <1> QED BY <1>1, TaskBusInvariance, PTL

\* A task is given up only after its handler failed maxAttempts times, or for
\* lack of one, although stale copies carry stale counts (MarkFailed, MarkDLQ).
THEOREM BudgetRespected == Spec => []GivenUpAfterBudget
  <1>1. IInv => GivenUpAfterBudget
    BY DEF IInv
  <1> QED BY <1>1, TaskBusInvariance, PTL

\* sent and dlq are final until retention has passed, as long as no living dispatcher has
\* lost a claim: marks go by id, yet only the holder of the one copy marks.
THEOREM FinishedForGood == Spec => TerminalIsFinal
  <1> DEFINE Final == slow = 0 => \A k \in Keys :
                        task[k].status \in Finished =>
                          task'[k].status = task[k].status \/ (task[k].old /\ task'[k].status = "none")
  <1>1. IInv /\ [Next]_vars => [Final]_vars
    <2> SUFFICES ASSUME IInv, Next, slow = 0, NEW k \in Keys, task[k].status \in Finished
                 PROVE  task'[k].status = task[k].status \/ (task[k].old /\ task'[k].status = "none")
      BY DEF vars
    <2>0. \A d \in Dispatchers : batch[d][k] = NotHeld
      BY DEF IInv, CopiesExclusive, Open, Finished
    <2>1. ASSUME NEW j \in Keys, Enqueue(j) \/ ExpireDead(j) \/ ExpireSlow(j) \/ RetryDue(j) \/ Age(j)
          PROVE  task'[k].status = task[k].status
      BY <2>1 DEF Enqueue, ExpireDead, ExpireSlow, RetryDue, Age, IInv, TypeOK, Task, Finished
    <2>2. ASSUME NEW d \in Dispatchers, ClaimBatch(d) \/ Handle(d) \/ MarkFails(d) \/ Crash(d)
          PROVE  task'[k].status = task[k].status
      BY <2>2 DEF ClaimBatch, Handle, MarkFails, Crash, IInv, TypeOK, Task
    <2>3. ASSUME NEW d \in Dispatchers, Mark(d) \/ MarkNoHandler(d)
          PROVE  task'[k] = task[k]
      BY <2>0, <2>3 DEF Mark, MarkNoHandler, Held, IInv, TypeOK, ResultInHand
    <2>4. ASSUME NEW d \in Dispatchers, Sweep(d)
          PROVE  task'[k].status = task[k].status \/ (task[k].old /\ task'[k].status = "none")
      BY <2>4 DEF Sweep, Sweepable, NoTask
    <2> QED BY <2>1, <2>2, <2>3, <2>4 DEF Next, Work
  <1>2. Spec => [][Final]_vars
    BY <1>1, TaskBusInvariance, PTL DEF Spec
  <1> QED BY <1>2 DEF TerminalIsFinal
=============================================================================
