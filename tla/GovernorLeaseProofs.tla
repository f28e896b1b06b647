------------------------ MODULE GovernorLeaseProofs ------------------------
(***************************************************************************)
(* The concurrency lease keeps its cap and its deadlines for any requests, *)
(* any limit and any times with 2 * CallTime + Second <= Interval.         *)
(***************************************************************************)
EXTENDS GovernorLease, FiniteSetTheorems, TLAPS

Renewing == {"renew", "renewed", "absent"}

\* Only a running stream has clocks.
Quiet(r) ==
  phase[r] # "run" => armed[r] = 0 /\ misses[r] = 0 /\ unheld[r] = 0 /\ due[r] = 0

\* Which call may be under way in which phase.
CallPhases(r) ==
  /\ call[r].kind = "none" => call[r].age = 0
  /\ call[r].kind = "granted" => phase[r] = "wait"
  /\ call[r].kind \in Renewing => phase[r] \in {"run", "ended"}

\* The token of a grant or a renewal whose reply is under way is as young as
\* the call; Acquire adds at most what its second had passed.
ReplyFresh(r) ==
  /\ call[r].kind = "granted" =>
       /\ score[r] # NoToken /\ score[r] <= call[r].age + Second - 1
       /\ keyLeft >= TTL - call[r].age
  /\ (call[r].kind = "renewed" /\ phase[r] = "run") =>
       /\ score[r] # NoToken /\ score[r] <= call[r].age
       /\ keyLeft >= TTL - call[r].age

\* How far lastArmed lies back: the ticker is reset at each call, and every
\* missed renewal adds an interval, until the loop gives up.
Cadence(r) ==
  phase[r] = "run" =>
    /\ call[r].kind = "none" =>
         /\ misses[r] = 0 => armed[r] + due[r] <= Interval
         /\ misses[r] = 1 => armed[r] + due[r] <= 2 * Interval
         /\ armed[r] + due[r] <= TTL + Interval - 1
    /\ call[r].kind # "none" =>
         /\ due[r] = Interval - call[r].age
         /\ misses[r] = 0 => armed[r] - call[r].age <= Interval
         /\ misses[r] = 1 => armed[r] - call[r].age <= 2 * Interval
         /\ armed[r] - call[r].age <= TTL + Interval - 1

\* The token and the key are hardly older than lastArmed.
TokenAge(r) ==
  phase[r] = "run" =>
    /\ score[r] <= armed[r] + CallTime + Second - 1
    /\ keyLeft >= TTL - armed[r] - CallTime

\* A token is lost late, so a stream without one is old.
LostLate(r) ==
  phase[r] = "run" =>
    /\ score[r] # NoToken => unheld[r] = 0
    /\ score[r] = NoToken => unheld[r] + TTL - CallTime - Second + 1 <= armed[r]

\* OneMissTolerated, of one request.
Tolerant(r) == (phase[r] = "run" /\ misses[r] <= 1) => score[r] # NoToken

Leased(r) ==
  Quiet(r) /\ CallPhases(r) /\ ReplyFresh(r) /\ Cadence(r) /\ TokenAge(r) /\ LostLate(r) /\ Tolerant(r)

\* There are never more tokens than the limit.
TokensCapped == IsFiniteSet(Tokens(score)) /\ Cardinality(Tokens(score)) <= Limit

IInv ==
  /\ TypeOK
  /\ \A r \in Requests : Leased(r)
  /\ TokensCapped

-----------------------------------------------------------------------------
\* The constants as numbers.
LEMMA Times ==
  /\ Interval \in Nat /\ Second \in Nat /\ CallTime \in Nat /\ Limit \in Nat /\ TTL \in Nat
  /\ Second >= 1 /\ Limit >= 1 /\ TTL = 3 * Interval /\ 2 * CallTime + Second <= Interval
  /\ NoToken = -1
  BY GovernorAssumption DEF TTL, NoToken

\* What TypeOK says of one request.
Typed(r) ==
  /\ sub \in Nat /\ sub <= Second - 1 /\ keyLeft \in Nat /\ keyLeft <= TTL
  /\ score[r] \in Int /\ score[r] >= -1 /\ score[r] <= TTL + Second
  /\ phase[r] \in Phases
  /\ call[r].kind \in Calls /\ call[r].age \in Nat /\ call[r].age <= CallTime
  /\ call[r] = [kind |-> call[r].kind, age |-> call[r].age]
  /\ due[r] \in Nat /\ due[r] <= Interval
  /\ armed[r] \in Nat /\ armed[r] <= TTL + Interval + CallTime
  /\ misses[r] \in Nat /\ unheld[r] \in Nat

\* Types, request by request.
LEMMA Types == ASSUME TypeOK, NEW r \in Requests PROVE Typed(r)
  BY Times DEF TypeOK, Typed

\* A request without a call has the record NoCall, and no other has it.
LEMMA CallRecord ==
  ASSUME NEW r \in Requests, Typed(r), CallPhases(r)
  PROVE  (call[r] = NoCall) <=> (call[r].kind = "none")
  BY DEF Typed, CallPhases, NoCall

\* Init establishes the invariant.
LEMMA InitIInv == Init => IInv
  <1> SUFFICES ASSUME Init PROVE IInv
    OBVIOUS
  <1>1. TypeOK
    BY Times DEF Init, TypeOK, NoCall, Calls, Phases
  <1>2. \A r \in Requests : Leased(r)
    BY Times DEF Init, Leased, Quiet, CallPhases, ReplyFresh, Cadence, TokenAge, LostLate, Tolerant,
       NoCall, Renewing
  <1>3. Tokens(score) = {}
    BY DEF Init, Tokens
  <1>4. TokensCapped
    BY <1>3, FS_EmptySet, Times DEF TokensCapped
  <1> QED BY <1>1, <1>2, <1>4 DEF IInv

\* A request that does not take part in a step may lose its token to the
\* pruning of an Acquire, but only when it is old, and its key may live longer.
LEMMA Bystander ==
  ASSUME IInv, NEW q \in Requests,
         phase'[q] = phase[q], call'[q] = call[q], due'[q] = due[q], armed'[q] = armed[q],
         misses'[q] = misses[q], unheld'[q] = unheld[q],
         \/ score'[q] = score[q]
         \/ score[q] >= TTL + sub /\ score'[q] = NoToken,
         keyLeft' \in Int, keyLeft' >= keyLeft
  PROVE  Leased(q)'
  <1>1. Leased(q)
    BY DEF IInv
  <1>2. Typed(q)
    BY Types DEF IInv
  <1>3. CASE score'[q] = score[q]
    <2>1. Quiet(q)' /\ CallPhases(q)' /\ Cadence(q)' /\ LostLate(q)' /\ Tolerant(q)'
      BY <1>1, <1>3 DEF Leased, Quiet, CallPhases, Cadence, LostLate, Tolerant
    <2>2. ReplyFresh(q)'
      BY <1>1, <1>2, <1>3, Times DEF Leased, ReplyFresh, Typed
    <2>3. TokenAge(q)'
      BY <1>1, <1>2, <1>3, Times DEF Leased, TokenAge, Typed
    <2> QED BY <2>1, <2>2, <2>3 DEF Leased
  <1>4. CASE score[q] >= TTL + sub /\ score'[q] = NoToken
    <2>1. Quiet(q)' /\ CallPhases(q)' /\ Cadence(q)'
      BY <1>1 DEF Leased, Quiet, CallPhases, Cadence
    <2>2. ReplyFresh(q)'
      BY <1>1, <1>2, <1>4, Times DEF Leased, ReplyFresh, Typed
    <2>3. TokenAge(q)' /\ LostLate(q)'
      BY <1>1, <1>2, <1>4, Times DEF Leased, TokenAge, LostLate, Typed
    <2>4. Tolerant(q)'
      BY <1>1, <1>2, <1>4, Times DEF Leased, Tolerant, TokenAge, Cadence, Typed
    <2> QED BY <2>1, <2>2, <2>3, <2>4 DEF Leased
  <1> QED BY <1>3, <1>4

\* A step that adds no token keeps the cap.
LEMMA FewerTokens ==
  ASSUME TokensCapped, Tokens(score)' \subseteq Tokens(score)
  PROVE  TokensCapped'
  <1>1. /\ IsFiniteSet(Tokens(score)') /\ Cardinality(Tokens(score)') <= Cardinality(Tokens(score))
    BY FS_Subset DEF TokensCapped
  <1>2. Cardinality(Tokens(score)') \in Nat /\ Cardinality(Tokens(score)) \in Nat
    BY <1>1, FS_CardinalityType DEF TokensCapped
  <1> QED BY <1>1, <1>2, Times DEF TokensCapped

\* A request that is not streaming and has no call under way needs nothing.
LEMMA Idle ==
  ASSUME NEW r \in Requests, phase'[r] # "run", call'[r] = NoCall,
         armed'[r] = 0, misses'[r] = 0, unheld'[r] = 0, due'[r] = 0
  PROVE  Leased(r)'
  BY DEF Leased, Quiet, CallPhases, ReplyFresh, Cadence, TokenAge, LostLate, Tolerant, NoCall, Renewing

\* A stream that is over needs nothing either, whatever its last renewal does.
LEMMA Ended ==
  ASSUME NEW r \in Requests, CallPhases(r), phase'[r] = "ended", phase[r] \in {"run", "ended"},
         call'[r] = call[r], armed'[r] = 0, misses'[r] = 0, unheld'[r] = 0, due'[r] = 0
  PROVE  Leased(r)'
  BY DEF Leased, Quiet, CallPhases, ReplyFresh, Cadence, TokenAge, LostLate, Tolerant, Renewing

\* Over and Out, request by request.
LEMMA OverTypes ==
  ASSUME TypeOK, NEW r \in Requests, NEW p \in Phases, Over(r, p)
  PROVE  /\ phase' \in [Requests -> Phases] /\ due' \in [Requests -> 0..Interval]
         /\ armed' \in [Requests -> 0..TTL + Interval + CallTime]
         /\ misses' \in [Requests -> Nat] /\ unheld' \in [Requests -> Nat]
         /\ phase'[r] = p /\ due'[r] = 0 /\ armed'[r] = 0 /\ misses'[r] = 0 /\ unheld'[r] = 0
         /\ \A q \in Requests \ {r} : /\ phase'[q] = phase[q] /\ due'[q] = due[q] /\ armed'[q] = armed[q]
                                      /\ misses'[q] = misses[q] /\ unheld'[q] = unheld[q]
  BY Times DEF TypeOK, Over

\* NoCall is a call.
LEMMA NoCallTypes ==
  ASSUME TypeOK, NEW r \in Requests, call' = [call EXCEPT ![r] = NoCall]
  PROVE  /\ call' \in [Requests -> [kind : Calls, age : 0..CallTime]] /\ call'[r] = NoCall
         /\ \A q \in Requests \ {r} : call'[q] = call[q]
  <1>1. NoCall \in [kind : Calls, age : 0..CallTime]
    BY Times DEF NoCall, Calls
  <1> QED BY <1>1 DEF TypeOK

\* A request that goes out leaves the invariant as it is.
LEMMA OutStep ==
  ASSUME IInv, NEW r \in Requests, Out(r), UNCHANGED <<sub, keyLeft>>,
         score' \in {score, [score EXCEPT ![r] = NoToken]}
  PROVE  IInv'
  <1>1. TypeOK /\ TokensCapped
    BY DEF IInv
  <1>2. "out" \in Phases
    BY DEF Phases
  <1>3. Over(r, "out") /\ call' = [call EXCEPT ![r] = NoCall]
    BY DEF Out
  <1>4. score' \in [Requests -> {NoToken} \cup 0..TTL + Second]
    BY <1>1 DEF TypeOK
  <1>5. \A q \in Requests : q # r => score'[q] = score[q]
    BY <1>1 DEF TypeOK
  <1>6. TypeOK'
    BY <1>1, <1>2, <1>3, <1>4, OverTypes, NoCallTypes DEF TypeOK
  <1>7. keyLeft' \in Int /\ keyLeft' >= keyLeft
    BY <1>1, Times DEF TypeOK
  <1>8. \A q \in Requests : Leased(q)'
    <2> SUFFICES ASSUME NEW q \in Requests PROVE Leased(q)'
      OBVIOUS
    <2>1. CASE q = r
      BY <2>1, <1>1, <1>2, <1>3, OverTypes, NoCallTypes, Idle
    <2>2. CASE q # r
      <3>1. /\ phase'[q] = phase[q] /\ call'[q] = call[q] /\ due'[q] = due[q] /\ armed'[q] = armed[q]
            /\ misses'[q] = misses[q] /\ unheld'[q] = unheld[q] /\ score'[q] = score[q]
        BY <2>2, <1>1, <1>2, <1>3, <1>5, OverTypes, NoCallTypes
      <3> QED BY <3>1, <1>7, Bystander
    <2> QED BY <2>1, <2>2
  <1>9. Tokens(score)' \subseteq Tokens(score)
    BY <1>1 DEF TypeOK, Tokens
  <1> QED BY <1>1, <1>6, <1>8, <1>9, FewerTokens DEF IInv

-----------------------------------------------------------------------------
\* What the steps of a single request have in common: the others stand by.
LEMMA Steps ==
  ASSUME IInv, NEW r \in Requests, TypeOK', Leased(r)', Tokens(score)' \subseteq Tokens(score),
         keyLeft' >= keyLeft,
         \A q \in Requests \ {r} :
           /\ phase'[q] = phase[q] /\ call'[q] = call[q] /\ due'[q] = due[q] /\ armed'[q] = armed[q]
           /\ misses'[q] = misses[q] /\ unheld'[q] = unheld[q] /\ score'[q] = score[q]
  PROVE  IInv'
  <1>1. keyLeft' \in Int
    BY Times DEF TypeOK
  <1>2. \A q \in Requests : Leased(q)'
    <2> SUFFICES ASSUME NEW q \in Requests, q # r PROVE Leased(q)'
      OBVIOUS
    <2> QED BY <1>1, Bystander
  <1>3. TokensCapped'
    BY FewerTokens DEF IInv
  <1> QED BY <1>2, <1>3 DEF IInv

\* A request is taken from the queue.
LEMMA DequeueStep == ASSUME IInv, NEW r \in Requests, Dequeue(r) PROVE IInv'
  <1>1. TypeOK /\ Leased(r) /\ Typed(r)
    BY Types DEF IInv
  <1>2. TypeOK'
    BY <1>1 DEF TypeOK, Dequeue, Phases, redis, loop
  <1>3. call[r].kind = "none" /\ call[r] = NoCall
    BY <1>1, CallRecord DEF Leased, CallPhases, Dequeue, Renewing, Typed, Calls
  <1>4. Leased(r)'
    BY <1>1, <1>3, Idle DEF Dequeue, loop, Leased, Quiet, TypeOK
  <1>5. keyLeft' >= keyLeft /\ Tokens(score)' \subseteq Tokens(score)
    BY <1>1 DEF Dequeue, redis, Tokens, Typed
  <1>6. \A q \in Requests \ {r} :
           /\ phase'[q] = phase[q] /\ call'[q] = call[q] /\ due'[q] = due[q] /\ armed'[q] = armed[q]
           /\ misses'[q] = misses[q] /\ unheld'[q] = unheld[q] /\ score'[q] = score[q]
    BY <1>1 DEF Dequeue, redis, loop, TypeOK
  <1> QED BY <1>2, <1>4, <1>5, <1>6, Steps

\* The grant arrives; the token is as old as the call, and a second.
LEMMA AcquireReturnsStep == ASSUME IInv, NEW r \in Requests, AcquireReturns(r) PROVE IInv'
  <1>1. TypeOK /\ Leased(r) /\ Typed(r)
    BY Types DEF IInv
  <1>2. /\ call' = [call EXCEPT ![r] = NoCall] /\ call'[r] = NoCall
        /\ call' \in [Requests -> [kind : Calls, age : 0..CallTime]]
    BY <1>1, NoCallTypes DEF AcquireReturns
  <1>3. TypeOK'
    BY <1>1, <1>2, Times DEF TypeOK, AcquireReturns, Phases, redis
  <1>4. /\ armed[r] = 0 /\ misses[r] = 0 /\ unheld[r] = 0 /\ due[r] = 0
    BY <1>1 DEF Leased, Quiet, AcquireReturns
  <1>5. /\ armed'[r] = 0 /\ misses'[r] = 0 /\ unheld'[r] = 0
        /\ score'[r] = score[r] /\ keyLeft' = keyLeft
    BY <1>4 DEF AcquireReturns, redis
  <1>6. ASSUME phase' = [phase EXCEPT ![r] = "run"], due' = [due EXCEPT ![r] = Interval]
        PROVE  Leased(r)'
    <2>1. phase'[r] = "run" /\ due'[r] = Interval
      BY <1>1, <1>6 DEF TypeOK
    <2>2. /\ score[r] # NoToken /\ score[r] <= CallTime + Second - 1 /\ keyLeft >= TTL - CallTime
      BY <1>1, Times DEF Leased, ReplyFresh, AcquireReturns, Typed
    <2>3. Quiet(r)' /\ CallPhases(r)' /\ ReplyFresh(r)' /\ Tolerant(r)'
      BY <1>2, <1>5, <2>1, <2>2 DEF Quiet, CallPhases, ReplyFresh, Tolerant, NoCall, Renewing
    <2>4. Cadence(r)'
      BY <1>2, <1>5, <2>1, Times DEF Cadence, NoCall
    <2>5. TokenAge(r)' /\ LostLate(r)'
      BY <1>1, <1>5, <2>1, <2>2, Times DEF TokenAge, LostLate, Typed
    <2> QED BY <2>3, <2>4, <2>5 DEF Leased
  <1>7. ASSUME phase' = [phase EXCEPT ![r] = "ended"], UNCHANGED due
        PROVE  Leased(r)'
    <2>1. phase'[r] = "ended" /\ due'[r] = 0
      BY <1>1, <1>4, <1>7 DEF TypeOK
    <2> QED BY <1>2, <1>5, <2>1, Idle
  <1>8. Leased(r)'
    BY <1>6, <1>7 DEF AcquireReturns
  <1>9. keyLeft' >= keyLeft /\ Tokens(score)' \subseteq Tokens(score)
    BY <1>1 DEF AcquireReturns, redis, Tokens, Typed
  <1>10. \A q \in Requests \ {r} :
           /\ phase'[q] = phase[q] /\ call'[q] = call[q] /\ due'[q] = due[q] /\ armed'[q] = armed[q]
           /\ misses'[q] = misses[q] /\ unheld'[q] = unheld[q] /\ score'[q] = score[q]
    BY <1>1, <1>2 DEF AcquireReturns, redis, TypeOK
  <1> QED BY <1>3, <1>8, <1>9, <1>10, Steps

\* The ticker fires: the miss that may follow is an interval after the last.
LEMMA RenewCalledStep == ASSUME IInv, NEW r \in Requests, RenewCalled(r) PROVE IInv'
  <1>1. TypeOK /\ Leased(r) /\ Typed(r)
    BY Types DEF IInv
  <1>2. Called("renew") \in [kind : Calls, age : 0..CallTime]
    BY Times DEF Called, Calls
  <1>3. TypeOK'
    BY <1>1, <1>2, Times DEF TypeOK, RenewCalled, redis
  <1>4. /\ call'[r].kind = "renew" /\ call'[r].age = 0 /\ due'[r] = Interval
        /\ phase'[r] = "run" /\ phase[r] = "run" /\ armed'[r] = armed[r] /\ misses'[r] = misses[r]
        /\ unheld'[r] = unheld[r] /\ score'[r] = score[r] /\ keyLeft' = keyLeft
    BY <1>1 DEF RenewCalled, Called, TypeOK, redis
  <1>5. due[r] = 0 /\ call[r].kind = "none"
    BY DEF RenewCalled, NoCall
  <1>6. Quiet(r)' /\ CallPhases(r)' /\ ReplyFresh(r)' /\ Tolerant(r)' /\ TokenAge(r)' /\ LostLate(r)'
    BY <1>1, <1>4 DEF Leased, Quiet, CallPhases, ReplyFresh, Tolerant, TokenAge, LostLate, Renewing
  <1>7. Cadence(r)'
    BY <1>1, <1>4, <1>5, Times DEF Leased, Cadence, Typed
  <1>8. Leased(r)'
    BY <1>6, <1>7 DEF Leased
  <1>9. keyLeft' >= keyLeft /\ Tokens(score)' \subseteq Tokens(score)
    BY <1>1 DEF RenewCalled, redis, Tokens, Typed
  <1>10. \A q \in Requests \ {r} :
           /\ phase'[q] = phase[q] /\ call'[q] = call[q] /\ due'[q] = due[q] /\ armed'[q] = armed[q]
           /\ misses'[q] = misses[q] /\ unheld'[q] = unheld[q] /\ score'[q] = score[q]
    BY <1>1 DEF RenewCalled, redis, TypeOK
  <1> QED BY <1>3, <1>8, <1>9, <1>10, Steps

\* The script re-arms a token that is still there, and never adds one.
LEMMA RenewScriptStep == ASSUME IInv, NEW r \in Requests, RenewScript(r) PROVE IInv'
  <1>1. TypeOK /\ Leased(r) /\ Typed(r)
    BY Types DEF IInv
  <1>2. /\ phase'[r] = phase[r] /\ due'[r] = due[r] /\ armed'[r] = armed[r]
        /\ misses'[r] = misses[r] /\ unheld'[r] = unheld[r]
    BY DEF RenewScript, loop
  <1>3. CASE score[r] # NoToken
    <2>1. /\ score' = [score EXCEPT ![r] = 0] /\ keyLeft' = TTL
          /\ call' = [call EXCEPT ![r].kind = "renewed"]
      BY <1>3 DEF RenewScript, Rearmed
    <2>2. /\ score'[r] = 0 /\ call'[r].kind = "renewed" /\ call'[r].age = call[r].age
      BY <1>1, <2>1 DEF TypeOK
    <2>3. call' \in [Requests -> [kind : Calls, age : 0..CallTime]]
      BY <1>1, <2>1 DEF TypeOK, Calls
    <2>4. TypeOK'
      BY <1>1, <2>1, <2>3, Times DEF TypeOK, RenewScript, loop
    <2>5. Quiet(r)' /\ CallPhases(r)'
      BY <1>1, <1>2, <2>2 DEF Leased, Quiet, CallPhases, Renewing, RenewScript
    <2>6. ReplyFresh(r)'
      BY <1>1, <1>2, <2>1, <2>2, Times DEF ReplyFresh, Typed
    <2>7. Cadence(r)'
      BY <1>1, <1>2, <2>2 DEF Leased, Cadence, RenewScript
    <2>8. TokenAge(r)' /\ LostLate(r)' /\ Tolerant(r)'
      BY <1>1, <1>2, <1>3, <2>1, <2>2, Times DEF Leased, TokenAge, LostLate, Tolerant, Typed
    <2>9. Leased(r)'
      BY <2>5, <2>6, <2>7, <2>8 DEF Leased
    <2>10. keyLeft' >= keyLeft /\ Tokens(score)' \subseteq Tokens(score)
      BY <1>1, <1>3, <2>1, Times DEF Tokens, Typed, TypeOK
    <2>11. \A q \in Requests \ {r} :
           /\ phase'[q] = phase[q] /\ call'[q] = call[q] /\ due'[q] = due[q] /\ armed'[q] = armed[q]
           /\ misses'[q] = misses[q] /\ unheld'[q] = unheld[q] /\ score'[q] = score[q]
      BY <1>1, <2>1 DEF RenewScript, loop, TypeOK
    <2> QED BY <2>4, <2>9, <2>10, <2>11, Steps
  <1>4. CASE score[r] = NoToken
    <2>1. /\ score' = score /\ keyLeft' = keyLeft /\ call' = [call EXCEPT ![r].kind = "absent"]
      BY <1>4 DEF RenewScript
    <2>2. /\ call'[r].kind = "absent" /\ call'[r].age = call[r].age
      BY <1>1, <2>1 DEF TypeOK
    <2>3. call' \in [Requests -> [kind : Calls, age : 0..CallTime]]
      BY <1>1, <2>1 DEF TypeOK, Calls
    <2>4. TypeOK'
      BY <1>1, <2>1, <2>3 DEF TypeOK, RenewScript, loop
    <2>5. Quiet(r)' /\ CallPhases(r)' /\ ReplyFresh(r)'
      BY <1>1, <1>2, <2>2 DEF Leased, Quiet, CallPhases, ReplyFresh, Renewing, RenewScript
    <2>6. Cadence(r)' /\ TokenAge(r)' /\ LostLate(r)' /\ Tolerant(r)'
      BY <1>1, <1>2, <2>1, <2>2 DEF Leased, Cadence, TokenAge, LostLate, Tolerant, RenewScript
    <2>7. Leased(r)'
      BY <2>5, <2>6 DEF Leased
    <2>8. keyLeft' >= keyLeft /\ Tokens(score)' \subseteq Tokens(score)
      BY <1>1, <2>1 DEF Tokens, Typed
    <2>9. \A q \in Requests \ {r} :
           /\ phase'[q] = phase[q] /\ call'[q] = call[q] /\ due'[q] = due[q] /\ armed'[q] = armed[q]
           /\ misses'[q] = misses[q] /\ unheld'[q] = unheld[q] /\ score'[q] = score[q]
      BY <1>1, <2>1 DEF RenewScript, loop, TypeOK
    <2> QED BY <2>4, <2>7, <2>8, <2>9, Steps
  <1> QED BY <1>3, <1>4

\* The answer of a renewal: a token that was there is as young as the call; a
\* stream whose token was gone is over.
LEMMA RenewReturnsStep == ASSUME IInv, NEW r \in Requests, RenewReturns(r) PROVE IInv'
  <1>1. TypeOK /\ Leased(r) /\ Typed(r)
    BY Types DEF IInv
  <1>2. /\ call'[r] = NoCall /\ call' \in [Requests -> [kind : Calls, age : 0..CallTime]]
        /\ \A q \in Requests \ {r} : call'[q] = call[q]
    BY <1>1, NoCallTypes DEF RenewReturns
  <1>3. /\ score' = score /\ keyLeft' = keyLeft /\ sub' = sub
    BY DEF RenewReturns, redis
  <1>4. keyLeft' >= keyLeft /\ Tokens(score)' \subseteq Tokens(score)
    BY <1>1, <1>3 DEF Tokens, Typed
  <1>5. CASE call[r].kind = "absent"
    <2>1. Over(r, "ended") /\ "ended" \in Phases
      BY <1>5 DEF RenewReturns, Phases
    <2>2. TypeOK'
      BY <1>1, <1>2, <1>3, <2>1, OverTypes DEF TypeOK
    <2>3. Leased(r)'
      BY <1>1, <1>2, <2>1, OverTypes, Idle
    <2>4. \A q \in Requests \ {r} :
           /\ phase'[q] = phase[q] /\ call'[q] = call[q] /\ due'[q] = due[q] /\ armed'[q] = armed[q]
           /\ misses'[q] = misses[q] /\ unheld'[q] = unheld[q] /\ score'[q] = score[q]
      BY <1>1, <1>2, <1>3, <2>1, OverTypes
    <2> QED BY <1>4, <2>2, <2>3, <2>4, Steps
  <1>6. CASE call[r].kind = "renewed"
    <2>1. /\ armed' = [armed EXCEPT ![r] = 0] /\ misses' = [misses EXCEPT ![r] = 0]
          /\ UNCHANGED <<phase, due, unheld>>
      BY <1>6 DEF RenewReturns
    <2>2. TypeOK'
      BY <1>1, <1>2, <1>3, <2>1, Times DEF TypeOK
    <2>3. /\ armed'[r] = 0 /\ misses'[r] = 0 /\ phase'[r] = phase[r] /\ due'[r] = due[r]
          /\ unheld'[r] = unheld[r] /\ score'[r] = score[r]
      BY <1>1, <1>3, <2>1 DEF TypeOK
    <2>4. Quiet(r)' /\ CallPhases(r)' /\ ReplyFresh(r)'
      BY <1>1, <1>2, <2>3 DEF Leased, Quiet, CallPhases, ReplyFresh, NoCall, Renewing
    <2>5. Cadence(r)'
      BY <1>1, <1>2, <2>3, Times DEF Cadence, NoCall, Typed
    <2>6. phase[r] = "run" =>
            /\ score[r] # NoToken /\ score[r] <= CallTime /\ keyLeft >= TTL - CallTime
      BY <1>1, <1>6, Times DEF Leased, ReplyFresh, Typed
    <2>7. TokenAge(r)' /\ LostLate(r)' /\ Tolerant(r)'
      BY <1>1, <1>3, <2>3, <2>6, Times DEF Leased, TokenAge, LostLate, Tolerant, Typed
    <2>8. Leased(r)'
      BY <2>4, <2>5, <2>7 DEF Leased
    <2>9. \A q \in Requests \ {r} :
           /\ phase'[q] = phase[q] /\ call'[q] = call[q] /\ due'[q] = due[q] /\ armed'[q] = armed[q]
           /\ misses'[q] = misses[q] /\ unheld'[q] = unheld[q] /\ score'[q] = score[q]
      BY <1>1, <1>2, <1>3, <2>1 DEF TypeOK
    <2> QED BY <1>4, <2>2, <2>8, <2>9, Steps
  <1> QED BY <1>5, <1>6 DEF RenewReturns

\* A renewal that fails counts as a miss until a whole TTL has passed.
LEMMA RenewFailsStep == ASSUME IInv, NEW r \in Requests, RenewFails(r) PROVE IInv'
  <1>1. TypeOK /\ Leased(r) /\ Typed(r)
    BY Types DEF IInv
  <1>2. /\ call'[r] = NoCall /\ call' \in [Requests -> [kind : Calls, age : 0..CallTime]]
        /\ \A q \in Requests \ {r} : call'[q] = call[q]
    BY <1>1, NoCallTypes DEF RenewFails
  <1>3. /\ score' = score /\ keyLeft' = keyLeft /\ sub' = sub
    BY DEF RenewFails, redis
  <1>4. keyLeft' >= keyLeft /\ Tokens(score)' \subseteq Tokens(score)
    BY <1>1, <1>3 DEF Tokens, Typed
  <1>5. CASE phase[r] = "ended" \/ TooLate(r)
    <2>1. Over(r, "ended") /\ "ended" \in Phases
      BY <1>5 DEF RenewFails, Phases
    <2>2. TypeOK'
      BY <1>1, <1>2, <1>3, <2>1, OverTypes DEF TypeOK
    <2>3. Leased(r)'
      BY <1>1, <1>2, <2>1, OverTypes, Idle
    <2>4. \A q \in Requests \ {r} :
           /\ phase'[q] = phase[q] /\ call'[q] = call[q] /\ due'[q] = due[q] /\ armed'[q] = armed[q]
           /\ misses'[q] = misses[q] /\ unheld'[q] = unheld[q] /\ score'[q] = score[q]
      BY <1>1, <1>2, <1>3, <2>1, OverTypes
    <2> QED BY <1>4, <2>2, <2>3, <2>4, Steps
  <1>6. CASE ~(phase[r] = "ended" \/ TooLate(r))
    <2>1. misses' = [misses EXCEPT ![r] = @ + 1] /\ UNCHANGED <<phase, due, armed, unheld>>
      BY <1>6 DEF RenewFails
    <2>2. TypeOK'
      BY <1>1, <1>2, <1>3, <2>1 DEF TypeOK
    <2>3. /\ phase[r] = "run" /\ armed[r] < TTL /\ call[r].kind # "none"
      BY <1>1, <1>6, Times DEF Leased, CallPhases, Renewing, RenewFails, TooLate, Typed
    <2>4. /\ misses'[r] = misses[r] + 1 /\ armed'[r] = armed[r] /\ phase'[r] = "run"
          /\ due'[r] = due[r] /\ unheld'[r] = unheld[r] /\ score'[r] = score[r]
      BY <1>1, <1>3, <2>1, <2>3 DEF TypeOK
    <2>5. Quiet(r)' /\ CallPhases(r)' /\ ReplyFresh(r)'
      BY <1>1, <1>2, <2>3, <2>4 DEF Quiet, CallPhases, ReplyFresh, NoCall, Renewing
    <2>6. Cadence(r)'
      BY <1>1, <1>2, <2>3, <2>4, Times DEF Leased, Cadence, NoCall, Typed
    <2>7. TokenAge(r)' /\ LostLate(r)'
      BY <1>1, <1>3, <2>3, <2>4 DEF Leased, TokenAge, LostLate
    <2>8. Tolerant(r)'
      BY <1>1, <2>3, <2>4 DEF Leased, Tolerant, Typed
    <2>9. Leased(r)'
      BY <2>5, <2>6, <2>7, <2>8 DEF Leased
    <2>10. \A q \in Requests \ {r} :
           /\ phase'[q] = phase[q] /\ call'[q] = call[q] /\ due'[q] = due[q] /\ armed'[q] = armed[q]
           /\ misses'[q] = misses[q] /\ unheld'[q] = unheld[q] /\ score'[q] = score[q]
      BY <1>1, <1>2, <1>3, <2>1 DEF TypeOK
    <2> QED BY <1>4, <2>2, <2>9, <2>10, Steps
  <1> QED BY <1>5, <1>6

\* The upstream call ends; a renewal may still be under way.
LEMMA ForwardEndsStep == ASSUME IInv, NEW r \in Requests, ForwardEnds(r) PROVE IInv'
  <1>1. TypeOK /\ Leased(r) /\ Typed(r)
    BY Types DEF IInv
  <1>2. Over(r, "ended") /\ "ended" \in Phases /\ UNCHANGED <<sub, score, keyLeft, call>>
    BY DEF ForwardEnds, Phases, redis
  <1>3. TypeOK'
    BY <1>1, <1>2, OverTypes DEF TypeOK
  <1>4. Leased(r)'
    BY <1>1, <1>2, OverTypes, Ended DEF ForwardEnds, Leased
  <1>5. keyLeft' >= keyLeft /\ Tokens(score)' \subseteq Tokens(score)
    BY <1>1, <1>2 DEF Tokens, Typed
  <1>6. \A q \in Requests \ {r} :
           /\ phase'[q] = phase[q] /\ call'[q] = call[q] /\ due'[q] = due[q] /\ armed'[q] = armed[q]
           /\ misses'[q] = misses[q] /\ unheld'[q] = unheld[q] /\ score'[q] = score[q]
    BY <1>1, <1>2, OverTypes
  <1> QED BY <1>3, <1>4, <1>5, <1>6, Steps

\* A failed Acquire, a Release and a crash take the request out.
LEMMA LeavingStep ==
  ASSUME IInv, NEW r \in Requests, AcquireFails(r) \/ Release(r) \/ Crash(r)
  PROVE  IInv'
  <1>1. Out(r) /\ UNCHANGED <<sub, keyLeft>> /\ score' \in {score, [score EXCEPT ![r] = NoToken]}
    BY DEF AcquireFails, Release, Crash, redis
  <1> QED BY <1>1, OutStep

\* What the pruning of Acquire leaves.
LEMMA PrunedTypes ==
  ASSUME TypeOK
  PROVE  /\ Pruned \in [Requests -> {NoToken} \cup 0..TTL + Second]
         /\ \A q \in Requests : \/ Pruned[q] = score[q]
                                \/ score[q] >= TTL + sub /\ Pruned[q] = NoToken
         /\ Tokens(Pruned) \subseteq Tokens(score)
  BY DEF TypeOK, Pruned, Tokens

\* Acquire prunes the old tokens and adds one only below the limit.
LEMMA GrantStep == ASSUME IInv, NEW r \in Requests, Grant(r) PROVE IInv'
  <1>1. TypeOK /\ Leased(r) /\ Typed(r) /\ TokensCapped
    BY Types DEF IInv
  <1>2. /\ phase' = phase /\ sub' = sub /\ due' = due /\ armed' = armed /\ misses' = misses
        /\ unheld' = unheld
    BY DEF Grant, loop
  <1>3. /\ IsFiniteSet(Tokens(Pruned)) /\ Cardinality(Tokens(Pruned)) <= Cardinality(Tokens(score))
        /\ Cardinality(Tokens(Pruned)) \in Nat /\ Cardinality(Tokens(score)) \in Nat
    BY <1>1, PrunedTypes, FS_Subset, FS_CardinalityType DEF TokensCapped
  <1>4. /\ score' = [Pruned EXCEPT ![r] = sub] /\ keyLeft' = TTL
        /\ call' = [call EXCEPT ![r] = Called("granted")]
    BY DEF Grant
  <1>5. Called("granted") \in [kind : Calls, age : 0..CallTime]
    BY Times DEF Called, Calls
  <1>6. sub \in 0..TTL + Second
    BY <1>1, Times DEF Typed
  <1>7. score' \in [Requests -> {NoToken} \cup 0..TTL + Second]
    BY <1>1, <1>4, <1>6, PrunedTypes
  <1>8. TypeOK'
    BY <1>1, <1>2, <1>4, <1>5, <1>7, Times DEF TypeOK
  <1>9. /\ score'[r] = sub /\ call'[r].kind = "granted" /\ call'[r].age = 0
        /\ phase'[r] = "wait" /\ phase[r] = "wait"
    BY <1>1, <1>2, <1>4, PrunedTypes DEF TypeOK, Called, Grant
  <1>10. Leased(r)'
    <2>1. Quiet(r)' /\ CallPhases(r)' /\ Cadence(r)' /\ TokenAge(r)' /\ LostLate(r)' /\ Tolerant(r)'
      BY <1>1, <1>2, <1>9 DEF Leased, Quiet, CallPhases, Cadence, TokenAge, LostLate, Tolerant, Renewing
    <2>2. ReplyFresh(r)'
      BY <1>1, <1>4, <1>9, Times DEF ReplyFresh, Typed
    <2> QED BY <2>1, <2>2 DEF Leased
  <1>11. keyLeft' \in Int /\ keyLeft' >= keyLeft
    BY <1>1, <1>4, Times DEF Typed
  <1>12. \A q \in Requests : Leased(q)'
    <2> SUFFICES ASSUME NEW q \in Requests, q # r PROVE Leased(q)'
      BY <1>10
    <2>1. /\ phase'[q] = phase[q] /\ due'[q] = due[q] /\ armed'[q] = armed[q]
          /\ misses'[q] = misses[q] /\ unheld'[q] = unheld[q]
      BY <1>2
    <2>2. call'[q] = call[q] /\ score'[q] = Pruned[q]
      BY <1>1, <1>4, PrunedTypes DEF TypeOK
    <2> QED BY <1>1, <1>11, <2>1, <2>2, PrunedTypes, Bystander
  <1>13. Tokens(score)' \subseteq Tokens(Pruned) \cup {r}
    BY <1>1, <1>4, PrunedTypes DEF Tokens
  <1>14. /\ IsFiniteSet(Tokens(Pruned) \cup {r})
         /\ Cardinality(Tokens(Pruned) \cup {r}) <= Cardinality(Tokens(Pruned)) + 1
    <2>1. /\ IsFiniteSet(Tokens(Pruned) \cup {r})
          /\ Cardinality(Tokens(Pruned) \cup {r}) =
               IF r \in Tokens(Pruned) THEN Cardinality(Tokens(Pruned)) ELSE Cardinality(Tokens(Pruned)) + 1
      BY <1>3, FS_AddElement, Zenon
    <2> QED BY <1>3, <2>1
  <1>15. /\ IsFiniteSet(Tokens(score)')
         /\ Cardinality(Tokens(score)') <= Cardinality(Tokens(Pruned) \cup {r})
    BY <1>13, <1>14, FS_Subset
  <1>16. Cardinality(Tokens(score)') \in Nat /\ Cardinality(Tokens(Pruned) \cup {r}) \in Nat
    BY <1>14, <1>15, FS_CardinalityType
  <1>17. Cardinality(Tokens(score)') <= Limit
    BY <1>3, <1>14, <1>15, <1>16, Times DEF HasRoom, Grant
  <1> QED BY <1>8, <1>12, <1>15, <1>17 DEF IInv, TokensCapped

\* Above it, Acquire only prunes.
LEMMA RefuseStep == ASSUME IInv, NEW r \in Requests, Refuse(r) PROVE IInv'
  <1>1. TypeOK /\ Leased(r) /\ Typed(r) /\ TokensCapped
    BY Types DEF IInv
  <1>2. /\ phase' = phase /\ sub' = sub /\ due' = due /\ armed' = armed /\ misses' = misses
        /\ unheld' = unheld
    BY DEF Refuse, loop
  <1>3. score' = Pruned /\ keyLeft' = keyLeft /\ call' = call
    BY DEF Refuse
  <1>4. TypeOK'
    BY <1>1, <1>2, <1>3, PrunedTypes DEF TypeOK
  <1>5. keyLeft' \in Int /\ keyLeft' >= keyLeft
    BY <1>1, <1>3 DEF Typed
  <1>6. \A q \in Requests : Leased(q)'
    <2> SUFFICES ASSUME NEW q \in Requests PROVE Leased(q)'
      OBVIOUS
    <2>1. /\ phase'[q] = phase[q] /\ due'[q] = due[q] /\ armed'[q] = armed[q]
          /\ misses'[q] = misses[q] /\ unheld'[q] = unheld[q] /\ call'[q] = call[q]
          /\ score'[q] = Pruned[q]
      BY <1>2, <1>3
    <2> QED BY <1>1, <1>5, <2>1, PrunedTypes, Bystander
  <1>7. TokensCapped'
    BY <1>1, <1>3, PrunedTypes, FewerTokens
  <1> QED BY <1>4, <1>6, <1>7 DEF IInv

-----------------------------------------------------------------------------
\* While a stream has missed at most one renewal, or a reply is under way, its
\* key has more than one unit left: the clock cannot take the token.
LEMMA KeyLasts ==
  ASSUME NEW r \in Requests, Typed(r), Leased(r), InTime,
         \/ phase[r] = "run" /\ misses[r] <= 1
         \/ call[r].kind = "granted"
         \/ call[r].kind = "renewed" /\ phase[r] = "run"
  PROVE  keyLeft >= 2
  <1>1. call[r].kind # "none" => call[r].age < CallTime
    BY CallRecord DEF InTime, Leased
  <1>2. phase[r] = "run" => due[r] > 0
    BY DEF InTime
  <1>3. CASE phase[r] = "run" /\ misses[r] <= 1
    <2>1. keyLeft >= TTL - armed[r] - CallTime
      BY <1>3 DEF Leased, TokenAge
    <2>2. CASE call[r].kind = "none"
      <3>1. armed[r] + due[r] <= 2 * Interval
        BY <1>3, <2>2, Times DEF Leased, Cadence, Typed
      <3> QED BY <1>2, <1>3, <2>1, <3>1, Times DEF Typed
    <2>3. CASE call[r].kind # "none"
      <3>1. armed[r] - call[r].age <= 2 * Interval
        BY <1>3, <2>3, Times DEF Leased, Cadence, Typed
      <3> QED BY <1>1, <1>3, <2>1, <2>3, <3>1, Times DEF Typed
    <2> QED BY <2>2, <2>3
  <1>4. CASE call[r].kind = "granted" \/ (call[r].kind = "renewed" /\ phase[r] = "run")
    <2>1. keyLeft >= TTL - call[r].age
      BY <1>4 DEF Leased, ReplyFresh
    <2>2. call[r].age < CallTime
      BY <1>1, <1>4
    <2> QED BY <2>1, <2>2, Times DEF Typed
  <1> QED BY <1>3, <1>4

\* A unit of time, for one request.
LEMMA ClockLeased == ASSUME IInv, Clock, NEW r \in Requests PROVE Leased(r)'
  <1>1. TypeOK /\ Leased(r) /\ Typed(r)
    BY Types DEF IInv
  <1>2. /\ keyLeft' = IF keyLeft = 0 THEN 0 ELSE keyLeft - 1
        /\ score'[r] = IF score[r] = NoToken \/ keyLeft <= 1 THEN NoToken
                       ELSE IF score[r] = TTL + Second THEN score[r] ELSE score[r] + 1
        /\ due'[r] = IF phase[r] = "run" THEN due[r] - 1 ELSE due[r]
        /\ armed'[r] = IF phase[r] = "run" THEN armed[r] + 1 ELSE armed[r]
        /\ unheld'[r] = IF phase[r] = "run" /\ score[r] = NoToken THEN unheld[r] + 1 ELSE 0
        /\ phase'[r] = phase[r] /\ misses'[r] = misses[r]
    BY DEF Clock
  <1>3. InTime
    BY DEF Clock
  <1>4. /\ call'[r].kind = call[r].kind
        /\ call'[r].age = IF call[r].kind = "none" THEN 0 ELSE call[r].age + 1
    <2>1. CASE call[r] = NoCall
      BY <2>1 DEF Clock, NoCall
    <2>2. CASE call[r] # NoCall
      <3>1. call'[r] = [call[r] EXCEPT !.age = @ + 1] /\ call[r].kind # "none"
        BY <1>1, <2>2, CallRecord DEF Clock, Leased
      <3> QED BY <1>1, <3>1 DEF TypeOK
    <2> QED BY <2>1, <2>2
  <1>5. Quiet(r)' /\ CallPhases(r)'
    BY <1>1, <1>2, <1>4 DEF Leased, Quiet, CallPhases
  <1>6. ReplyFresh(r)'
    <2>1. CASE ~(call[r].kind = "granted" \/ (call[r].kind = "renewed" /\ phase[r] = "run"))
      BY <1>2, <1>4, <2>1 DEF ReplyFresh
    <2>2. CASE call[r].kind = "granted" \/ (call[r].kind = "renewed" /\ phase[r] = "run")
      <3>1. keyLeft >= 2
        BY <1>1, <1>3, <2>2, KeyLasts
      <3>2. /\ score[r] # NoToken /\ keyLeft >= TTL - call[r].age
            /\ call[r].kind = "granted" => score[r] <= call[r].age + Second - 1
            /\ call[r].kind = "renewed" => score[r] <= call[r].age
        BY <1>1, <2>2 DEF Leased, ReplyFresh
      <3>3. /\ keyLeft' = keyLeft - 1 /\ call'[r].age = call[r].age + 1
            /\ score'[r] <= score[r] + 1 /\ score'[r] >= 0 /\ score'[r] \in Int
        BY <1>1, <1>2, <1>4, <2>2, <3>1, <3>2, Times DEF Typed
      <3> QED BY <1>1, <1>4, <3>2, <3>3, Times DEF ReplyFresh, Typed
    <2> QED BY <2>1, <2>2
  <1>7. Cadence(r)'
    <2> SUFFICES ASSUME phase[r] = "run" PROVE Cadence(r)'
      BY <1>2 DEF Cadence
    <2>1. due[r] > 0 /\ due'[r] = due[r] - 1 /\ armed'[r] = armed[r] + 1
      BY <1>2, <1>3 DEF InTime
    <2> QED BY <1>1, <1>2, <1>4, <2>1, Times DEF Leased, Cadence, Typed
  <1>8. TokenAge(r)'
    BY <1>1, <1>2, Times DEF Leased, TokenAge, Typed
  <1>9. LostLate(r)'
    <2> SUFFICES ASSUME phase[r] = "run" PROVE LostLate(r)'
      BY <1>2 DEF LostLate
    <2>1. CASE score[r] = NoToken
      BY <1>1, <1>2, <2>1, Times DEF Leased, LostLate, Typed
    <2>2. CASE score[r] # NoToken /\ keyLeft <= 1
      <3>1. keyLeft >= TTL - armed[r] - CallTime
        BY <1>1 DEF Leased, TokenAge
      <3> QED BY <1>1, <1>2, <2>2, <3>1, Times DEF LostLate, Typed
    <2>3. CASE score[r] # NoToken /\ ~(keyLeft <= 1)
      BY <1>1, <1>2, <2>3, Times DEF LostLate, Typed
    <2> QED BY <2>1, <2>2, <2>3
  <1>10. Tolerant(r)'
    <2> SUFFICES ASSUME phase[r] = "run", misses[r] <= 1 PROVE Tolerant(r)'
      BY <1>2 DEF Tolerant
    <2>1. keyLeft >= 2 /\ score[r] # NoToken
      BY <1>1, <1>3, KeyLasts DEF Leased, Tolerant
    <2> QED BY <1>1, <1>2, <2>1, Times DEF Tolerant, Typed
  <1> QED BY <1>5, <1>6, <1>7, <1>8, <1>9, <1>10 DEF Leased

\* A unit of time keeps the types: the renewal loop bounds its own clocks.
LEMMA ClockTypes == ASSUME IInv, Clock PROVE TypeOK'
  <1>1. TypeOK
    BY DEF IInv
  <1>2. sub' \in 0..Second - 1 /\ keyLeft' \in 0..TTL
    BY <1>1, Times DEF TypeOK, Clock
  <1>3. score' \in [Requests -> {NoToken} \cup 0..TTL + Second]
    <2> SUFFICES ASSUME NEW r \in Requests PROVE score'[r] \in {NoToken} \cup 0..TTL + Second
      BY DEF Clock
    <2>1. score'[r] = IF score[r] = NoToken \/ keyLeft <= 1 THEN NoToken
                      ELSE IF score[r] = TTL + Second THEN score[r] ELSE score[r] + 1
      BY DEF Clock
    <2>2. score[r] \in {NoToken} \cup 0..TTL + Second
      BY <1>1 DEF TypeOK
    <2>3. CASE score[r] = NoToken \/ keyLeft <= 1
      BY <2>1, <2>3
    <2>4. CASE ~(score[r] = NoToken \/ keyLeft <= 1)
      BY <2>1, <2>2, <2>4, Times
    <2> QED BY <2>3, <2>4
  <1>4. ASSUME NEW r \in Requests
        PROVE  /\ IF phase[r] = "run" THEN due[r] - 1 \in 0..Interval ELSE due[r] \in 0..Interval
               /\ phase[r] = "run" => armed[r] + 1 \in 0..TTL + Interval + CallTime
    <2>1. Typed(r) /\ Leased(r)
      BY Types DEF IInv
    <2>2. phase[r] = "run" => due[r] > 0
      BY DEF Clock, InTime
    <2>3. call[r].kind # "none" => call[r].age < CallTime
      BY <2>1, CallRecord DEF Clock, InTime, Leased
    <2>4. phase[r] = "run" => armed[r] + 1 <= TTL + Interval + CallTime
      BY <2>1, <2>2, <2>3, Times DEF Leased, Cadence, Typed
    <2> QED BY <2>1, <2>2, <2>4, Times DEF Typed
  <1>5. due' \in [Requests -> 0..Interval] /\ armed' \in [Requests -> 0..TTL + Interval + CallTime]
    BY <1>1, <1>4 DEF TypeOK, Clock
  <1>6. call' \in [Requests -> [kind : Calls, age : 0..CallTime]]
    <2> SUFFICES ASSUME NEW r \in Requests
                 PROVE  call'[r] \in [kind : Calls, age : 0..CallTime]
      BY DEF Clock
    <2>1. CASE call[r] = NoCall
      BY <2>1, Times DEF Clock, NoCall, Calls
    <2>2. CASE call[r] # NoCall
      <3>1. call'[r] = [call[r] EXCEPT !.age = @ + 1] /\ call[r].age < CallTime
        BY <2>2 DEF Clock, InTime
      <3>2. call[r] \in [kind : Calls, age : 0..CallTime] /\ call[r].age + 1 \in 0..CallTime
        BY <1>1, <3>1, Times DEF TypeOK
      <3> QED BY <3>1, <3>2
    <2> QED BY <2>1, <2>2
  <1>7. misses' \in [Requests -> Nat] /\ unheld' \in [Requests -> Nat] /\ phase' \in [Requests -> Phases]
    BY <1>1 DEF TypeOK, Clock
  <1> QED BY <1>2, <1>3, <1>5, <1>6, <1>7 DEF TypeOK

\* A unit of time keeps the invariant.
LEMMA ClockStep == ASSUME IInv, Clock PROVE IInv'
  <1>1. TypeOK /\ TokensCapped
    BY DEF IInv
  <1>2. Tokens(score)' \subseteq Tokens(score)
    BY <1>1 DEF Tokens, Clock, TypeOK
  <1>3. TokensCapped'
    BY <1>1, <1>2, FewerTokens
  <1> QED BY <1>3, ClockTypes, ClockLeased DEF IInv

\* Every step preserves the invariant.
LEMMA NextStep == IInv /\ [Next]_vars => IInv'
  <1> SUFFICES ASSUME IInv, [Next]_vars PROVE IInv'
    OBVIOUS
  <1>1. ASSUME NEW r \in Requests,
               \/ Dequeue(r) \/ AcquireScript(r) \/ AcquireReturns(r) \/ AcquireFails(r)
               \/ RenewCalled(r) \/ RenewScript(r) \/ RenewReturns(r) \/ RenewFails(r)
               \/ ForwardEnds(r) \/ Release(r) \/ Crash(r)
        PROVE  IInv'
    BY <1>1, DequeueStep, GrantStep, RefuseStep, AcquireReturnsStep, RenewCalledStep, RenewScriptStep,
       RenewReturnsStep, RenewFailsStep, ForwardEndsStep, LeavingStep DEF AcquireScript
  <1>2. CASE Clock
    BY <1>2, ClockStep
  <1>3. CASE UNCHANGED vars
    BY <1>3 DEF vars, IInv, TypeOK, Leased, Quiet, CallPhases, ReplyFresh, Cadence, TokenAge, LostLate,
       Tolerant, TokensCapped, Tokens
  <1> QED BY <1>1, <1>2, <1>3 DEF Next

\* The invariant holds in every reachable state: of the renewal loop's clocks,
\* the age of every token, and the number of tokens.
THEOREM GovernorInvariance == Spec => []IInv
  BY InitIInv, NextStep, PTL DEF Spec

\* leaseRenewLoop and redisEnforceRenewLua: with the interval a third of the
\* TTL, a stream that missed at most one renewal in a row still has its token.
THEOREM OneMissIsTolerated == Spec => []OneMissTolerated
  <1>1. IInv => OneMissTolerated
    BY DEF IInv, Leased, Tolerant, OneMissTolerated, Running
  <1> QED BY <1>1, GovernorInvariance, PTL

\* redisEnforceAcquireLua: over all instances, no more streams run than the
\* limit allows, leaving out those whose renewals keep failing.
THEOREM ClusterCapHolds == Spec => []ClusterCap
  <1>1. ASSUME IInv PROVE ClusterCap
    <2> DEFINE Held == {r \in Running : misses[r] <= 1}
    <2>1. Held \subseteq Tokens(score)
      BY <1>1 DEF IInv, Leased, Tolerant, Running, Tokens
    <2>2. TokensCapped
      BY <1>1 DEF IInv
    <2>3. /\ IsFiniteSet(Held) /\ Cardinality(Held) <= Cardinality(Tokens(score))
      BY <2>1, <2>2, FS_Subset DEF TokensCapped
    <2>4. Cardinality(Held) \in Nat /\ Cardinality(Tokens(score)) \in Nat
      BY <2>2, <2>3, FS_CardinalityType DEF TokensCapped
    <2>5. Cardinality(Held) <= Limit
      BY <2>2, <2>3, <2>4, Times DEF TokensCapped
    <2> QED BY <2>5 DEF ClusterCap
  <1> QED BY <1>1, GovernorInvariance, PTL

\* leaseRenewLoop's give-up after a TTL: a stream runs without a token for at
\* most an interval, the latency of two calls and the rest of a second.
THEOREM OverrunIsBounded == Spec => []OverrunBounded
  <1>1. ASSUME IInv PROVE OverrunBounded
    <2> SUFFICES ASSUME NEW r \in Requests
                 PROVE  unheld[r] <= Interval + 2 * CallTime + Second - 1
      BY DEF OverrunBounded
    <2>1. Typed(r) /\ Leased(r)
      BY <1>1, Types DEF IInv
    <2>2. CASE phase[r] # "run"
      BY <2>1, <2>2, Times DEF Leased, Quiet
    <2>3. CASE phase[r] = "run" /\ score[r] # NoToken
      BY <2>1, <2>3, Times DEF Leased, LostLate
    <2>4. CASE phase[r] = "run" /\ score[r] = NoToken
      <3>1. armed[r] <= TTL + Interval + CallTime - 1
        <4>1. CASE call[r].kind = "none"
          BY <2>1, <2>4, <4>1, Times DEF Leased, Cadence, Typed
        <4>2. CASE call[r].kind # "none"
          BY <2>1, <2>4, <4>2, Times DEF Leased, Cadence, Typed
        <4> QED BY <4>1, <4>2
      <3>2. unheld[r] + TTL - CallTime - Second + 1 <= armed[r]
        BY <2>1, <2>4 DEF Leased, LostLate
      <3> QED BY <2>1, <3>1, <3>2, Times DEF Typed
    <2> QED BY <2>2, <2>3, <2>4
  <1> QED BY <1>1, GovernorInvariance, PTL
=============================================================================
