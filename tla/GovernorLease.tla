---------------------------- MODULE GovernorLease ----------------------------
(***************************************************************************)
(* The cluster-wide concurrency cap of one credential (domains/dispatch:   *)
(* redis_backend.go, forwarder.go, lease_renewer.go) under redis_enforce.  *)
(* A request is admitted by a token in a Redis sorted set, scored with the *)
(* time it was last armed; tokens older than the TTL are pruned by the     *)
(* next Acquire.  While an attempt runs, a loop renews its token every     *)
(* third of the TTL and aborts the stream when the token is lost, or when  *)
(* a whole TTL has passed since it was last armed.                         *)
(*                                                                         *)
(* Time is discrete.  A Redis call takes its effect and returns within     *)
(* CallTime, a ticker fires when it is due: goroutines are not delayed.    *)
(* Scripts see the server's clock, in Acquire truncated to the second.     *)
(* A token is unique to an admission; a request is used again once its     *)
(* token has disappeared.                                                  *)
(***************************************************************************)
EXTENDS Integers, FiniteSets

CONSTANTS
  Requests,
  Limit,     \* the concurrency limit of the credential
  Interval,  \* RenewInterval: a third of the lease TTL
  Second,    \* one second
  CallTime   \* what a Redis call may take: the client's ReadTimeout, 3 s unless
             \* configured (go-redis applies no context deadline to a read)

ASSUME GovernorAssumption ==
  /\ Limit \in Nat \ {0} /\ Interval \in Nat \ {0} /\ Second \in Nat \ {0} /\ CallTime \in Nat
  \* The second and the latency of a call are small against the interval.
  /\ 2 * CallTime + Second <= Interval

TTL == 3 * Interval

NoToken == -1

VARIABLES
  sub,      \* time since the server's clock entered its second
  score,    \* sorted set: the age of a request's token, or NoToken
  keyLeft,  \* PEXPIRE of the set
  phase,    \* of a request
  call,     \* its Redis call under way
  due,      \* time to the next tick of its renewal loop
  armed,    \* time since lastArmed
  misses,   \* history: failed renewals since lastArmed
  unheld    \* history: how long the stream has run without a token

vars == <<sub, score, keyLeft, phase, call, due, armed, misses, unheld>>
redis == <<sub, score, keyLeft>>
loop == <<due, armed, misses>>

Phases == {"out", "wait", "run", "ended"}
Calls == {"none", "renew", "granted", "renewed", "absent"}
NoCall == [kind |-> "none", age |-> 0]
Called(k) == [kind |-> k, age |-> 0]

Init ==
  /\ sub = 0 /\ keyLeft = 0
  /\ score = [r \in Requests |-> NoToken]
  /\ phase = [r \in Requests |-> "out"]
  /\ call = [r \in Requests |-> NoCall]
  /\ due = [r \in Requests |-> 0]
  /\ armed = [r \in Requests |-> 0]
  /\ misses = [r \in Requests |-> 0]
  /\ unheld = [r \in Requests |-> 0]

-----------------------------------------------------------------------------
\* ZREMRANGEBYSCORE up to the current second minus the TTL.
Pruned == [q \in Requests |-> IF score[q] >= TTL + sub THEN NoToken ELSE score[q]]

Tokens(s) == {q \in Requests : s[q] # NoToken}

\* Mutant: one token too many.
HasRoom_OneMore == Cardinality(Tokens(Pruned)) <= Limit

\* Mutant: one token too few.
HasRoom_OneLess == Cardinality(Tokens(Pruned)) + 1 < Limit

HasRoom == Cardinality(Tokens(Pruned)) < Limit

\* The stream is over and its loop is told to stop.
Over(r, p) ==
  /\ phase' = [phase EXCEPT ![r] = p]
  /\ due' = [due EXCEPT ![r] = 0]
  /\ armed' = [armed EXCEPT ![r] = 0]
  /\ misses' = [misses EXCEPT ![r] = 0]
  /\ unheld' = [unheld EXCEPT ![r] = 0]

\* The request leaves the forwarder; its token may stay.
Out(r) == Over(r, "out") /\ call' = [call EXCEPT ![r] = NoCall]

\* The forwarder's loop takes the next request of its queue.
Dequeue(r) ==
  /\ phase[r] = "out" /\ score[r] = NoToken
  /\ phase' = [phase EXCEPT ![r] = "wait"]
  /\ UNCHANGED <<redis, call, loop, unheld>>

\* redisEnforceAcquireLua with room below the limit.
Grant(r) ==
  /\ phase[r] = "wait" /\ HasRoom
  /\ score' = [Pruned EXCEPT ![r] = sub]
  /\ keyLeft' = TTL
  /\ call' = [call EXCEPT ![r] = Called("granted")]
  /\ UNCHANGED <<sub, phase, loop, unheld>>

\* Without room the old tokens are gone all the same; the waiter tries again.
Refuse(r) ==
  /\ phase[r] = "wait" /\ ~HasRoom
  /\ score' = Pruned
  /\ UNCHANGED <<sub, keyLeft, phase, call, loop, unheld>>

\* The client sends a script again whose reply is late, with the same token.
\* (Told that there is no room any more, the request goes on with a new token
\* and leaves this one behind: AcquireFails.)
AcquireScript(r) ==
  \/ call[r].kind \in {"none", "granted"} /\ Grant(r)
  \/ call[r] = NoCall /\ Refuse(r)

\* acquire returns, and attempt starts the renewal loop; without a reserved
\* attempt the token is released at once.
AcquireReturns(r) ==
  /\ phase[r] = "wait" /\ call[r].kind = "granted"
  /\ call' = [call EXCEPT ![r] = NoCall]
  /\ \/ phase' = [phase EXCEPT ![r] = "run"] /\ due' = [due EXCEPT ![r] = Interval]
     \/ phase' = [phase EXCEPT ![r] = "ended"] /\ UNCHANGED due
  /\ UNCHANGED <<redis, armed, misses, unheld>>

\* Acquire fails or is cancelled, before its script has run or after it; the
\* request goes to failover and its token stays.
AcquireFails(r) ==
  /\ phase[r] = "wait"
  /\ Out(r)
  /\ UNCHANGED redis

-----------------------------------------------------------------------------
\* leaseRenewLoop: the ticker fires, Renew is called ...
RenewCalled(r) ==
  /\ phase[r] = "run" /\ due[r] = 0 /\ call[r] = NoCall
  /\ call' = [call EXCEPT ![r] = Called("renew")]
  /\ due' = [due EXCEPT ![r] = Interval]
  /\ UNCHANGED <<redis, phase, armed, misses, unheld>>

\* Mutant: the score stays what it was when the token was acquired.
Rearmed_Never(r) == score[r]

\* The score advances to the server's time, in milliseconds.
Rearmed(r) == 0

\* ... redisEnforceRenewLua runs ...
RenewScript(r) ==
  /\ call[r].kind = "renew"
  /\ IF score[r] # NoToken
     THEN /\ score' = [score EXCEPT ![r] = Rearmed(r)]
          /\ keyLeft' = TTL
          /\ call' = [call EXCEPT ![r].kind = "renewed"]
     ELSE /\ call' = [call EXCEPT ![r].kind = "absent"]
          /\ UNCHANGED <<score, keyLeft>>
  /\ UNCHANGED <<sub, phase, loop, unheld>>

\* ... and returns that the token was there, or that it was not: the forward
\* context is cancelled and the upstream call unwinds ...
RenewReturns(r) ==
  /\ call[r].kind \in {"renewed", "absent"}
  /\ call' = [call EXCEPT ![r] = NoCall]
  /\ IF call[r].kind = "absent"
     THEN Over(r, "ended")
     ELSE /\ armed' = [armed EXCEPT ![r] = 0]
          /\ misses' = [misses EXCEPT ![r] = 0]
          /\ UNCHANGED <<phase, due, unheld>>
  /\ UNCHANGED redis

\* Mutant: the TTL is counted from the first failed renewal.
TooLate_SinceFailure(r) == armed[r] >= TTL + Interval

\* No renewal for a whole TTL.
TooLate(r) == armed[r] >= TTL

\* ... or fails, whether or not the script has run.
RenewFails(r) ==
  /\ call[r].kind \in {"renew", "renewed", "absent"}
  /\ call' = [call EXCEPT ![r] = NoCall]
  /\ IF phase[r] = "ended" \/ TooLate(r)
     THEN Over(r, "ended")
     ELSE misses' = [misses EXCEPT ![r] = @ + 1] /\ UNCHANGED <<phase, due, armed, unheld>>
  /\ UNCHANGED redis

-----------------------------------------------------------------------------
\* The upstream call ends.
ForwardEnds(r) ==
  /\ phase[r] = "run"
  /\ Over(r, "ended")
  /\ UNCHANGED <<redis, call>>

\* releaseResources: once the loop has stopped, the token is removed, unless
\* that call fails; nobody hears of it.
Release(r) ==
  /\ phase[r] = "ended" /\ call[r] = NoCall
  /\ score' \in {score, [score EXCEPT ![r] = NoToken]}
  /\ Out(r)
  /\ UNCHANGED <<sub, keyLeft>>

\* The instance dies.
Crash(r) ==
  /\ phase[r] \in {"run", "ended"}
  /\ Out(r)
  /\ UNCHANGED redis

\* Time passes, up to the next thing that is due.
InTime ==
  \A r \in Requests :
    /\ phase[r] = "run" => due[r] > 0
    /\ call[r] # NoCall => call[r].age < CallTime

Clock ==
  /\ InTime
  /\ sub' = (sub + 1) % Second
  /\ keyLeft' = IF keyLeft = 0 THEN 0 ELSE keyLeft - 1
  /\ score' = [r \in Requests |-> IF score[r] = NoToken \/ keyLeft <= 1 THEN NoToken
                                  ELSE IF score[r] = TTL + Second THEN score[r] ELSE score[r] + 1]
  /\ call' = [r \in Requests |-> IF call[r] = NoCall THEN NoCall ELSE [call[r] EXCEPT !.age = @ + 1]]
  /\ due' = [r \in Requests |-> IF phase[r] = "run" THEN due[r] - 1 ELSE due[r]]
  /\ armed' = [r \in Requests |-> IF phase[r] = "run" THEN armed[r] + 1 ELSE armed[r]]
  /\ unheld' = [r \in Requests |-> IF phase[r] = "run" /\ score[r] = NoToken THEN unheld[r] + 1 ELSE 0]
  /\ UNCHANGED <<phase, misses>>

Next ==
  \/ \E r \in Requests :
       \/ Dequeue(r) \/ AcquireScript(r) \/ AcquireReturns(r) \/ AcquireFails(r)
       \/ RenewCalled(r) \/ RenewScript(r) \/ RenewReturns(r) \/ RenewFails(r)
       \/ ForwardEnds(r) \/ Release(r) \/ Crash(r)
  \/ Clock

Spec == Init /\ [][Next]_vars

\* Waiters poll, released requests are released, time passes.
FairSpec ==
  /\ Spec
  /\ WF_vars(Clock)
  /\ \A r \in Requests : /\ WF_vars(AcquireScript(r)) /\ WF_vars(AcquireReturns(r))
                         /\ WF_vars(RenewCalled(r)) /\ WF_vars(RenewReturns(r) \/ RenewFails(r))
                         /\ WF_vars(Release(r))

-----------------------------------------------------------------------------
Running == {r \in Requests : phase[r] = "run"}

\* Types.
TypeOK ==
  /\ sub \in 0..Second - 1 /\ keyLeft \in 0..TTL
  /\ score \in [Requests -> {NoToken} \cup 0..TTL + Second]
  /\ phase \in [Requests -> Phases]
  /\ call \in [Requests -> [kind : Calls, age : 0..CallTime]]
  /\ due \in [Requests -> 0..Interval]
  /\ armed \in [Requests -> 0..TTL + Interval + CallTime]
  /\ misses \in [Requests -> Nat] /\ unheld \in [Requests -> Nat]

\* RenewInterval: "a single failed renewal (or a few transient ones) never
\* spills past expiry".  A stream that missed at most one renewal in a row still
\* has its token, although Acquire dates it back to the start of its second.
\* Two misses in a row are more than the interval leaves room for.
OneMissTolerated == \A r \in Running : misses[r] <= 1 => score[r] # NoToken

\* The cap holds over the whole cluster: leaving out streams whose renewals
\* keep failing, never more of them run than the limit.
ClusterCap == Cardinality({r \in Running : misses[r] <= 1}) <= Limit

\* leaseRenewLoop: the abort deadline is measured from the last arm, "so the
\* stream never runs on an expired lease".  No stream runs while its token is gone.
NeverUnheld == \A r \in Requests : unheld[r] = 0

\* What the deadline does guarantee where NeverUnheld fails: a stream that lost
\* its token is aborted within one interval, the latency of two calls, and what
\* Acquire's second takes from the first lease.
OverrunBounded == \A r \in Requests : unheld[r] <= Interval + 2 * CallTime + Second - 1

\* Tokens that nobody will release (a lost reply, a failed Release, a crash) do
\* not keep the credential closed: no waiter waits for ever while all others
\* stay out.
LeakHeals == \A r \in Requests : ~<>[](phase[r] = "wait" /\ \A q \in Requests \ {r} : phase[q] = "out")
=============================================================================
