-------------------------- MODULE CredentialSlots --------------------------
(***************************************************************************)
(* The fingerprint slots of one credential (credentialfpslot/slot.go and   *)
(* reclaim.go), shared by every gateway process through Redis.  A slot key *)
(* holds the name of its holder and a TTL; a pin key remembers the slot a  *)
(* holder last used.  Acquire is a read of the pin and then one or two Lua *)
(* scripts; each script is one step, and other processes run between them. *)
(* Nothing refreshes a slot while its request runs: how long a holder has  *)
(* been silent is computed from what is left of the TTL.                   *)
(*                                                                         *)
(* Time is counted in ticks, Second of them to a second: settings and the  *)
(* TTL command know whole seconds only, keys expire at any tick.  silent   *)
(* and age are history variables: the ticks since a slot was last          *)
(* refreshed and since a lease was granted.  So is stale: the TTL setting  *)
(* was changed since the slot was last refreshed.                          *)
(* A Redis call may fail, applied or not, and a holder may have several    *)
(* requests under way.                                                     *)
(***************************************************************************)
EXTENDS Naturals, FiniteSets, FiniteSetsExt

CONSTANTS
  Holders,      \* clients (user and client type)
  Requests,     \* requests under way at a time
  Limit,        \* fp_slot_limit: the size of the pool
  Second,       \* ticks in a second
  Gate,         \* ActiveGateSeconds
  HardCap,      \* fpSlotLeaseHardCap
  TTLs,         \* values disguise.fp_slot_ttl_seconds may be set to
  FirstTTL,     \* its value at the start
  ReclaimIdle,  \* ReclaimIdleSeconds
  NoHolder, NoSlot

Slots == 0..Limit - 1
MaxTTL == Max(TTLs)

ASSUME SlotAssumption ==
  /\ Limit \in Nat \ {0} /\ Gate \in Nat \ {0} /\ HardCap \in Nat \ {0}
  /\ TTLs \subseteq Nat \ {0} /\ FirstTTL \in TTLs /\ ReclaimIdle \in Nat \ {0}
  /\ Second \in Nat \ {0} /\ \A n \in TTLs \cup {Gate, ReclaimIdle} : n % Second = 0
  /\ NoHolder \notin Holders /\ NoSlot \notin Slots

VARIABLES
  slot,  \* slot keys: holder, left of the TTL, silent, stale
  pin,   \* pin keys
  req,   \* requests
  ttl,   \* disguise.fp_slot_ttl_seconds
  outside  \* history: whether slots were freed under their holders, or the
           \* TTL setting changed

vars == <<slot, pin, req, ttl, outside>>

Free == [holder |-> NoHolder, left |-> 0, silent |-> 0, stale |-> FALSE]

\* A request without a lease.
Bare(phase) ==
  [phase |-> phase, holder |-> NoHolder, seen |-> NoSlot, lease |-> NoSlot, age |-> 0,
   released |-> FALSE, watch |-> "off"]

Init ==
  /\ slot = [s \in Slots |-> Free]
  /\ pin = [h \in Holders |-> NoSlot]
  /\ req = [r \in Requests |-> Bare("over")]
  /\ ttl = FirstTTL
  /\ outside = "none"

-----------------------------------------------------------------------------
Own(s, h) == slot[s].holder = h
IsFree(s) == slot[s].holder = NoHolder

\* TTL: what is left of a key, to the nearest second, half a second up.
Remaining(s) == ((2 * slot[s].left + Second) \div (2 * Second)) * Second

\* Mutant: how long a holder was silent, one second too long.
IdleTime_Early(s) == ttl + Second - Min({Remaining(s), ttl})

\* slotTTL - remaining, as the scripts compute it; below zero is as good as
\* zero, since Gate and ReclaimIdle are compared with it.
IdleTime(s) == ttl - Min({Remaining(s), ttl})

\* SET slotKey holder EX slotTTL, and EXPIRE of a key the holder owns.
Held(h) == [holder |-> h, left |-> ttl, silent |-> 0, stale |-> FALSE]

\* The lease of request r; the dispatcher arms the watchdog.
Granted(r, s) == [req[r] EXCEPT !.phase = "run", !.seen = NoSlot, !.lease = s, !.watch = "armed"]

\* A Lua script's reply may be lost, and the script may not have run.
Replies == {"ok", "lost", "failed"}

\* acquireRedis, phase 1: the pin is read.
Start(r, h) ==
  /\ req[r].phase \in {"over", "refused"} /\ req[r].watch = "off"
  /\ \E seen \in {pin[h], NoSlot} :
       req' = [req EXCEPT ![r] =
                 [Bare(IF seen = NoSlot THEN "scan" ELSE "pin") EXCEPT !.holder = h, !.seen = seen]]
  /\ UNCHANGED <<slot, pin, ttl, outside>>

\* Mutant: a pin is a claim to the slot.
CanTake_Pinned(s, h) == TRUE

\* acquireSlotScript: the pinned slot, if it is free, the holder's own, or its
\* holder has been silent for the gate.
CanTake(s, h) == IsFree(s) \/ Own(s, h) \/ IdleTime(s) >= Gate

PinReuse(r) ==
  LET s == req[r].seen
      h == req[r].holder
      next == [req EXCEPT ![r].phase = "scan", ![r].seen = NoSlot]
  IN
  /\ req[r].phase = "pin"
  /\ \E reply \in Replies :
       IF reply # "failed" /\ CanTake(s, h)
       THEN /\ slot' = [slot EXCEPT ![s] = Held(h)]
            /\ pin' = [pin EXCEPT ![h] = s]
            /\ req' = IF reply = "ok" THEN [req EXCEPT ![r] = Granted(r, s)] ELSE next
       ELSE req' = next /\ UNCHANGED <<slot, pin>>
  /\ UNCHANGED <<ttl, outside>>

\* acquireLRUScript: the first slot that is free or the holder's own ...
Hits(h) == {s \in Slots : IsFree(s) \/ Own(s, h)}

\* Mutant: the scan stops one slot short.
IdleSlots_Short == {s \in Slots \ {Limit - 1} : IdleTime(s) >= Gate}

\* ... or the one whose holder has been silent longest, past the gate.
IdleSlots == {s \in Slots : IdleTime(s) >= Gate}
Oldest == Min({s \in IdleSlots : \A t \in IdleSlots : IdleTime(t) <= IdleTime(s)})

\* The preempted holder's pin is wiped if it points at the slot.
WipePin(old, s) == IF old \in Holders /\ pin[old] = s THEN [pin EXCEPT ![old] = NoSlot] ELSE pin

Scan(r) ==
  LET h == req[r].holder
      s == IF Hits(h) # {} THEN Min(Hits(h)) ELSE Oldest
      old == IF Hits(h) # {} THEN NoHolder ELSE slot[s].holder
  IN
  /\ req[r].phase = "scan"
  /\ \E reply \in Replies :
       \/ /\ reply = "failed"
          /\ req' = [req EXCEPT ![r] = Bare("over")]
          /\ UNCHANGED <<slot, pin>>
       \/ /\ reply # "failed" /\ Hits(h) \cup IdleSlots = {}
          /\ req' = [req EXCEPT ![r] = Bare(IF reply = "ok" THEN "refused" ELSE "over")]
          /\ UNCHANGED <<slot, pin>>
       \/ /\ reply # "failed" /\ Hits(h) \cup IdleSlots # {}
          /\ slot' = [slot EXCEPT ![s] = Held(h)]
          /\ pin' = [WipePin(old, s) EXCEPT ![h] = s]
          /\ req' = [req EXCEPT ![r] = IF reply = "ok" THEN Granted(r, s) ELSE Bare("over")]
  /\ UNCHANGED <<ttl, outside>>

-----------------------------------------------------------------------------
\* releaseFpLease: the timer is stopped, the release is queued.
End(r) ==
  /\ req[r].phase = "run"
  /\ req' = [req EXCEPT ![r].phase = "queued", ![r].age = 0, ![r].watch = IF @ = "armed" THEN "off" ELSE @]
  /\ UNCHANGED <<slot, pin, ttl, outside>>

Returned(r) == [req[r] EXCEPT !.released = TRUE]

\* releaseSlotScript refreshes the slot and the pin of a holder that has it.
Refresh(r) ==
  LET s == req[r].lease
      h == req[r].holder
  IN slot' = [slot EXCEPT ![s] = Held(h)] /\ pin' = [pin EXCEPT ![h] = s]

Owned(r) == Own(req[r].lease, req[r].holder)

\* releaseFiniteLease; done is the request's record if the release went
\* through, kept if it did not.  The script returns false for a slot the
\* holder lost: a nil reply, which the client library reports as an error, so
\* the retries run out.
releaseFiniteLease(r, done, kept) ==
  \/ /\ Owned(r)
     /\ Refresh(r)
     /\ req' = [req EXCEPT ![r] = done]
  \/ /\ req' = [req EXCEPT ![r] = kept]
     /\ UNCHANGED <<slot, pin>>

\* Release, by the worker that drains the queue; ReleaseHard has the lease's
\* lock while it falls back.
Release(r) ==
  LET Over(q) == IF q.watch = "firing" THEN [q EXCEPT !.phase = "over"] ELSE Bare("over") IN
  /\ req[r].phase = "queued" /\ req[r].watch # "fallback"
  /\ IF req[r].released
     THEN req' = [req EXCEPT ![r] = Over(req[r])] /\ UNCHANGED <<slot, pin>>
     ELSE releaseFiniteLease(r, Over(Returned(r)), Over(req[r]))
  /\ UNCHANGED <<ttl, outside>>

\* An attempt of it, or of the fallback of ReleaseHard, whose reply is lost, to
\* be tried again.
ReleaseLost(r) ==
  /\ req[r].phase = "queued" \/ req[r].watch = "fallback"
  /\ ~req[r].released /\ Owned(r)
  /\ Refresh(r)
  /\ UNCHANGED <<req, ttl, outside>>

SlotsFreed == outside' = IF outside = "none" THEN "freed" ELSE outside

\* The hard-cap timer fires; a request that ends now no longer stops it.
Fire(r) ==
  /\ req[r].watch = "armed" /\ req[r].age >= HardCap
  /\ req' = [req EXCEPT ![r].watch = "firing"]
  /\ UNCHANGED <<slot, pin, ttl, outside>>

\* The watchdog of request q has done its work.
Off(q) == IF q.phase = "over" THEN Bare("over") ELSE [q EXCEPT !.watch = "off"]

\* enforceFpSlotLeaseDeadline and ReleaseHard: the key of the holder's slot is
\* deleted, its pin stays.  After an error, whether or not the key is gone, the
\* ordinary release is tried.
ReleaseHard(r) ==
  /\ req[r].watch = "firing"
  /\ \/ /\ req[r].released
        /\ req' = [req EXCEPT ![r] = Off(req[r])]
        /\ UNCHANGED <<slot, outside>>
     \/ \E reply \in Replies :
          /\ ~req[r].released
          /\ req' = [req EXCEPT ![r] = IF reply = "ok" THEN Off(Returned(r)) ELSE [@ EXCEPT !.watch = "fallback"]]
          /\ IF reply # "failed" /\ Owned(r)
             THEN slot' = [slot EXCEPT ![req[r].lease] = Free] /\ SlotsFreed
             ELSE UNCHANGED <<slot, outside>>
  /\ UNCHANGED <<pin, ttl>>

\* A slot whose key the lost call deleted is no longer the holder's, and the
\* lease is left unreleased.
Fallback(r) ==
  /\ req[r].watch = "fallback"
  /\ releaseFiniteLease(r, Off(Returned(r)), Off(req[r]))
  /\ UNCHANGED <<ttl, outside>>

\* ForceUnpin, for a request that failed with a fatal kind.
ForceUnpin(r) ==
  /\ req[r].phase = "run"
  /\ pin[req[r].holder] # NoSlot
  /\ pin' = [pin EXCEPT ![req[r].holder] = NoSlot]
  /\ UNCHANGED <<slot, req, ttl, outside>>

\* ReleaseSlot of the admin console: the slot and its holder's pin.
ReleaseSlot(s) ==
  /\ ~IsFree(s)
  /\ slot' = [slot EXCEPT ![s] = Free]
  /\ pin' = [pin EXCEPT ![slot[s].holder] = NoSlot]
  /\ SlotsFreed
  /\ UNCHANGED <<req, ttl>>

ResetSlots ==
  /\ slot' = [s \in Slots |-> Free]
  /\ pin' = [h \in Holders |-> NoSlot]
  /\ SlotsFreed
  /\ UNCHANGED <<req, ttl>>

\* reclaimIdleSlots, for a slot key the index has.
Reclaim(s) ==
  /\ ~IsFree(s) /\ IdleTime(s) >= ReclaimIdle
  /\ slot' = [slot EXCEPT ![s] = Free]
  /\ UNCHANGED <<pin, req, ttl, outside>>

\* The setting is changed, once; keys keep the TTL they have.
SetTTL(t) ==
  /\ t # ttl /\ outside # "tuned"
  /\ ttl' = t
  /\ outside' = "tuned"
  /\ slot' = [s \in Slots |-> IF IsFree(s) THEN Free ELSE [slot[s] EXCEPT !.stale = TRUE]]
  /\ UNCHANGED <<pin, req>>

-----------------------------------------------------------------------------
\* Redis counts the TTLs down and deletes the keys that reach zero.
Aged(k) ==
  IF k.holder = NoHolder \/ k.left = 1 THEN Free
  ELSE IF k.left = 0 THEN k
  ELSE [k EXCEPT !.left = @ - 1, !.silent = Min({@ + 1, Gate})]

Tick ==
  /\ slot' = [s \in Slots |-> Aged(slot[s])]
  /\ req' = [r \in Requests |-> IF req[r].phase # "run" THEN req[r]
                                ELSE [req[r] EXCEPT !.age = Min({@ + 1, Max({Gate, HardCap})})]]
  /\ UNCHANGED <<pin, ttl, outside>>

\* A pin lives for 24 hours and is set whenever a slot of its holder is.
PinExpires(h) ==
  /\ pin[h] # NoSlot /\ \A s \in Slots : ~Own(s, h)
  /\ pin' = [pin EXCEPT ![h] = NoSlot]
  /\ UNCHANGED <<slot, req, ttl, outside>>

Step(r) == PinReuse(r) \/ Scan(r) \/ Release(r) \/ ReleaseLost(r) \/ ReleaseHard(r) \/ Fallback(r)

Next ==
  \/ \E r \in Requests, h \in Holders : Start(r, h)
  \/ \E r \in Requests : Step(r) \/ End(r) \/ Fire(r) \/ ForceUnpin(r)
  \/ \E s \in Slots : ReleaseSlot(s) \/ Reclaim(s)
  \/ ResetSlots
  \/ \E t \in TTLs : SetTTL(t)
  \/ Tick
  \/ \E h \in Holders : PinExpires(h)

Spec == Init /\ [][Next]_vars

-----------------------------------------------------------------------------
\* Types; a pin and a lease name slots of the pool, a free slot has
\* nothing left of its holder.
TypeOK ==
  /\ slot \in [Slots -> [holder : Holders \cup {NoHolder}, left : 0..MaxTTL, silent : 0..Gate, stale : BOOLEAN]]
  /\ pin \in [Holders -> Slots \cup {NoSlot}]
  /\ req \in [Requests -> [phase : {"over", "refused", "pin", "scan", "run", "queued"},
                           holder : Holders \cup {NoHolder}, seen : Slots \cup {NoSlot},
                           lease : Slots \cup {NoSlot}, age : Nat, released : BOOLEAN,
                           watch : {"off", "armed", "firing", "fallback"}]]
  /\ ttl \in TTLs /\ outside \in {"none", "freed", "tuned"}
  /\ \A s \in Slots : IsFree(s) => slot[s] = Free
  /\ \A r \in Requests : /\ req[r].phase \in {"run", "queued"} => req[r].lease \in Slots /\ req[r].holder \in Holders
                         /\ req[r].phase = "pin" => req[r].seen \in Slots

\* A time that passes for the gate: the gate, or less by under half a second,
\* since the TTL of a key is rounded.
Idled(t) == 2 * t + Second > 2 * Gate

\* The operator's rule on ActiveGateSeconds: a holder active within the gate
\* (less half a second) never loses its slot to another holder, if the TTL
\* setting was not changed since it used the slot.
ActiveKept ==
  [][\A s \in Slots : (~IsFree(s) /\ ~slot[s].stale /\ slot'[s].holder \notin {NoHolder, slot[s].holder}) => Idled(slot[s].silent)]_vars

\* A request whose lease is younger than the gate (less half a second) still
\* has its slot: no other holder sends requests under the same egress identity,
\* unless an administrator or the watchdog of an older request freed it.
FreshLeaseOwns == outside = "none" => \A r \in Requests : (req[r].phase = "run" /\ ~Idled(req[r].age)) => Owned(r)

\* A request is turned away only if every slot of the pool is another
\* holder's and was used within the gate; of a slot used before the TTL setting
\* was changed, only the first is known.
SaturatedIsReal ==
  [][\A r \in Requests : (req[r].phase # "refused" /\ req'[r].phase = "refused") =>
       \A s \in Slots : ~IsFree(s) /\ ~Own(s, req[r].holder) /\ (slot[s].stale \/ slot[s].silent < Gate)]_vars
=============================================================================
