----------------------- MODULE CredentialSlotsProofs -----------------------
(***************************************************************************)
(* The slots of a credential for any pool, any set of clients and requests *)
(* and any gate, hard cap and TTL: a holder that was active within the     *)
(* gate keeps its slot, a young lease still owns its slot, and a request   *)
(* is turned away only when the pool is really taken.                      *)
(*                                                                         *)
(* The scripts never see how long a holder has been silent: they compute   *)
(* it from what is left of the TTL, to the nearest second.  The argument   *)
(* rests on Aging, which says that the two agree for a slot used since the *)
(* TTL setting was last changed, and on the settings being whole seconds:  *)
(* a holder is then never taken for less silent than it was, and by less   *)
(* than half a second for more.                                            *)
(***************************************************************************)
EXTENDS CredentialSlots, WellFoundedInduction, TLAPS

Key == [holder : Holders \cup {NoHolder}, left : Nat, silent : Nat, stale : BOOLEAN]

Request ==
  [phase : {"over", "refused", "pin", "scan", "run", "queued"}, holder : Holders \cup {NoHolder},
   seen : Slots \cup {NoSlot}, lease : Slots \cup {NoSlot}, age : Nat, released : BOOLEAN,
   watch : {"off", "armed", "firing", "fallback"}]

Types ==
  /\ slot \in [Slots -> Key]
  /\ pin \in [Holders -> Slots \cup {NoSlot}]
  /\ req \in [Requests -> Request]
  /\ ttl \in Nat \ {0} /\ ttl % Second = 0
  /\ outside \in {"none", "freed", "tuned"}

\* What a request in each phase has; the watchdog of a request that is over
\* still has its lease.
PhaseOf(q) ==
  /\ q.phase \in {"pin", "scan"} => q.holder \in Holders /\ q.age = 0 /\ q.watch = "off"
  /\ q.phase = "pin" => q.seen \in Slots
  /\ (q.phase \in {"run", "queued"} \/ q.watch \in {"firing", "fallback"}) => q.lease \in Slots /\ q.holder \in Holders
  /\ q.watch = "armed" => q.phase = "run"

Phases == \A r \in Requests : PhaseOf(req[r])

\* What is left of a slot's TTL tells how long its holder has been silent.
AgingOf(k) ==
  /\ 1 <= k.left /\ k.left <= ttl /\ k.silent <= Gate
  /\ k.silent < Gate => k.left + k.silent = ttl
  /\ k.silent = Gate => k.left + Gate <= ttl

Aging == \A s \in Slots : (~IsFree(s) /\ ~slot[s].stale) => AgingOf(slot[s])

\* The setting was not changed.
Current == outside # "tuned" => \A s \in Slots : ~slot[s].stale

IInv == Types /\ Phases /\ Aging /\ Current

\* A lease younger than the gate owns its slot, whose holder has not been
\* silent for longer than the lease is old.
Fresh ==
  outside = "none" => \A r \in Requests :
    (req[r].phase = "run" /\ ~Idled(req[r].age)) => Owned(r) /\ slot[req[r].lease].silent <= req[r].age

-----------------------------------------------------------------------------
\* Minima of sets of numbers.

LEMMA LeastNat == ASSUME NEW S, S \subseteq Nat, S # {} PROVE \E x \in S : \A y \in S : x <= y
  <1>1. PICK x \in S : \A y \in S : <<y, x>> \notin OpToRel(<, Nat)
    BY NatLessThanWellFounded, WFMin, Zenon
  <1>2. ASSUME NEW y \in S PROVE x <= y
    <2>1. <<y, x>> \in Nat \X Nat
      OBVIOUS
    <2>2. ~(y < x)
      BY <1>1, <2>1 DEF OpToRel
    <2> QED BY <2>2
  <1> QED BY <1>2

LEMMA MinOfSet == ASSUME NEW S, S \subseteq Nat, S # {} PROVE Min(S) \in S
  BY LeastNat DEF Min

LEMMA MinPair == ASSUME NEW a \in Nat, NEW b \in Nat PROVE Min({a, b}) = IF a <= b THEN a ELSE b
  BY DEF Min

LEMMA MaxPair == ASSUME NEW a \in Nat, NEW b \in Nat PROVE Max({a, b}) = IF a <= b THEN b ELSE a
  BY DEF Max

-----------------------------------------------------------------------------
\* The scripts' computations.

LEMMA HeldKey == ASSUME Types, NEW h \in Holders PROVE Held(h) \in Key
  BY DEF Types, Held, Key

LEMMA FreeKey == Free \in Key
  BY DEF Free, Key

LEMMA HeldAging == ASSUME Types, NEW h \in Holders PROVE AgingOf(Held(h))
  <1>1. ttl \in Nat \ {0} /\ Gate \in Nat \ {0}
    BY SlotAssumption DEF Types
  <1>2. Held(h).left = ttl /\ Held(h).silent = 0
    BY DEF Held
  <1> QED BY <1>1, <1>2 DEF AgingOf

\* Multiples of a second.
LEMMA Multiples ==
  ASSUME NEW n \in Nat, NEW m \in Nat, NEW d \in Nat \ {0}, n * d < m * d + d
  PROVE  n <= m
  <1> SUFFICES ASSUME n > m PROVE FALSE
    OBVIOUS
  <1>1. PICK e \in Nat : n = m + 1 + e
    <2>1. n - m - 1 \in Nat /\ n = m + 1 + (n - m - 1)
      OBVIOUS
    <2> QED BY <2>1
  <1>2. n * d = m * d + d + e * d
    BY <1>1
  <1>3. e * d \in Nat /\ n * d \in Nat /\ m * d \in Nat
    OBVIOUS
  <1> QED BY <1>2, <1>3

LEMMA Division ==
  ASSUME NEW n \in Nat, NEW d \in Nat \ {0}
  PROVE  n \div d \in Nat /\ (n \div d) * d <= n /\ n < (n \div d) * d + d
  OBVIOUS

\* The TTL command is off by half a second at most, and only if the TTL was
\* not a whole number of seconds.
LEMMA Rounding ==
  ASSUME IInv, NEW s \in Slots
  PROVE  /\ Remaining(s) \in Nat
         /\ 2 * Remaining(s) <= 2 * slot[s].left + Second
         /\ 2 * slot[s].left < 2 * Remaining(s) + Second
         /\ \A k \in Nat : slot[s].left <= k * Second => Remaining(s) <= k * Second
  <1> DEFINE l == slot[s].left
             a == 2 * l + Second
             d == 2 * Second
             q == a \div d
  <1>1. l \in Nat /\ Second \in Nat \ {0}
    BY SlotAssumption DEF IInv, Types, Key
  <1>2. a \in Nat /\ d \in Nat \ {0}
    BY <1>1
  <1>3. q \in Nat /\ q * d <= a /\ a < q * d + d
    BY <1>2, Division
  <1>4. Remaining(s) = q * Second
    BY DEF Remaining
  <1> HIDE DEF q
  <1>5. q * d = 2 * (q * Second) /\ q * Second \in Nat
    BY <1>1, <1>3
  <1>6. 2 * (q * Second) <= 2 * l + Second /\ 2 * l < 2 * (q * Second) + Second
    BY <1>1, <1>3, <1>5
  <1>7. ASSUME NEW k \in Nat, l <= k * Second PROVE q * Second <= k * Second
    <2> HIDE DEF l
    <2>2. k * Second \in Nat /\ q * Second < k * Second + Second
      BY <1>1, <1>5, <1>6, <1>7
    <2>3. q <= k
      BY <1>1, <1>3, <2>2, Multiples
    <2>4. q * Second <= k * Second
      <3>1. PICK e \in Nat : k = q + e
        <4>1. k - q \in Nat /\ k = q + (k - q)
          BY <1>3, <1>7, <2>3
        <4> QED BY <4>1
      <3>2. k * Second = q * Second + e * Second /\ e * Second \in Nat
        BY <1>1, <1>3, <3>1
      <3> QED BY <1>5, <3>2
    <2> QED BY <2>4
  <1> QED BY <1>4, <1>5, <1>6, <1>7

\* The idle time of a slot as the scripts see it, and what it means.
LEMMA IdleMeans ==
  ASSUME IInv, NEW s \in Slots
  PROVE  /\ IdleTime(s) = ttl - Min({Remaining(s), ttl})
         /\ Min({Remaining(s), ttl}) \in Nat
         /\ (~IsFree(s) /\ ~slot[s].stale) =>
               (IdleTime(s) >= Gate => Idled(slot[s].silent)) /\ (slot[s].silent >= Gate => IdleTime(s) >= Gate)
  <1>1. /\ slot[s].left \in Nat /\ slot[s].silent \in Nat /\ ttl \in Nat /\ ttl % Second = 0
        /\ Gate \in Nat \ {0} /\ Gate % Second = 0 /\ Second \in Nat \ {0}
    BY SlotAssumption DEF IInv, Types, Key
  <1>2. /\ Remaining(s) \in Nat /\ 2 * slot[s].left < 2 * Remaining(s) + Second
        /\ \A k \in Nat : slot[s].left <= k * Second => Remaining(s) <= k * Second
    BY Rounding
  <1>3. Min({Remaining(s), ttl}) = IF Remaining(s) <= ttl THEN Remaining(s) ELSE ttl
    BY <1>1, <1>2, MinPair
  <1>4. ASSUME ~IsFree(s), ~slot[s].stale
        PROVE  (IdleTime(s) >= Gate => Idled(slot[s].silent)) /\ (slot[s].silent >= Gate => IdleTime(s) >= Gate)
    <2>1. AgingOf(slot[s])
      BY <1>4 DEF IInv, Aging
    <2>2. slot[s].left <= ttl /\ slot[s].silent <= Gate
      BY <2>1 DEF AgingOf
    <2> DEFINE k == ttl \div Second
               g == Gate \div Second
    <2>7. k \in Nat /\ g \in Nat /\ ttl = k * Second /\ Gate = g * Second
      BY <1>1
    <2> HIDE DEF k, g
    <2>3. Remaining(s) <= ttl
      BY <1>2, <2>2, <2>7
    <2>4. IdleTime(s) = ttl - Remaining(s)
      BY <1>3, <2>3 DEF IdleTime
    <2>5. CASE slot[s].silent < Gate
      <3>1. slot[s].left + slot[s].silent = ttl
        BY <2>1, <2>5 DEF AgingOf
      <3>2. IdleTime(s) >= Gate => 2 * slot[s].silent + Second > 2 * Gate
        BY <1>1, <1>2, <2>4, <3>1
      <3> QED BY <1>1, <2>5, <3>2 DEF Idled
    <2>6. CASE slot[s].silent = Gate
      <3>1. slot[s].left + Gate <= ttl
        BY <2>1, <2>6 DEF AgingOf
      <3>2. g <= k
        <4>1. g * Second < k * Second + Second
          BY <1>1, <2>7, <3>1
        <4> QED BY <1>1, <2>7, <4>1, Multiples
      <3>3. k - g \in Nat /\ (k - g) * Second = ttl - Gate
        BY <1>1, <2>7, <3>2
      <3>6. slot[s].left <= (k - g) * Second
        BY <1>1, <3>1, <3>3
      <3>4. Remaining(s) <= ttl - Gate
        BY <1>2, <3>3, <3>6
      <3>5. 2 * Gate + Second > 2 * Gate /\ IdleTime(s) >= Gate
        BY <1>1, <1>2, <2>4, <3>4
      <3> QED BY <2>6, <3>5 DEF Idled
    <2> QED BY <1>1, <2>2, <2>5, <2>6
  <1> QED BY <1>1, <1>2, <1>3, <1>4 DEF IdleTime

\* The scan finds the slot it names, and may take it.
ScanSlot(h) == IF Hits(h) # {} THEN Min(Hits(h)) ELSE Oldest

LEMMA ScanTakes ==
  ASSUME IInv, NEW h, Hits(h) \cup IdleSlots # {}
  PROVE  ScanSlot(h) \in Slots /\ CanTake(ScanSlot(h), h)
  <1>1. Slots \subseteq Nat
    BY SlotAssumption DEF Slots
  <1>2. CASE Hits(h) # {}
    <2>1. Min(Hits(h)) \in Hits(h)
      BY <1>1, <1>2, MinOfSet DEF Hits
    <2> QED BY <1>2, <2>1 DEF ScanSlot, Hits, CanTake
  <1>3. CASE Hits(h) = {}
    <2> DEFINE lefts == {Min({Remaining(s), ttl}) : s \in IdleSlots}
               oldest == {s \in IdleSlots : \A t \in IdleSlots : IdleTime(t) <= IdleTime(s)}
    <2>1. IdleSlots # {} /\ IdleSlots \subseteq Slots
      BY <1>3 DEF IdleSlots
    <2>2. lefts \subseteq Nat /\ lefts # {}
      BY <2>1, IdleMeans
    <2>3. PICK m \in lefts : \A y \in lefts : m <= y
      BY <2>2, LeastNat
    <2>4. PICK s \in IdleSlots : m = Min({Remaining(s), ttl})
      BY <2>3
    <2>5. ASSUME NEW t \in IdleSlots PROVE IdleTime(t) <= IdleTime(s)
      <3>1. Min({Remaining(s), ttl}) <= Min({Remaining(t), ttl})
        BY <2>3, <2>4, <2>5
      <3>2. ttl \in Nat
        BY DEF IInv, Types
      <3>3. /\ IdleTime(t) = ttl - Min({Remaining(t), ttl}) /\ Min({Remaining(t), ttl}) \in Nat
            /\ IdleTime(s) = ttl - Min({Remaining(s), ttl}) /\ Min({Remaining(s), ttl}) \in Nat
        BY <2>1, <2>4, <2>5, IdleMeans
      <3> QED BY <3>1, <3>2, <3>3
    <2>6. s \in oldest
      BY <2>4, <2>5
    <2>7. Min(oldest) \in oldest
      <3>1. oldest \subseteq Nat /\ oldest # {}
        BY <1>1, <2>1, <2>6
      <3> QED BY <3>1, MinOfSet
    <2>8. Oldest \in IdleSlots
      BY <2>7 DEF Oldest
    <2> QED BY <1>3, <2>8 DEF ScanSlot, IdleSlots, CanTake
  <1> QED BY <1>2, <1>3

-----------------------------------------------------------------------------
\* What a step other than a tick does to the slots and to the leases.

\* A slot is left alone, freed or set anew.
Moves ==
  \A s \in Slots : slot'[s] = slot[s] \/ slot'[s] = Free \/ (\E h \in Holders : slot'[s] = Held(h))

\* A slot used within the gate is left alone or refreshed for its holder.
Gentle ==
  \A s \in Slots : (~IsFree(s) /\ ~slot[s].stale /\ ~Idled(slot[s].silent)) =>
    slot'[s] = slot[s] \/ (slot'[s].holder = slot[s].holder /\ slot'[s].silent = 0)

\* A request that runs ran before, on the same lease, or was granted a slot.
LeaseKept(r) ==
  /\ req[r].phase = "run"
  /\ req'[r].age = req[r].age /\ req'[r].lease = req[r].lease /\ req'[r].holder = req[r].holder

LeaseNew(r) ==
  slot'[req'[r].lease].holder = req'[r].holder /\ slot'[req'[r].lease].silent = 0

Leases == \A r \in Requests : req'[r].phase = "run" => LeaseKept(r) \/ LeaseNew(r)

\* A step that leaves the setting alone and, unless it is the administrator's
\* or the watchdog's, takes no slot used within the gate.
Orderly ==
  /\ Types' /\ Phases' /\ Moves /\ Leases
  /\ ttl' = ttl /\ (outside' = outside \/ (outside = "none" /\ outside' = "freed"))
  /\ Gentle \/ (outside' # "none" /\ \A s \in Slots : slot'[s] \in {slot[s], Free})

LEMMA AgingKept ==
  ASSUME IInv, Moves, ttl' = ttl, outside' # "tuned" => outside # "tuned"
  PROVE  Aging' /\ Current'
  <1>1. ASSUME NEW s \in Slots, slot'[s].holder # NoHolder, ~slot'[s].stale PROVE AgingOf(slot'[s])
    <2>1. CASE slot'[s] = slot[s]
      BY <1>1, <2>1 DEF IInv, Aging, IsFree
    <2>2. CASE slot'[s] = Free
      BY <1>1, <2>2 DEF Free
    <2>3. ASSUME NEW h \in Holders, slot'[s] = Held(h) PROVE AgingOf(slot'[s])
      BY <2>3, HeldAging DEF IInv
    <2> QED BY <2>1, <2>2, <2>3 DEF Moves
  <1>2. ASSUME NEW k PROVE AgingOf(k) => (1 <= k.left /\ k.left <= ttl' /\ k.silent <= Gate
                               /\ (k.silent < Gate => k.left + k.silent = ttl')
                               /\ (k.silent = Gate => k.left + Gate <= ttl'))
    BY DEF AgingOf
  <1>3. Aging'
    BY <1>1, <1>2 DEF Aging, IsFree, AgingOf
  <1>4. Current'
    <2> SUFFICES ASSUME outside' # "tuned", NEW s \in Slots PROVE ~slot'[s].stale
      BY DEF Current
    <2>1. ~slot[s].stale
      BY DEF IInv, Current
    <2>2. CASE slot'[s] = slot[s]
      BY <2>1, <2>2
    <2>3. CASE slot'[s] = Free
      BY <2>3 DEF Free
    <2>4. ASSUME NEW h \in Holders, slot'[s] = Held(h) PROVE ~slot'[s].stale
      BY <2>4 DEF Held
    <2> QED BY <2>2, <2>3, <2>4 DEF Moves
  <1> QED BY <1>3, <1>4

LEMMA OrderlyInv == ASSUME IInv, Orderly PROVE IInv'
  <1>1. Types' /\ Phases' /\ Moves /\ ttl' = ttl /\ (outside' # "tuned" => outside # "tuned")
    BY DEF Orderly
  <1> QED BY <1>1, AgingKept DEF IInv

LEMMA OrderlyFresh == ASSUME IInv, Fresh, Orderly PROVE Fresh'
  <1> SUFFICES ASSUME outside' = "none", NEW r \in Requests, req'[r].phase = "run", ~Idled(req'[r].age)
               PROVE  /\ slot'[req'[r].lease].holder = req'[r].holder
                      /\ slot'[req'[r].lease].silent <= req'[r].age
    BY DEF Fresh, Owned, Own
  <1>1. outside = "none" /\ Gentle
    BY DEF Orderly
  <1>2. req'[r].age \in Nat
    BY DEF Orderly, Types, Request
  <1>3. CASE LeaseNew(r)
    BY <1>2, <1>3 DEF LeaseNew
  <1>4. CASE LeaseKept(r)
    <2> DEFINE s == req[r].lease
    <2>1. s \in Slots /\ req[r].holder \in Holders /\ req[r].age \in Nat
      BY <1>4 DEF LeaseKept, IInv, Phases, PhaseOf, Types, Request
    <2>2. slot[s].holder = req[r].holder /\ slot[s].silent <= req[r].age /\ ~Idled(req[r].age)
      BY <1>1, <1>4 DEF Fresh, LeaseKept, Owned, Own
    <2>3. slot[s].silent \in Nat /\ Gate \in Nat /\ Second \in Nat /\ ~slot[s].stale
      BY <1>1, <2>1, SlotAssumption DEF IInv, Types, Key, Current
    <2>7. ~IsFree(s)
      BY <2>1, <2>2, SlotAssumption DEF IsFree
    <2>8. ~Idled(slot[s].silent)
      BY <2>1, <2>2, <2>3 DEF Idled
    <2>4. ~IsFree(s) /\ ~slot[s].stale /\ ~Idled(slot[s].silent)
      BY <2>3, <2>7, <2>8
    <2>5. slot'[s] = slot[s] \/ (slot'[s].holder = slot[s].holder /\ slot'[s].silent = 0)
      BY <1>1, <2>1, <2>4 DEF Gentle
    <2>6. req'[r].lease = s /\ req'[r].holder = req[r].holder /\ req'[r].age = req[r].age
      BY <1>4 DEF LeaseKept
    <2> HIDE DEF s
    <2> QED BY <1>2, <2>2, <2>5, <2>6
  <1> QED BY <1>3, <1>4 DEF Orderly, Leases

-----------------------------------------------------------------------------
\* Taking and refreshing a slot.

LEMMA TakeSlot ==
  ASSUME IInv, NEW s \in Slots, NEW h \in Holders, slot' = [slot EXCEPT ![s] = Held(h)]
  PROVE  slot' \in [Slots -> Key] /\ Moves /\ slot'[s].holder = h /\ slot'[s].silent = 0
  <1>1. Held(h) \in Key /\ slot \in [Slots -> Key]
    BY HeldKey DEF IInv, Types
  <1>2. slot'[s] = Held(h) /\ \A t \in Slots : t # s => slot'[t] = slot[t]
    BY <1>1
  <1> QED BY <1>1, <1>2 DEF Moves, Held

LEMMA TakeGentle ==
  ASSUME IInv, NEW s \in Slots, NEW h \in Holders, CanTake(s, h),
         slot' = [slot EXCEPT ![s] = Held(h)]
  PROVE  Gentle
  <1>1. slot \in [Slots -> Key]
    BY DEF IInv, Types
  <1> SUFFICES ASSUME NEW t \in Slots, ~IsFree(t), ~slot[t].stale, ~Idled(slot[t].silent)
               PROVE  slot'[t] = slot[t] \/ (slot'[t].holder = slot[t].holder /\ slot'[t].silent = 0)
    BY DEF Gentle
  <1>2. CASE t # s
    BY <1>1, <1>2
  <1>3. CASE t = s
    <2>1. ~(IdleTime(s) >= Gate)
      BY <1>3, IdleMeans
    <2>2. Own(s, h)
      BY <1>3, <2>1 DEF CanTake
    <2> QED BY <1>1, <1>3, <2>2 DEF Own, Held
  <1> QED BY <1>2, <1>3

LEMMA OwnedTakes == ASSUME NEW r \in Requests, Owned(r) PROVE CanTake(req[r].lease, req[r].holder)
  BY DEF Owned, CanTake

LEMMA KeepSlots == ASSUME slot' = slot PROVE Moves /\ Gentle
  BY DEF Moves, Gentle

LEMMA FreeSlots ==
  ASSUME IInv, NEW S \in SUBSET Slots, slot' = [s \in Slots |-> IF s \in S THEN Free ELSE slot[s]]
  PROVE  slot' \in [Slots -> Key] /\ Moves /\ \A s \in Slots : slot'[s] \in {slot[s], Free}
  BY FreeKey DEF IInv, Types, Moves

\* One request changes, all others keep their record.
LEMMA OneRequest ==
  ASSUME IInv, NEW r \in Requests, NEW q \in Request, PhaseOf(q), req' = [req EXCEPT ![r] = q]
  PROVE  req' \in [Requests -> Request] /\ Phases' /\ req'[r] = q
         /\ \A x \in Requests : x # r => req'[x] = req[x]
  <1>1. req \in [Requests -> Request] /\ \A x \in Requests : PhaseOf(req[x])
    BY DEF IInv, Types, Phases
  <1>2. req' \in [Requests -> Request] /\ req'[r] = q /\ \A x \in Requests : x # r => req'[x] = req[x]
    BY <1>1
  <1>3. \A x \in Requests : PhaseOf(req'[x])
    BY <1>1, <1>2
  <1> QED BY <1>2, <1>3 DEF Phases, PhaseOf

LEMMA OneLease ==
  ASSUME NEW r \in Requests, \A x \in Requests : x # r => req'[x] = req[x],
         req'[r].phase = "run" => LeaseKept(r) \/ LeaseNew(r)
  PROVE  Leases
  BY DEF Leases, LeaseKept

-----------------------------------------------------------------------------
\* Every action but SetTTL and Tick is orderly.

LEMMA StartStep == ASSUME IInv, NEW r \in Requests, NEW h \in Holders, Start(r, h) PROVE Orderly
  <1>1. PICK seen \in {pin[h], NoSlot} :
          req' = [req EXCEPT ![r] =
                    [Bare(IF seen = NoSlot THEN "scan" ELSE "pin") EXCEPT !.holder = h, !.seen = seen]]
    BY DEF Start
  <1> DEFINE q == [Bare(IF seen = NoSlot THEN "scan" ELSE "pin") EXCEPT !.holder = h, !.seen = seen]
  <1>2. pin[h] \in Slots \cup {NoSlot} /\ seen \in Slots \cup {NoSlot}
    BY <1>1 DEF IInv, Types
  <1>3. q \in Request /\ PhaseOf(q) /\ q.phase # "run"
    BY <1>2, SlotAssumption DEF Request, PhaseOf, Bare
  <1> HIDE DEF q
  <1>4. req' = [req EXCEPT ![r] = q]
    BY <1>1 DEF q
  <1>5. UNCHANGED <<slot, pin, ttl, outside>>
    BY DEF Start
  <1>6. Leases
    BY <1>3, <1>4, OneRequest, OneLease
  <1> QED BY <1>3, <1>4, <1>5, <1>6, OneRequest, KeepSlots DEF Orderly, IInv, Types

\* A request that runs, on the slot it was granted.
LEMMA GrantedRequest ==
  ASSUME IInv, NEW r \in Requests, req[r].phase \in {"pin", "scan"}, NEW s \in Slots
  PROVE  /\ Granted(r, s) \in Request /\ PhaseOf(Granted(r, s))
         /\ Granted(r, s).lease = s /\ Granted(r, s).holder = req[r].holder
  <1>1. req[r] \in Request /\ PhaseOf(req[r])
    BY DEF IInv, Types, Phases
  <1> QED BY <1>1 DEF Granted, Request, PhaseOf

LEMMA BareRequest ==
  ASSUME NEW p \in {"over", "refused"}
  PROVE  Bare(p) \in Request /\ PhaseOf(Bare(p)) /\ Bare(p).phase # "run"
  BY DEF Bare, Request, PhaseOf

\* A grant of slot s, or the same with the reply lost.
LEMMA GrantStep ==
  ASSUME IInv, NEW r \in Requests, req[r].phase \in {"pin", "scan"}, NEW s \in Slots,
         CanTake(s, req[r].holder),
         slot' = [slot EXCEPT ![s] = Held(req[r].holder)], pin' \in [Holders -> Slots \cup {NoSlot}],
         UNCHANGED <<ttl, outside>>,
         NEW q \in Request, PhaseOf(q), req' = [req EXCEPT ![r] = q], q.phase # "run" \/ q = Granted(r, s)
  PROVE  Orderly
  <1>1. req[r].holder \in Holders
    BY DEF IInv, Phases, PhaseOf
  <1>2. slot' \in [Slots -> Key] /\ Moves /\ slot'[s].holder = req[r].holder /\ slot'[s].silent = 0
    BY <1>1, TakeSlot
  <1>3. req' \in [Requests -> Request] /\ Phases' /\ req'[r] = q /\ \A x \in Requests : x # r => req'[x] = req[x]
    BY OneRequest
  <1>4. Leases
    BY <1>2, <1>3, GrantedRequest, OneLease DEF LeaseNew
  <1>5. Gentle
    BY <1>1, TakeGentle
  <1> QED BY <1>2, <1>3, <1>4, <1>5 DEF Orderly, IInv, Types

\* A request that goes on without a slot.
LEMMA NoGrantStep ==
  ASSUME IInv, NEW r \in Requests, UNCHANGED <<slot, pin, ttl, outside>>,
         NEW q \in Request, PhaseOf(q), req' = [req EXCEPT ![r] = q],
         q.phase = "run" => req[r].phase = "run" /\ q.age = req[r].age /\ q.lease = req[r].lease /\ q.holder = req[r].holder
  PROVE  Orderly
  <1>1. req' \in [Requests -> Request] /\ Phases' /\ req'[r] = q /\ \A x \in Requests : x # r => req'[x] = req[x]
    BY OneRequest
  <1>2. Leases
    BY <1>1, OneLease DEF LeaseKept
  <1> QED BY <1>1, <1>2, KeepSlots DEF Orderly, IInv, Types

LEMMA PinReuseStep == ASSUME IInv, NEW r \in Requests, PinReuse(r) PROVE Orderly
  <1> DEFINE s == req[r].seen
             h == req[r].holder
             q == [req[r] EXCEPT !.phase = "scan", !.seen = NoSlot]
  <1>1. req[r] \in Request /\ PhaseOf(req[r]) /\ req[r].phase = "pin" /\ req \in [Requests -> Request]
    BY DEF PinReuse, IInv, Types, Phases
  <1>2. s \in Slots /\ h \in Holders /\ q \in Request /\ PhaseOf(q) /\ q.phase # "run"
    BY <1>1 DEF Request, PhaseOf
  <1>3. [req EXCEPT ![r].phase = "scan", ![r].seen = NoSlot] = [req EXCEPT ![r] = q]
    BY <1>1
  <1>4. UNCHANGED <<ttl, outside>>
    BY DEF PinReuse
  <1>5. CASE /\ CanTake(s, h) /\ slot' = [slot EXCEPT ![s] = Held(h)] /\ pin' = [pin EXCEPT ![h] = s]
             /\ req' = [req EXCEPT ![r] = Granted(r, s)] \/ req' = [req EXCEPT ![r] = q]
    <2>1. pin' \in [Holders -> Slots \cup {NoSlot}]
      BY <1>2, <1>5 DEF IInv, Types
    <2>2. Granted(r, s) \in Request /\ PhaseOf(Granted(r, s))
      BY <1>1, <1>2, GrantedRequest
    <2> HIDE DEF q
    <2>3. CASE req' = [req EXCEPT ![r] = Granted(r, s)]
      BY <1>1, <1>2, <1>4, <1>5, <2>1, <2>2, <2>3, GrantStep
    <2>4. CASE req' = [req EXCEPT ![r] = q]
      BY <1>1, <1>2, <1>4, <1>5, <2>1, <2>4, GrantStep
    <2> QED BY <1>5, <2>3, <2>4
  <1>6. CASE req' = [req EXCEPT ![r] = q] /\ UNCHANGED <<slot, pin>>
    <2> HIDE DEF q
    <2> QED BY <1>2, <1>4, <1>6, NoGrantStep
  <1> QED BY <1>3, <1>5, <1>6 DEF PinReuse

LEMMA ScanStep == ASSUME IInv, NEW r \in Requests, Scan(r) PROVE Orderly
  <1> DEFINE h == req[r].holder
             s == ScanSlot(h)
             old == IF Hits(h) # {} THEN NoHolder ELSE slot[s].holder
  <1>1. req[r].phase = "scan" /\ h \in Holders /\ UNCHANGED <<ttl, outside>>
    BY DEF Scan, IInv, Phases, PhaseOf
  <1>2. CASE /\ req' = [req EXCEPT ![r] = Bare("over")] \/ req' = [req EXCEPT ![r] = Bare("refused")]
             /\ UNCHANGED <<slot, pin>>
    BY <1>1, <1>2, BareRequest, NoGrantStep
  <1>3. CASE /\ Hits(h) \cup IdleSlots # {}
             /\ slot' = [slot EXCEPT ![s] = Held(h)]
             /\ pin' = [WipePin(old, s) EXCEPT ![h] = s]
             /\ req' = [req EXCEPT ![r] = Granted(r, s)] \/ req' = [req EXCEPT ![r] = Bare("over")]
    <2>1. s \in Slots /\ CanTake(s, h)
      BY <1>3, ScanTakes
    <2>2. WipePin(old, s) \in [Holders -> Slots \cup {NoSlot}]
      BY DEF WipePin, IInv, Types
    <2>3. pin' \in [Holders -> Slots \cup {NoSlot}]
      BY <1>1, <1>3, <2>1, <2>2
    <2>4. Granted(r, s) \in Request /\ PhaseOf(Granted(r, s))
      BY <1>1, <2>1, GrantedRequest
    <2> HIDE DEF s, old
    <2>5. CASE req' = [req EXCEPT ![r] = Granted(r, s)]
      BY <1>1, <1>3, <2>1, <2>3, <2>4, <2>5, GrantStep
    <2>6. CASE req' = [req EXCEPT ![r] = Bare("over")]
      BY <1>1, <1>3, <2>1, <2>3, <2>6, BareRequest, GrantStep
    <2> QED BY <1>3, <2>5, <2>6
  <1> QED BY <1>2, <1>3 DEF Scan, ScanSlot, Replies
\* The record a request has after a step that keeps its lease while it runs.
Follows(r, q) ==
  /\ q \in Request /\ PhaseOf(q)
  /\ q.phase = "run" => req[r].phase = "run" /\ q.age = req[r].age /\ q.lease = req[r].lease /\ q.holder = req[r].holder

\* A lease's own slot is refreshed.
LEMMA RefreshStep ==
  ASSUME IInv, NEW r \in Requests, req[r].lease \in Slots, req[r].holder \in Holders, Owned(r), Refresh(r),
         UNCHANGED <<ttl, outside>>, NEW q, Follows(r, q), req' = [req EXCEPT ![r] = q]
  PROVE  Orderly
  <1> DEFINE s == req[r].lease
             h == req[r].holder
  <1>1. slot' = [slot EXCEPT ![s] = Held(h)] /\ pin' = [pin EXCEPT ![h] = s]
    BY DEF Refresh
  <1>2. slot' \in [Slots -> Key] /\ Moves
    BY <1>1, TakeSlot
  <1>3. pin' \in [Holders -> Slots \cup {NoSlot}]
    BY <1>1 DEF IInv, Types
  <1>4. req' \in [Requests -> Request] /\ Phases' /\ req'[r] = q /\ \A x \in Requests : x # r => req'[x] = req[x]
    BY OneRequest DEF Follows
  <1>5. Leases
    BY <1>4, OneLease DEF LeaseKept, Follows
  <1>6. Gentle
    BY <1>1, OwnedTakes, TakeGentle
  <1> QED BY <1>2, <1>3, <1>4, <1>5, <1>6 DEF Orderly, IInv, Types

LEMMA FollowStep ==
  ASSUME IInv, NEW r \in Requests, UNCHANGED <<slot, pin, ttl, outside>>, NEW q, Follows(r, q),
         req' = [req EXCEPT ![r] = q]
  PROVE  Orderly
  BY NoGrantStep DEF Follows

LEMMA FiniteLeaseStep ==
  ASSUME IInv, NEW r \in Requests, req[r].lease \in Slots, req[r].holder \in Holders,
         NEW done, NEW kept, Follows(r, done), Follows(r, kept),
         releaseFiniteLease(r, done, kept), UNCHANGED <<ttl, outside>>
  PROVE  Orderly
  BY RefreshStep, FollowStep DEF releaseFiniteLease

LEMMA ReleaseStep == ASSUME IInv, NEW r \in Requests, Release(r) PROVE Orderly
  <1> DEFINE Over(q) == IF q.watch = "firing" THEN [q EXCEPT !.phase = "over"] ELSE Bare("over")
  <1>1. req[r] \in Request /\ PhaseOf(req[r]) /\ req[r].phase = "queued"
    BY DEF Release, IInv, Types, Phases
  <1>2. req[r].lease \in Slots /\ req[r].holder \in Holders
    BY <1>1 DEF PhaseOf
  <1>3. Returned(r) \in Request /\ PhaseOf(Returned(r)) /\ Returned(r).phase = "queued"
    BY <1>1 DEF Returned, Request, PhaseOf
  <1>4. ASSUME NEW q \in Request, PhaseOf(q) PROVE Follows(r, Over(q))
    <2>1. CASE q.watch = "firing"
      BY <1>4, <2>1 DEF Follows, Request, PhaseOf
    <2>2. CASE q.watch # "firing"
      BY <2>2, BareRequest DEF Follows
    <2> QED BY <2>1, <2>2
  <1>5. Follows(r, Over(req[r])) /\ Follows(r, Over(Returned(r)))
    BY <1>1, <1>3, <1>4
  <1>6. CASE req' = [req EXCEPT ![r] = Over(req[r])] /\ UNCHANGED <<slot, pin, ttl, outside>>
    <2> HIDE DEF Over
    <2> QED BY <1>5, <1>6, FollowStep
  <1>7. CASE releaseFiniteLease(r, Over(Returned(r)), Over(req[r])) /\ UNCHANGED <<ttl, outside>>
    <2> HIDE DEF Over
    <2> QED BY <1>2, <1>5, <1>7, FiniteLeaseStep
  <1> QED BY <1>6, <1>7 DEF Release

LEMMA ReleaseLostStep == ASSUME IInv, NEW r \in Requests, ReleaseLost(r) PROVE Orderly
  <1>1. /\ req[r] \in Request /\ PhaseOf(req[r]) /\ req \in [Requests -> Request]
        /\ req[r].phase = "queued" \/ req[r].watch = "fallback"
    BY DEF ReleaseLost, IInv, Types, Phases
  <1>2. req[r].lease \in Slots /\ req[r].holder \in Holders /\ Follows(r, req[r])
    BY <1>1 DEF PhaseOf, Follows
  <1>3. req' = [req EXCEPT ![r] = req[r]]
    BY <1>1 DEF ReleaseLost
  <1> QED BY <1>2, <1>3, RefreshStep DEF ReleaseLost

LEMMA EndStep == ASSUME IInv, NEW r \in Requests, End(r) PROVE Orderly
  <1> DEFINE q == [req[r] EXCEPT !.phase = "queued", !.age = 0, !.watch = IF @ = "armed" THEN "off" ELSE @]
  <1>1. req[r] \in Request /\ PhaseOf(req[r]) /\ req[r].phase = "run" /\ req \in [Requests -> Request]
    BY DEF End, IInv, Types, Phases
  <1>2. Follows(r, q)
    BY <1>1 DEF Follows, Request, PhaseOf
  <1>3. req' = [req EXCEPT ![r] = q]
    BY <1>1 DEF End
  <1> HIDE DEF q
  <1> QED BY <1>2, <1>3, FollowStep DEF End

LEMMA FireStep == ASSUME IInv, NEW r \in Requests, Fire(r) PROVE Orderly
  <1> DEFINE q == [req[r] EXCEPT !.watch = "firing"]
  <1>1. req[r] \in Request /\ PhaseOf(req[r]) /\ req[r].watch = "armed" /\ req \in [Requests -> Request]
    BY DEF Fire, IInv, Types, Phases
  <1>2. Follows(r, q)
    BY <1>1 DEF Follows, Request, PhaseOf
  <1>3. req' = [req EXCEPT ![r] = q]
    BY <1>1 DEF Fire
  <1> HIDE DEF q
  <1> QED BY <1>2, <1>3, FollowStep DEF Fire

\* The request once its watchdog is done, and while it falls back.
LEMMA OffFollows ==
  ASSUME IInv, NEW r \in Requests, req[r].watch \in {"firing", "fallback"}
  PROVE  /\ Follows(r, Off(req[r])) /\ Follows(r, Off(Returned(r)))
         /\ Follows(r, [req[r] EXCEPT !.watch = "fallback"])
         /\ req[r].lease \in Slots /\ req[r].holder \in Holders
  <1>1. req[r] \in Request /\ PhaseOf(req[r])
    BY DEF IInv, Types, Phases
  <1>2. req[r].lease \in Slots /\ req[r].holder \in Holders
    BY <1>1 DEF PhaseOf
  <1>3. Follows(r, Off(req[r]))
    <2>1. CASE req[r].phase = "over"
      BY <2>1, BareRequest DEF Follows, Off
    <2>2. CASE req[r].phase # "over"
      BY <1>1, <2>2 DEF Follows, Request, PhaseOf, Off
    <2> QED BY <2>1, <2>2
  <1>4. Follows(r, Off(Returned(r)))
    <2>1. CASE req[r].phase = "over"
      BY <1>1, <2>1, BareRequest DEF Follows, Returned, Off, Request
    <2>2. CASE req[r].phase # "over"
      BY <1>1, <2>2 DEF Follows, Request, PhaseOf, Returned, Off
    <2> QED BY <2>1, <2>2
  <1>5. Follows(r, [req[r] EXCEPT !.watch = "fallback"])
    BY <1>1, <1>2 DEF Follows, Request, PhaseOf
  <1> QED BY <1>2, <1>3, <1>4, <1>5

LEMMA ReleaseHardStep == ASSUME IInv, NEW r \in Requests, ReleaseHard(r) PROVE Orderly
  <1>1. req[r].watch = "firing" /\ UNCHANGED <<pin, ttl>> /\ req \in [Requests -> Request]
    BY DEF ReleaseHard, IInv, Types
  <1>2. PICK q : /\ Follows(r, q) /\ req' = [req EXCEPT ![r] = q]
                 /\ \/ UNCHANGED <<slot, outside>>
                    \/ slot' = [slot EXCEPT ![req[r].lease] = Free] /\ SlotsFreed
    <2> DEFINE q0 == Off(req[r])
               q1 == Off(Returned(r))
               q2 == [req[r] EXCEPT !.watch = "fallback"]
    <2>1. Follows(r, q0) /\ Follows(r, q1) /\ Follows(r, q2)
      BY <1>1, OffFollows
    <2>2. /\ \/ req' = [req EXCEPT ![r] = q0]
             \/ req' = [req EXCEPT ![r] = q1]
             \/ req' = [req EXCEPT ![r] = q2]
          /\ \/ UNCHANGED <<slot, outside>>
             \/ slot' = [slot EXCEPT ![req[r].lease] = Free] /\ SlotsFreed
      BY <1>1 DEF ReleaseHard
    <2> HIDE DEF q0, q1, q2
    <2> QED BY <2>1, <2>2
  <1>3. req[r].lease \in Slots
    BY <1>1, OffFollows
  <1>4. CASE UNCHANGED <<slot, outside>>
    BY <1>1, <1>2, <1>4, FollowStep
  <1>5. CASE slot' = [slot EXCEPT ![req[r].lease] = Free] /\ SlotsFreed
    <2>1. slot' = [s \in Slots |-> IF s \in {req[r].lease} THEN Free ELSE slot[s]]
      BY <1>5 DEF IInv, Types
    <2>2. slot' \in [Slots -> Key] /\ Moves /\ \A s \in Slots : slot'[s] \in {slot[s], Free}
      BY <1>3, <2>1, FreeSlots
    <2>3. req' \in [Requests -> Request] /\ Phases' /\ req'[r] = q /\ \A x \in Requests : x # r => req'[x] = req[x]
      BY <1>2, OneRequest DEF Follows
    <2>4. Leases
      BY <1>2, <2>3, OneLease DEF LeaseKept, Follows
    <2>5. outside' # "none" /\ (outside' = outside \/ (outside = "none" /\ outside' = "freed"))
          /\ outside' \in {"none", "freed", "tuned"}
      BY <1>5 DEF SlotsFreed, IInv, Types
    <2> QED BY <1>1, <2>2, <2>3, <2>4, <2>5 DEF Orderly, IInv, Types
  <1> QED BY <1>2, <1>4, <1>5

LEMMA FallbackStep == ASSUME IInv, NEW r \in Requests, Fallback(r) PROVE Orderly
  <1>1. req[r].watch = "fallback" /\ UNCHANGED <<ttl, outside>>
        /\ releaseFiniteLease(r, Off(Returned(r)), Off(req[r]))
    BY DEF Fallback
  <1> QED BY <1>1, OffFollows, FiniteLeaseStep

\* The requests are left alone.
LEMMA SameRequests == ASSUME IInv, req' = req PROVE req' \in [Requests -> Request] /\ Phases' /\ Leases
  BY DEF IInv, Types, Phases, PhaseOf, Leases, LeaseKept

LEMMA PinStep ==
  ASSUME IInv, NEW h \in Holders, pin' = [pin EXCEPT ![h] = NoSlot], UNCHANGED <<slot, req, ttl, outside>>
  PROVE  Orderly
  <1>1. pin' \in [Holders -> Slots \cup {NoSlot}]
    BY DEF IInv, Types
  <1> QED BY <1>1, SameRequests, KeepSlots DEF Orderly, IInv, Types

LEMMA ForceUnpinStep == ASSUME IInv, NEW r \in Requests, ForceUnpin(r) PROVE Orderly
  <1>1. req[r].holder \in Holders
    BY DEF ForceUnpin, IInv, Phases, PhaseOf
  <1> QED BY <1>1, PinStep DEF ForceUnpin

LEMMA AdminStep ==
  ASSUME IInv, (\E s \in Slots : ReleaseSlot(s)) \/ ResetSlots PROVE Orderly
  <1>1. PICK S \in SUBSET Slots : slot' = [s \in Slots |-> IF s \in S THEN Free ELSE slot[s]]
    <2>1. ASSUME NEW s \in Slots, ReleaseSlot(s)
          PROVE  slot' = [t \in Slots |-> IF t \in {s} THEN Free ELSE slot[t]]
      BY <2>1 DEF ReleaseSlot, IInv, Types
    <2>2. ASSUME ResetSlots PROVE slot' = [t \in Slots |-> IF t \in Slots THEN Free ELSE slot[t]]
      BY <2>2 DEF ResetSlots
    <2> QED BY <2>1, <2>2
  <1>2. slot' \in [Slots -> Key] /\ Moves /\ \A s \in Slots : slot'[s] \in {slot[s], Free}
    BY <1>1, FreeSlots
  <1>3. SlotsFreed /\ UNCHANGED <<req, ttl>>
    BY DEF ReleaseSlot, ResetSlots
  <1>4. outside' # "none" /\ (outside' = outside \/ (outside = "none" /\ outside' = "freed"))
        /\ outside' \in {"none", "freed", "tuned"}
    BY <1>3 DEF SlotsFreed, IInv, Types
  <1>5. pin' \in [Holders -> Slots \cup {NoSlot}]
    BY DEF ReleaseSlot, ResetSlots, IInv, Types
  <1> QED BY <1>2, <1>3, <1>4, <1>5, SameRequests DEF Orderly, IInv, Types
-----------------------------------------------------------------------------
\* The sweep, the setting and the clock.

LEMMA ReclaimSlot ==
  ASSUME IInv, NEW s \in Slots, Reclaim(s)
  PROVE  /\ slot' \in [Slots -> Key] /\ Moves /\ \A t \in Slots : slot'[t] \in {slot[t], Free}
         /\ \A t \in Slots : t # s => slot'[t] = slot[t]
  <1>1. slot' = [t \in Slots |-> IF t \in {s} THEN Free ELSE slot[t]]
    BY DEF Reclaim, IInv, Types
  <1>2. slot' \in [Slots -> Key] /\ Moves /\ \A t \in Slots : slot'[t] \in {slot[t], Free}
    BY <1>1, FreeSlots
  <1> QED BY <1>1, <1>2

LEMMA ReclaimInv == ASSUME IInv, NEW s \in Slots, Reclaim(s) PROVE IInv'
  <1>1. Types' /\ Phases'
    BY ReclaimSlot, SameRequests DEF Reclaim, IInv, Types
  <1>2. Aging' /\ Current'
    BY ReclaimSlot, AgingKept DEF Reclaim
  <1> QED BY <1>1, <1>2 DEF IInv

\* The sweep takes no slot used within the gate if it is not quicker than it.
LEMMA ReclaimOrderly == ASSUME Gate <= ReclaimIdle, IInv, NEW s \in Slots, Reclaim(s) PROVE Orderly
  <1>1. /\ slot' \in [Slots -> Key] /\ Moves
        /\ \A t \in Slots : t # s => slot'[t] = slot[t]
    BY ReclaimSlot
  <1>2. ~IsFree(s) /\ IdleTime(s) >= ReclaimIdle /\ UNCHANGED <<pin, req, ttl, outside>>
    BY DEF Reclaim
  <1>3. Gentle
    <2>1. /\ IdleTime(s) = ttl - Min({Remaining(s), ttl}) /\ Min({Remaining(s), ttl}) \in Nat
          /\ ~slot[s].stale => (IdleTime(s) >= Gate => Idled(slot[s].silent))
      BY <1>2, IdleMeans
    <2>2. ttl \in Nat /\ Gate \in Nat /\ ReclaimIdle \in Nat
      BY SlotAssumption DEF IInv, Types
    <2>4. IdleTime(s) >= Gate
      BY <1>2, <2>1, <2>2
    <2>3. slot[s].stale \/ Idled(slot[s].silent)
      BY <2>1, <2>4
    <2> QED BY <1>1, <2>3 DEF Gentle
  <1> QED BY <1>1, <1>2, <1>3, SameRequests DEF Orderly, IInv, Types

LEMMA SetTTLInv == ASSUME IInv, NEW t \in TTLs, SetTTL(t) PROVE IInv'
  <1>1. t \in Nat \ {0} /\ t % Second = 0
    BY SlotAssumption
  <1>2. slot' = [s \in Slots |-> IF IsFree(s) THEN Free ELSE [slot[s] EXCEPT !.stale = TRUE]]
        /\ ttl' = t /\ outside' = "tuned" /\ UNCHANGED <<pin, req>>
    BY DEF SetTTL
  <1>3. ASSUME NEW s \in Slots PROVE slot'[s] \in Key /\ (slot'[s].holder = NoHolder \/ slot'[s].stale)
    <2>1. slot[s] \in Key
      BY <1>3 DEF IInv, Types
    <2>2. CASE IsFree(s)
      BY <1>2, <2>2, FreeKey DEF Free
    <2>3. CASE ~IsFree(s)
      <3>1. slot'[s] = [slot[s] EXCEPT !.stale = TRUE] /\ TRUE \in BOOLEAN
        BY <1>2, <2>3
      <3> QED BY <2>1, <3>1 DEF Key
    <2> QED BY <2>2, <2>3
  <1>4. slot' \in [Slots -> Key]
    BY <1>2, <1>3
  <1>5. Aging' /\ Current'
    BY <1>2, <1>3 DEF Aging, Current, IsFree
  <1> QED BY <1>1, <1>2, <1>4, <1>5, SameRequests DEF IInv, Types

\* One tick of a slot key.
LEMMA AgedKey ==
  ASSUME Types, NEW k \in Key, ~k.stale, k.holder # NoHolder => AgingOf(k)
  PROVE  /\ Aged(k) \in Key
         /\ Aged(k).holder # NoHolder => /\ k.holder # NoHolder /\ AgingOf(Aged(k)) /\ Aged(k).holder = k.holder
                                        /\ Aged(k).silent <= k.silent + 1
         /\ (k.holder # NoHolder /\ k.left # 1) => Aged(k).holder = k.holder
  <1>0. k.left \in Nat /\ k.silent \in Nat /\ Gate \in Nat \ {0} /\ ttl \in Nat
    BY SlotAssumption DEF Key, Types
  <1>1. CASE k.holder = NoHolder \/ k.left = 1
    <2>1. Aged(k) = Free
      BY <1>1 DEF Aged
    <2> QED BY <1>1, <2>1, FreeKey DEF Free
  <1>2. CASE k.holder # NoHolder /\ k.left # 1
    <2>1. AgingOf(k) /\ k.left > 1
      BY <1>0, <1>2 DEF AgingOf
    <2> DEFINE m == Min({k.silent + 1, Gate})
    <2>2. m = (IF k.silent + 1 <= Gate THEN k.silent + 1 ELSE Gate) /\ k.silent + 1 \in Nat
      BY <1>0, MinPair
    <2> HIDE DEF m
    <2>3. Aged(k) = [k EXCEPT !.left = k.left - 1, !.silent = m]
      BY <1>0, <1>2, <2>1 DEF Aged, m
    <2>4. Aged(k).left = k.left - 1 /\ Aged(k).silent = m /\ Aged(k).holder = k.holder
      BY <2>3 DEF Key
    <2>5. m \in Nat /\ m <= Gate /\ m <= k.silent + 1 /\ k.left - 1 \in Nat
      BY <1>0, <2>1, <2>2
    <2>6. Aged(k) \in Key
      BY <2>3, <2>5 DEF Key
    <2>7. AgingOf(Aged(k))
      <3>1. k.left <= ttl /\ k.silent <= Gate
        BY <2>1 DEF AgingOf
      <3>2. CASE k.silent < Gate
        <4>1. k.left + k.silent = ttl /\ m = k.silent + 1
          BY <1>0, <2>1, <2>2, <3>2 DEF AgingOf
        <4> QED BY <1>0, <2>1, <2>4, <2>5, <3>1, <4>1 DEF AgingOf
      <3>3. CASE k.silent = Gate
        <4>1. k.left + Gate <= ttl /\ m = Gate
          BY <1>0, <2>1, <2>2, <3>3 DEF AgingOf
        <4> QED BY <1>0, <2>1, <2>4, <2>5, <3>1, <4>1 DEF AgingOf
      <3> QED BY <1>0, <3>1, <3>2, <3>3
    <2> QED BY <1>2, <2>4, <2>5, <2>6, <2>7
  <1> QED BY <1>1, <1>2

\* The key keeps its type whatever its TTL is.
LEMMA AgedType ==
  ASSUME NEW k \in Key
  PROVE  Aged(k) \in Key /\ Aged(k).holder \in {k.holder, NoHolder}
         /\ (Aged(k).holder # NoHolder => Aged(k).stale = k.stale) /\ (Aged(k).stale => k.stale)
  <1>0. k.left \in Nat /\ k.silent \in Nat /\ Gate \in Nat
    BY SlotAssumption DEF Key
  <1>1. Min({k.silent + 1, Gate}) \in Nat
    BY <1>0, MinPair
  <1>2. CASE k.holder = NoHolder \/ k.left = 1
    BY <1>2, FreeKey DEF Aged, Free
  <1>3. CASE k.holder # NoHolder /\ k.left # 1 /\ k.left # 0
    <2> DEFINE m == Min({k.silent + 1, Gate})
    <2> HIDE DEF m
    <2>1. Aged(k) = [k EXCEPT !.left = k.left - 1, !.silent = m]
      BY <1>3 DEF Aged, m
    <2>2. k.left - 1 \in Nat /\ m \in Nat
      BY <1>0, <1>1, <1>3 DEF m
    <2> QED BY <2>1, <2>2 DEF Key
  <1>4. CASE k.holder # NoHolder /\ k.left = 0
    BY <1>4 DEF Aged
  <1> QED BY <1>2, <1>3, <1>4

\* The record of a request after a tick.
Older(q) == IF q.phase # "run" THEN q ELSE [q EXCEPT !.age = Min({@ + 1, Max({Gate, HardCap})})]

LEMMA OlderRequest ==
  ASSUME NEW q \in Request, PhaseOf(q)
  PROVE  /\ Older(q) \in Request /\ PhaseOf(Older(q))
         /\ Older(q).phase = q.phase /\ Older(q).lease = q.lease /\ Older(q).holder = q.holder
         /\ (Older(q).phase = "run" /\ Older(q).age < Gate) => Older(q).age = q.age + 1
  <1>0. q.age \in Nat /\ Gate \in Nat /\ HardCap \in Nat
    BY SlotAssumption DEF Request
  <1> DEFINE top == Max({Gate, HardCap})
             m == Min({q.age + 1, top})
  <1>1. top \in Nat /\ Gate <= top
    BY <1>0, MaxPair
  <1> HIDE DEF top
  <1>2. m = IF q.age + 1 <= top THEN q.age + 1 ELSE top
    BY <1>0, <1>1, MinPair
  <1>3. m \in Nat /\ (m < Gate => m = q.age + 1)
    BY <1>0, <1>1, <1>2
  <1> HIDE DEF m
  <1>4. CASE q.phase # "run"
    BY <1>4 DEF Older
  <1>5. CASE q.phase = "run"
    <2>1. Older(q) = [q EXCEPT !.age = m]
      BY <1>5 DEF Older, m, top
    <2>2. Older(q) \in Request /\ PhaseOf(Older(q))
      BY <1>3, <1>5, <2>1 DEF Request, PhaseOf
    <2> QED BY <1>3, <1>5, <2>1, <2>2 DEF Request
  <1> QED BY <1>4, <1>5

LEMMA TickInv == ASSUME IInv, Tick PROVE IInv'
  <1>1. UNCHANGED <<pin, ttl, outside>> /\ slot' = [s \in Slots |-> Aged(slot[s])]
        /\ req' = [r \in Requests |-> Older(req[r])]
    BY DEF Tick, Older
  <1>2. \A s \in Slots : slot[s] \in Key
    BY DEF IInv, Types
  <1>3. \A r \in Requests : req[r] \in Request /\ PhaseOf(req[r])
    BY DEF IInv, Types, Phases
  <1>4. slot' \in [Slots -> Key]
    BY <1>1, <1>2, AgedType
  <1>5. req' \in [Requests -> Request] /\ Phases'
    <2>1. \A r \in Requests : req'[r] \in Request /\ PhaseOf(req'[r])
      BY <1>1, <1>3, OlderRequest
    <2> QED BY <1>1, <2>1 DEF Phases, PhaseOf
  <1>6. ASSUME NEW s \in Slots, slot'[s].holder # NoHolder, ~slot'[s].stale PROVE AgingOf(slot'[s])
    <2>1. slot'[s] = Aged(slot[s])
      BY <1>1, <1>6
    <2>2. ~slot[s].stale
      BY <1>2, <1>6, <2>1, AgedType
    <2>3. slot[s].holder # NoHolder => AgingOf(slot[s])
      BY <1>6, <2>2 DEF IInv, Aging, IsFree
    <2> QED BY <1>2, <1>6, <2>1, <2>2, <2>3, AgedKey DEF IInv
  <1>7. ASSUME NEW k PROVE AgingOf(k) => (1 <= k.left /\ k.left <= ttl' /\ k.silent <= Gate
                               /\ (k.silent < Gate => k.left + k.silent = ttl')
                               /\ (k.silent = Gate => k.left + Gate <= ttl'))
    BY <1>1 DEF AgingOf
  <1>8. Aging'
    BY <1>1, <1>6, <1>7 DEF Aging, IsFree, AgingOf
  <1>9. Current'
    BY <1>1, <1>2, AgedType DEF IInv, Current
  <1> QED BY <1>1, <1>4, <1>5, <1>8, <1>9 DEF IInv, Types

\* A key does not run out under a lease younger than the gate.
LEMMA TickFresh == ASSUME Gate <= ttl, IInv, Fresh, Tick PROVE Fresh'
  <1>1. UNCHANGED <<pin, ttl, outside>> /\ slot' = [s \in Slots |-> Aged(slot[s])]
        /\ req' = [r \in Requests |-> Older(req[r])]
    BY DEF Tick, Older
  <1> SUFFICES ASSUME outside' = "none", NEW r \in Requests, req'[r].phase = "run", ~Idled(req'[r].age)
               PROVE  /\ slot'[req'[r].lease].holder = req'[r].holder
                      /\ slot'[req'[r].lease].silent <= req'[r].age
    BY DEF Fresh, Owned, Own
  <1> DEFINE s == req[r].lease
  <1>2. req[r] \in Request /\ PhaseOf(req[r]) /\ req'[r] = Older(req[r])
    BY <1>1 DEF IInv, Types, Phases
  <1>6. Gate \in Nat /\ ttl \in Nat /\ Second \in Nat \ {0}
    BY SlotAssumption DEF IInv, Types
  <1>12. req'[r].age \in Nat
    BY <1>2, OlderRequest DEF Request
  <1>13. req'[r].age < Gate
    BY <1>6, <1>12 DEF Idled
  <1>3. /\ req[r].phase = "run" /\ req'[r].lease = s /\ req'[r].holder = req[r].holder
        /\ req'[r].age = req[r].age + 1
    BY <1>2, <1>13, OlderRequest
  <1>4. s \in Slots /\ req[r].holder \in Holders /\ req[r].age \in Nat
    BY <1>2, <1>3 DEF PhaseOf, Request
  <1>5. slot[s] \in Key /\ slot'[s] = Aged(slot[s]) /\ slot[s].silent \in Nat /\ slot[s].left \in Nat
    BY <1>1, <1>4 DEF IInv, Types, Key
  <1>7. slot[s].holder = req[r].holder /\ slot[s].silent <= req[r].age
    <2>1. ~Idled(req[r].age) /\ outside = "none"
      BY <1>1, <1>3, <1>4, <1>6 DEF Idled
    <2> QED BY <1>3, <2>1 DEF Fresh, Owned, Own
  <1>8. slot[s].holder # NoHolder /\ ~slot[s].stale /\ AgingOf(slot[s])
    BY <1>1, <1>4, <1>7, SlotAssumption DEF IInv, Aging, Current, IsFree
  <1>9. slot[s].left # 1
    <2>1. slot[s].silent < Gate /\ slot[s].silent + 1 < Gate
      BY <1>3, <1>4, <1>5, <1>6, <1>7, <1>13
    <2>2. slot[s].left + slot[s].silent = ttl
      BY <1>8, <2>1 DEF AgingOf
    <2> QED BY <1>5, <1>6, <2>1, <2>2
  <1>10. slot'[s].holder = slot[s].holder /\ slot'[s].silent <= slot[s].silent + 1 /\ slot'[s] \in Key
    BY <1>5, <1>8, <1>9, AgedKey DEF IInv
  <1>11. slot'[s].silent \in Nat
    BY <1>10 DEF Key
  <1> HIDE DEF s
  <1> QED BY <1>3, <1>4, <1>5, <1>7, <1>10, <1>11
-----------------------------------------------------------------------------
\* Every step.

\* The steps that need no more than being orderly.
Ordinary ==
  \/ \E r \in Requests, h \in Holders : Start(r, h)
  \/ \E r \in Requests : Step(r) \/ End(r) \/ Fire(r) \/ ForceUnpin(r)
  \/ \E s \in Slots : ReleaseSlot(s)
  \/ ResetSlots
  \/ \E h \in Holders : PinExpires(h)

LEMMA OrdinaryStep == ASSUME IInv, Ordinary PROVE Orderly
  <1>1. ASSUME NEW r \in Requests, Step(r) PROVE Orderly
    BY <1>1, PinReuseStep, ScanStep, ReleaseStep, ReleaseLostStep, ReleaseHardStep, FallbackStep DEF Step
  <1>2. ASSUME NEW h \in Holders, PinExpires(h) PROVE Orderly
    BY <1>2, PinStep DEF PinExpires
  <1> QED BY <1>1, <1>2, StartStep, EndStep, FireStep, ForceUnpinStep, AdminStep DEF Ordinary

LEMMA NextCases ==
  ASSUME Next
  PROVE  Ordinary \/ (\E s \in Slots : Reclaim(s)) \/ (\E t \in TTLs : SetTTL(t)) \/ Tick
  BY DEF Next, Ordinary

LEMMA InitInv == Init => IInv
  <1> SUFFICES ASSUME Init PROVE IInv
    OBVIOUS
  <1>1. slot \in [Slots -> Key] /\ pin \in [Holders -> Slots \cup {NoSlot}]
    BY FreeKey DEF Init
  <1>2. Bare("over") \in Request /\ PhaseOf(Bare("over"))
    BY BareRequest
  <1>3. req \in [Requests -> Request] /\ Phases
    BY <1>2 DEF Init, Phases
  <1>4. ttl \in Nat \ {0} /\ ttl % Second = 0 /\ outside \in {"none", "freed", "tuned"}
    BY SlotAssumption DEF Init
  <1>5. Aging /\ Current
    BY DEF Init, Aging, Current, IsFree, Free
  <1> QED BY <1>1, <1>3, <1>4, <1>5 DEF IInv, Types

LEMMA StutterInv == ASSUME IInv, UNCHANGED vars PROVE IInv'
  BY DEF vars, IInv, Types, Phases, PhaseOf, Aging, AgingOf, Current, IsFree

LEMMA NextInv == IInv /\ [Next]_vars => IInv'
  <1> SUFFICES ASSUME IInv, [Next]_vars PROVE IInv'
    OBVIOUS
  <1>1. CASE Ordinary
    BY <1>1, OrdinaryStep, OrderlyInv
  <1>2. CASE UNCHANGED vars
    BY <1>2, StutterInv
  <1> QED BY <1>1, <1>2, NextCases, ReclaimInv, SetTTLInv, TickInv

\* The inductive invariant: what is left of a TTL tells how long a holder has
\* been silent, for any settings and any sequence of lost and failed replies.
THEOREM SlotInvariance == Spec => []IInv
  BY InitInv, NextInv, PTL DEF Spec

\* The operator's rule on the gate: no script and no release, however late,
\* takes a slot from a holder that was active within the gate, less half a
\* second, and no order of the two steps of Acquire does.
THEOREM ActiveHolderKeepsSlot == Spec => ActiveKept
  <1> DEFINE A == \A s \in Slots :
                    (~IsFree(s) /\ ~slot[s].stale /\ slot'[s].holder \notin {NoHolder, slot[s].holder}) => Idled(slot[s].silent)
  <1>1. IInv /\ [Next]_vars => [A]_vars
    <2> SUFFICES ASSUME IInv, Next, NEW s \in Slots, ~IsFree(s), ~slot[s].stale,
                        slot'[s].holder \notin {NoHolder, slot[s].holder}
                 PROVE  Idled(slot[s].silent)
      OBVIOUS
    <2>0. slot[s] \in Key
      BY DEF IInv, Types
    <2>1. CASE Ordinary
      <3>1. Orderly
        BY <2>1, OrdinaryStep
      <3>2. Gentle \/ slot'[s] \in {slot[s], Free}
        BY <3>1 DEF Orderly
      <3> QED BY <2>0, <3>2 DEF Gentle, Free
    <2>2. ASSUME NEW t \in Slots, Reclaim(t) PROVE FALSE
      <3>1. slot'[s] \in {slot[s], Free}
        BY <2>2, ReclaimSlot
      <3> QED BY <3>1 DEF Free
    <2>3. ASSUME NEW t \in TTLs, SetTTL(t) PROVE FALSE
      <3>1. slot'[s] = [slot[s] EXCEPT !.stale = TRUE]
        BY <2>3 DEF SetTTL
      <3> QED BY <2>0, <3>1 DEF Key
    <2>4. CASE Tick
      <3>1. slot'[s] = Aged(slot[s])
        BY <2>4 DEF Tick
      <3> QED BY <2>0, <3>1, AgedType
    <2> QED BY <2>1, <2>2, <2>3, <2>4, NextCases
  <1> QED BY <1>1, SlotInvariance, PTL DEF Spec, ActiveKept

\* A lease younger than the gate, less half a second, owns its slot until an
\* administrator or a watchdog frees slots or the setting changes, if the gate is no longer than
\* the TTL and the idle time of the sweep.  (By default the gate is 300 s, the
\* TTL is kept at 300 s or more and the sweep's idle time is 1800 s.)
THEOREM FreshLeaseOwnsSlot ==
  ASSUME Gate <= FirstTTL, Gate <= ReclaimIdle
  PROVE  Spec => []FreshLeaseOwns
  <1> DEFINE Untuned == outside # "tuned" => ttl = FirstTTL
  <1>1. Init => Fresh /\ Untuned
    BY SlotAssumption DEF Init, Fresh, Bare
  <1>2. IInv /\ Fresh /\ Untuned /\ [Next]_vars => Fresh' /\ Untuned'
    <2> SUFFICES ASSUME IInv, Fresh, Untuned, [Next]_vars PROVE Fresh' /\ Untuned'
      OBVIOUS
    <2>1. CASE Orderly
      BY <2>1, OrderlyFresh DEF Orderly
    <2>2. ASSUME NEW t \in TTLs, SetTTL(t) PROVE Fresh' /\ Untuned'
      BY <2>2 DEF SetTTL, Fresh
    <2>3. CASE Tick /\ outside # "tuned"
      BY <2>3, TickFresh DEF Tick
    <2>4. CASE Tick /\ outside = "tuned"
      BY <2>4 DEF Tick, Fresh
    <2>5. CASE UNCHANGED vars
      BY <2>5 DEF vars, Fresh, Owned, Own
    <2>6. ASSUME NEW s \in Slots, Reclaim(s) PROVE Orderly
      BY <2>6, ReclaimOrderly
    <2> QED BY <2>1, <2>2, <2>3, <2>4, <2>5, <2>6, OrdinaryStep, NextCases
  <1>3. Fresh => FreshLeaseOwns
    BY DEF Fresh, FreshLeaseOwns
  <1> HIDE DEF Untuned
  <1> QED BY <1>1, <1>2, <1>3, SlotInvariance, PTL DEF Spec
-----------------------------------------------------------------------------
\* Refusals.

\* No request is turned away in the step.
NoRefusal == \A r \in Requests : req'[r].phase = "refused" => req[r].phase = "refused"

LEMMA NotRefused ==
  ASSUME IInv, NEW r \in Requests, NEW q, req' = [req EXCEPT ![r] = q], q.phase = "refused" => req[r].phase = "refused"
  PROVE  NoRefusal
  BY DEF NoRefusal, IInv, Types

LEMMA SameRefused == ASSUME req' = req PROVE NoRefusal
  BY DEF NoRefusal

\* Only the scan turns a request away.
LEMMA OthersRefuseNone ==
  ASSUME IInv, Next, \A r \in Requests : ~Scan(r) PROVE NoRefusal
  <1>0. req \in [Requests -> Request]
    BY DEF IInv, Types
  <1>1. ASSUME NEW r \in Requests, NEW h \in Holders, Start(r, h) PROVE NoRefusal
    <2>1. PICK seen \in {pin[h], NoSlot} :
            req' = [req EXCEPT ![r] =
                      [Bare(IF seen = NoSlot THEN "scan" ELSE "pin") EXCEPT !.holder = h, !.seen = seen]]
      BY <1>1 DEF Start
    <2>2. [Bare(IF seen = NoSlot THEN "scan" ELSE "pin") EXCEPT !.holder = h, !.seen = seen].phase # "refused"
      BY DEF Bare
    <2> QED BY <2>1, <2>2, NotRefused
  <1>2. ASSUME NEW r \in Requests, PinReuse(r) PROVE NoRefusal
    <2>1. [req EXCEPT ![r].phase = "scan", ![r].seen = NoSlot]
            = [req EXCEPT ![r] = [req[r] EXCEPT !.phase = "scan", !.seen = NoSlot]]
      BY <1>0
    <2>2. [req[r] EXCEPT !.phase = "scan", !.seen = NoSlot].phase = "scan" /\ Granted(r, req[r].seen).phase = "run"
      BY <1>0 DEF Granted, Request
    <2>3. \/ req' = [req EXCEPT ![r] = [req[r] EXCEPT !.phase = "scan", !.seen = NoSlot]]
          \/ req' = [req EXCEPT ![r] = Granted(r, req[r].seen)]
      BY <1>2, <2>1 DEF PinReuse
    <2> QED BY <2>2, <2>3, NotRefused
  <1>3. ASSUME NEW r \in Requests, Release(r) PROVE NoRefusal
    <2> DEFINE Over(q) == IF q.watch = "firing" THEN [q EXCEPT !.phase = "over"] ELSE Bare("over")
    <2>1. Over(req[r]).phase # "refused" /\ Over(Returned(r)).phase # "refused"
      BY <1>0 DEF Bare, Returned, Request
    <2>2. req' = [req EXCEPT ![r] = Over(req[r])] \/ req' = [req EXCEPT ![r] = Over(Returned(r))]
      BY <1>3 DEF Release, releaseFiniteLease
    <2> HIDE DEF Over
    <2> QED BY <2>1, <2>2, NotRefused
  <1>4. ASSUME NEW r \in Requests, ReleaseHard(r) \/ Fallback(r) PROVE NoRefusal
    <2> DEFINE q == [req[r] EXCEPT !.watch = "fallback"]
    <2>1. Off(req[r]).phase = req[r].phase /\ Off(Returned(r)).phase = req[r].phase /\ q.phase = req[r].phase
      BY <1>0 DEF Bare, Returned, Request, Off
    <2>2. \/ req' = [req EXCEPT ![r] = Off(req[r])]
          \/ req' = [req EXCEPT ![r] = Off(Returned(r))]
          \/ req' = [req EXCEPT ![r] = q]
      BY <1>0, <1>4 DEF ReleaseHard, Fallback, releaseFiniteLease
    <2> HIDE DEF q
    <2> QED BY <2>1, <2>2, NotRefused
  <1>5. ASSUME NEW r \in Requests, End(r) \/ Fire(r) PROVE NoRefusal
    BY <1>0, <1>5 DEF End, Fire, NoRefusal, Request
  <1>6. CASE Tick
    <2>1. \A r \in Requests : req'[r] = Older(req[r]) /\ req[r] \in Request /\ PhaseOf(req[r])
      BY <1>6 DEF Tick, Older, IInv, Types, Phases
    <2> QED BY <2>1, OlderRequest DEF NoRefusal
  <1>7. CASE \/ \E r \in Requests : ReleaseLost(r) \/ ForceUnpin(r)
             \/ \E s \in Slots : ReleaseSlot(s) \/ Reclaim(s)
             \/ ResetSlots
             \/ \E t \in TTLs : SetTTL(t)
             \/ \E h \in Holders : PinExpires(h)
    <2>1. req' = req
      BY <1>7 DEF ReleaseLost, ForceUnpin, ReleaseSlot, Reclaim, ResetSlots, SetTTL, PinExpires
    <2> QED BY <2>1, SameRefused
  <1> QED BY <1>1, <1>2, <1>3, <1>4, <1>5, <1>6, <1>7 DEF Next, Step

\* A request is turned away only when every slot is another holder's and was
\* used within the gate (or before the TTL setting changed): the arithmetic on the TTL never hides a slot that
\* could be had.
THEOREM RefusalIsReal == Spec => SaturatedIsReal
  <1> DEFINE A == \A r \in Requests : (req[r].phase # "refused" /\ req'[r].phase = "refused") =>
                    \A s \in Slots : ~IsFree(s) /\ ~Own(s, req[r].holder) /\ (slot[s].stale \/ slot[s].silent < Gate)
  <1>1. IInv /\ [Next]_vars => [A]_vars
    <2> SUFFICES ASSUME IInv, Next, NEW r \in Requests, req[r].phase # "refused",
                        req'[r].phase = "refused", NEW s \in Slots
                 PROVE  ~IsFree(s) /\ ~Own(s, req[r].holder) /\ (slot[s].stale \/ slot[s].silent < Gate)
      OBVIOUS
    <2>1. PICK x \in Requests : Scan(x)
      BY OthersRefuseNone DEF NoRefusal
    <2>2. req[r] \in Request /\ req[x] \in Request /\ req \in [Requests -> Request]
      BY DEF IInv, Types
    <2>3. x = r
      BY <2>1, <2>2 DEF Scan
    <2>4. Hits(req[r].holder) \cup IdleSlots = {}
      <3>1. Granted(r, ScanSlot(req[r].holder)).phase = "run" /\ Bare("over").phase = "over"
        BY <2>2 DEF Granted, Bare, Request
      <3>2. ASSUME NEW q, req' = [req EXCEPT ![r] = q] PROVE q.phase = "refused"
        BY <2>2, <3>2
      <3> QED BY <2>1, <2>3, <3>1, <3>2 DEF Scan, ScanSlot
    <2>5. ~IsFree(s) /\ ~Own(s, req[r].holder) /\ ~(IdleTime(s) >= Gate)
      BY <2>4 DEF Hits, IdleSlots
    <2>6. slot[s].silent \in Nat /\ Gate \in Nat /\ (~slot[s].stale /\ slot[s].silent >= Gate => IdleTime(s) >= Gate)
      BY <2>5, IdleMeans, SlotAssumption DEF IInv, Types, Key
    <2> QED BY <2>5, <2>6
  <1> QED BY <1>1, SlotInvariance, PTL DEF Spec, SaturatedIsReal
=============================================================================
