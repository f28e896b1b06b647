---------------------------- MODULE AtLeastOnce -----------------------------
(***************************************************************************)
(* What a delivery queue of the gateway promises, without workers, locks,  *)
(* attempts or timers: an item that was submitted stays owed until it has  *)
(* reached its consumer at least once and is then done, or it is given up  *)
(* and parked.  From there a delivery takes it out, or an operator, who    *)
(* drops it or makes it owed again.  What is done stays so, unless an      *)
(* operator who saw the item parked acts when it no longer is.             *)
(***************************************************************************)
CONSTANT Items

VARIABLES
  state,     \* absent, owed, done, parked or dropped
  received,  \* the items the consumer holds
  asked      \* the items an operator saw parked and is about to requeue

avars == <<state, received, asked>>

Init ==
  /\ state = [i \in Items |-> "absent"]
  /\ received = {}
  /\ asked = {}

Submit(i) ==
  /\ state[i] = "absent"
  /\ state' = [state EXCEPT ![i] = "owed"]
  /\ UNCHANGED <<received, asked>>

\* The consumer takes the item in; a repetition changes nothing.  A delivery
\* may arrive late, when another one has settled the item.
Receive(i) ==
  /\ state[i] # "absent"
  /\ received' = received \cup {i}
  /\ UNCHANGED <<state, asked>>

Settle(i) ==
  /\ state[i] \in {"owed", "parked"}
  /\ i \in received
  /\ state' = [state EXCEPT ![i] = "done"]
  /\ UNCHANGED <<received, asked>>

GiveUp(i) ==
  /\ state[i] = "owed"
  /\ state' = [state EXCEPT ![i] = "parked"]
  /\ UNCHANGED <<received, asked>>

Ask(i) ==
  /\ state[i] = "parked"
  /\ asked' = asked \cup {i}
  /\ UNCHANGED <<state, received>>

Requeue(i) ==
  /\ state[i] = "parked" \/ i \in asked
  /\ state' = [state EXCEPT ![i] = "owed"]
  /\ asked' \in {asked, asked \ {i}}
  /\ UNCHANGED received

Withdraw(i) ==
  /\ asked' = asked \ {i}
  /\ UNCHANGED <<state, received>>

Drop(i) ==
  /\ state[i] = "parked"
  /\ state' = [state EXCEPT ![i] = "dropped"]
  /\ UNCHANGED <<received, asked>>

Next ==
  \E i \in Items : \/ Submit(i) \/ Receive(i) \/ Settle(i) \/ GiveUp(i)
                   \/ Ask(i) \/ Requeue(i) \/ Withdraw(i) \/ Drop(i)

Spec == Init /\ [][Next]_avars
=============================================================================
