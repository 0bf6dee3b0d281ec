--------------------------- MODULE SubscriptionFeed ---------------------------
(***************************************************************************)
(* What subscribe() promises its caller about the events and the EOSE      *)
(* ("end of stored events") notices that a relay sends, with nothing said  *)
(* about buffers, counters or validation: an event that arrived is handed  *)
(* to onEvent at most once, and onEOSE is called at most once per EOSE,    *)
(* never before the events that had arrived when the EOSE did.             *)
(* RelaySubscription implements this specification.                        *)
(***************************************************************************)
EXTENDS Naturals

CONSTANTS
  Subs,      \* subscriptions
  Messages,  \* event messages that may arrive
  NoSub      \* not the identity of a subscription

VARIABLES
  arrivedFor,  \* subscription that a message arrived for, or NoSub
  waiting,     \* messages that may still be handed over
  handed,      \* messages that were handed to onEvent
  eoseDue,     \* subscriptions with an EOSE to pass on
  owed,        \* per subscription: messages its next onEOSE call comes after
  eoseCalls    \* per subscription: calls of onEOSE

feedVars == <<arrivedFor, waiting, handed, eoseDue, owed, eoseCalls>>

ArrivedFor(s) == {m \in Messages : arrivedFor[m] = s}

Init ==
  /\ arrivedFor = [m \in Messages |-> NoSub]
  /\ waiting = {}
  /\ handed = {}
  /\ eoseDue = {}
  /\ owed = [s \in Subs |-> {}]
  /\ eoseCalls = [s \in Subs |-> 0]

\* A message that is invalid, or that arrives after the end of its
\* subscription, is not waiting to be handed over.
Arrive(m, s) ==
  /\ arrivedFor[m] = NoSub
  /\ arrivedFor' = [arrivedFor EXCEPT ![m] = s]
  /\ waiting' \in {waiting, waiting \cup {m}}
  /\ UNCHANGED <<handed, eoseDue, owed, eoseCalls>>

HandOver(m) ==
  /\ m \in waiting
  /\ waiting' = waiting \ {m}
  /\ handed' = handed \cup {m}
  /\ UNCHANGED <<arrivedFor, eoseDue, owed, eoseCalls>>

\* Messages and EOSEs are given up when the subscription ends, messages also
\* when a memory limit is reached.
GiveUp ==
  /\ waiting' \in SUBSET waiting
  /\ eoseDue' \in SUBSET eoseDue
  /\ UNCHANGED <<arrivedFor, handed, owed, eoseCalls>>

EoseArrives(s) ==
  /\ eoseDue' = eoseDue \cup {s}
  /\ owed' = [owed EXCEPT ![s] = ArrivedFor(s)]
  /\ UNCHANGED <<arrivedFor, waiting, handed, eoseCalls>>

TellEose(s) ==
  /\ s \in eoseDue
  /\ owed[s] \cap waiting = {}
  /\ eoseDue' = eoseDue \ {s}
  /\ eoseCalls' = [eoseCalls EXCEPT ![s] = @ + 1]
  /\ UNCHANGED <<arrivedFor, waiting, handed, owed>>

Next ==
  \/ GiveUp
  \/ \E m \in Messages : HandOver(m)
  \/ \E s \in Subs : EoseArrives(s) \/ TellEose(s) \/ \E m \in Messages : Arrive(m, s)

Spec == Init /\ [][Next]_feedVars
===============================================================================
