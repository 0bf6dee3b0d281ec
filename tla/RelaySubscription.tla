-------------------------- MODULE RelaySubscription --------------------------
(***************************************************************************)
(* Subscriptions of one Relay (src/src/nip01/relay.ts): subscribe() and    *)
(* unsubscribe(), the EVENT, EOSE and CLOSED messages, the asynchronous    *)
(* validation of events, the event buffers and their limits, and what      *)
(* disconnect() and a lost connection do to them.                          *)
(*                                                                         *)
(* One JavaScript thread.  A message starts a validation whose two         *)
(* reactions (processing the event, then counting it off) run later, in    *)
(* any order with respect to other messages and timers.  A flush hands a   *)
(* buffer over one callback at a time (running); until it ends only user   *)
(* calls made by those callbacks can intervene (constant Reentrant).       *)
(*                                                                         *)
(* The contents of events and the order within one flush (sortEvents) are  *)
(* abstracted: a message is an identity, a buffer a set.  Access times     *)
(* have the resolution of Date.now(), so that any buffer may be the oldest *)
(* one: eviction picks any buffer that has an access time.                 *)
(***************************************************************************)
EXTENDS Naturals, FiniteSets

CONSTANTS
  Subs,               \* subscription ids; each is used once
  Messages,           \* EVENT messages, each sent at most once by the relay
  Invalid,            \* the messages whose event fails validation
  NoSub,
  maxEventBuffers,
  maxEventsPerBuffer,
  MaxEose,            \* bound on the EOSE messages per subscription
  Reentrant           \* may callbacks call back into the relay?

ASSUME SubscriptionAssumption ==
  /\ NoSub \notin Subs
  /\ Invalid \subseteq Messages
  /\ maxEventBuffers \in Nat \ {0}
  /\ maxEventsPerBuffer \in Nat \ {0}
  /\ MaxEose \in Nat
  /\ Reentrant \in BOOLEAN

VARIABLES
  link,                     \* "none": no socket; "open"; "dropped": a dead one
  subscriptions,            \* ids in the map of subscriptions
  autoClose,                \* ids subscribed with the autoClose option
  eoseTimers,               \* ids whose eoseTimeout is running
  bufferKeys,               \* ids that have an event buffer
  eventBuffers,             \* per id: its buffer
  bufferAccess,             \* ids that have a buffer access time
  pendingValidationCounts,  \* per id; 0 when absent
  pendingEose,              \* pendingEoseSubscriptions
  validating,               \* messages being validated
  settling,                 \* messages validated but not counted off
  running,                  \* the flush that is handing events over
  requested,                \* ids sent in a REQ on this connection
  opened,                   \* history: ids ever subscribed
  unsubscribed,             \* history: ids removed by unsubscribe()
  arrivedFor,               \* history: subscription each message arrived for
  handed,                   \* history: messages handed to onEvent
  lost,                     \* history: messages dropped by a memory limit
  owed,                     \* history: messages that arrived before the EOSE
  eoseSent,                 \* history: EOSE messages per subscription
  eoseCalls                 \* history: calls of onEOSE per subscription

buffers == <<bufferKeys, eventBuffers, bufferAccess>>
life == <<link, subscriptions, autoClose, eoseTimers, requested, opened, unsubscribed>>
eose == <<pendingEose, owed, eoseSent, eoseCalls>>
events == <<pendingValidationCounts, validating, settling, arrivedFor>>
vars == <<buffers, life, eose, events, running, handed, lost>>

Idle == [sub |-> NoSub, batch |-> {}, then |-> "idle", todo |-> {}]

Init ==
  /\ link = "none"
  /\ subscriptions = {} /\ autoClose = {} /\ eoseTimers = {}
  /\ bufferKeys = {} /\ eventBuffers = [s \in Subs |-> {}] /\ bufferAccess = {}
  /\ pendingValidationCounts = [s \in Subs |-> 0]
  /\ pendingEose = {}
  /\ validating = {} /\ settling = {}
  /\ running = Idle
  /\ requested = {} /\ opened = {} /\ unsubscribed = {}
  /\ arrivedFor = [m \in Messages |-> NoSub]
  /\ handed = {} /\ lost = {}
  /\ owed = [s \in Subs |-> {}]
  /\ eoseSent = [s \in Subs |-> 0]
  /\ eoseCalls = [s \in Subs |-> 0]

ArrivedFor(s) == {m \in Messages : arrivedFor[m] = s}
Uncounted(s) == ArrivedFor(s) \cap (validating \cup settling)

CanCall == Reentrant \/ running = Idle

-----------------------------------------------------------------------------
\* Calls by the user of the class.

Subscribe(s, close, timed) ==
  /\ CanCall
  /\ s \notin opened
  /\ opened' = opened \cup {s}
  /\ subscriptions' = subscriptions \cup {s}
  /\ autoClose' = IF close THEN autoClose \cup {s} ELSE autoClose
  /\ eoseTimers' = IF close /\ timed THEN eoseTimers \cup {s} ELSE eoseTimers
  /\ bufferKeys' = bufferKeys \cup {s}
  /\ eventBuffers' = [eventBuffers EXCEPT ![s] = {}]
  /\ requested' = IF link = "open" THEN requested \cup {s} ELSE requested
  /\ UNCHANGED <<link, bufferAccess, eose, events, running, handed, lost, unsubscribed>>

\* Mutant: unsubscribe() removes the subscription and its buffer only.
unsubscribeForgetful(s) ==
  /\ subscriptions' = subscriptions \ {s}
  /\ bufferKeys' = bufferKeys \ {s}
  /\ eventBuffers' = [eventBuffers EXCEPT ![s] = {}]
  /\ unsubscribed' = unsubscribed \cup {s}
  /\ UNCHANGED <<link, autoClose, requested, opened, eoseTimers, bufferAccess, pendingEose,
                 pendingValidationCounts>>

unsubscribe(s) ==
  /\ subscriptions' = subscriptions \ {s}
  /\ eoseTimers' = eoseTimers \ {s}
  /\ bufferKeys' = bufferKeys \ {s}
  /\ eventBuffers' = [eventBuffers EXCEPT ![s] = {}]
  /\ bufferAccess' = bufferAccess \ {s}
  /\ pendingEose' = pendingEose \ {s}
  /\ pendingValidationCounts' = [pendingValidationCounts EXCEPT ![s] = 0]
  /\ unsubscribed' = unsubscribed \cup {s}
  /\ UNCHANGED <<link, autoClose, requested, opened>>

Unsubscribe(s) ==
  /\ CanCall
  /\ s \in subscriptions
  /\ unsubscribe(s)
  /\ UNCHANGED <<owed, eoseSent, eoseCalls, validating, settling, arrivedFor, running,
                 handed, lost>>

Disconnect ==
  /\ CanCall
  /\ link # "none"
  /\ link' = "none"
  /\ subscriptions' = {}
  /\ bufferKeys' = {}
  /\ eventBuffers' = [s \in Subs |-> {}]
  /\ bufferAccess' = {}
  /\ UNCHANGED <<autoClose, eoseTimers, requested, opened, unsubscribed, eose, events,
                 running, handed, lost>>

-----------------------------------------------------------------------------
\* The connection, as RelayConnection has it in detail.

\* connect() or a reconnection succeeds.  Nothing is requested again.
Connected ==
  /\ running = Idle
  /\ link # "open"
  /\ link' = "open"
  /\ requested' = {}
  /\ UNCHANGED <<buffers, subscriptions, autoClose, eoseTimers, opened, unsubscribed,
                 eose, events, running, handed, lost>>

\* The connection is lost; a failing reconnection also drops the socket.
ConnectionLost ==
  /\ running = Idle
  /\ \/ link = "open" /\ link' = "dropped"
     \/ link = "dropped" /\ link' = "none"
  /\ UNCHANGED <<buffers, subscriptions, autoClose, eoseTimers, requested, opened,
                 unsubscribed, eose, events, running, handed, lost>>

-----------------------------------------------------------------------------
\* Event buffers.

\* Take the buffer of s, to hand it over before continuing with then and todo.
flushSubscriptionBuffer(s, then, todo) ==
  /\ running' = [sub |-> s, then |-> then, todo |-> todo,
                 batch |-> IF s \in subscriptions THEN eventBuffers[s] ELSE {}]
  /\ IF eventBuffers[s] = {}
     THEN UNCHANGED buffers
     ELSE /\ bufferKeys' = bufferKeys \ {s}
          /\ eventBuffers' = [eventBuffers EXCEPT ![s] = {}]
          /\ bufferAccess' = IF s \in subscriptions THEN bufferAccess \ {s} ELSE bufferAccess

\* A new buffer makes room for itself first, by evicting the buffer of v.
MustEvict(s) == s \notin bufferKeys /\ Cardinality(bufferKeys) >= maxEventBuffers

\* Mutant: the new event replaces the buffer.
addToEventBufferReplacing(s, m) ==
  /\ bufferKeys' = bufferKeys \cup {s}
  /\ bufferAccess' = bufferAccess \cup {s}
  /\ eventBuffers' = [eventBuffers EXCEPT ![s] = {m}]
  /\ UNCHANGED lost

\* Append m; a full buffer drops its oldest event x first.
addToEventBuffer(s, m) ==
  \E v \in bufferAccess \cup {s}, x \in eventBuffers[s] \cup {m} :
    LET evicted == IF MustEvict(s) THEN {v} ELSE {}
        shifted == IF Cardinality(eventBuffers[s]) >= maxEventsPerBuffer THEN {x} ELSE {}
    IN /\ x = m => shifted = {}
       /\ bufferKeys' = (bufferKeys \ evicted) \cup {s}
       /\ bufferAccess' = (bufferAccess \cup {s}) \ evicted
       /\ eventBuffers' = [i \in Subs |-> IF i = s THEN (eventBuffers[s] \ shifted) \cup {m}
                                          ELSE IF i \in evicted THEN {}
                                          ELSE eventBuffers[i]]
       /\ lost' = lost \cup shifted \cup UNION {eventBuffers[i] : i \in evicted}

\* The flush interval, which runs while connected.
FlushTimer ==
  /\ running = Idle
  /\ link = "open"
  /\ \E s \in bufferKeys : flushSubscriptionBuffer(s, "timer", bufferKeys \ {s})
  /\ UNCHANGED <<life, eose, events, handed, lost>>

-----------------------------------------------------------------------------
\* Messages of the relay and the reactions to a validation.

\* With no validation pending: flush the buffer of s, then call onEOSE.
maybeFinalizeEOSE(s) ==
  IF pendingValidationCounts'[s] > 0
  THEN UNCHANGED <<buffers, running>>
  ELSE flushSubscriptionBuffer(s, "finalize", {})

ReceiveEvent(s, m) ==
  /\ running = Idle
  /\ link = "open" /\ s \in requested
  /\ arrivedFor[m] = NoSub
  /\ arrivedFor' = [arrivedFor EXCEPT ![m] = s]
  /\ validating' = validating \cup {m}
  /\ pendingValidationCounts' = [pendingValidationCounts EXCEPT ![s] = @ + 1]
  /\ UNCHANGED <<buffers, life, eose, settling, running, handed, lost>>

ReceiveEOSE(s) ==
  /\ running = Idle
  /\ link = "open" /\ s \in requested
  /\ eoseSent[s] < MaxEose
  /\ eoseSent' = [eoseSent EXCEPT ![s] = @ + 1]
  /\ owed' = [owed EXCEPT ![s] = ArrivedFor(s)]
  /\ pendingEose' = pendingEose \cup {s}
  /\ UNCHANGED <<life, eoseCalls, events, handed, lost>>
  /\ maybeFinalizeEOSE(s)

ReceiveClosed(s) ==
  /\ running = Idle
  /\ link = "open" /\ s \in requested
  /\ s \in subscriptions
  /\ subscriptions' = subscriptions \ {s}
  /\ UNCHANGED <<buffers, link, autoClose, eoseTimers, requested, opened, unsubscribed,
                 eose, events, running, handed, lost>>

\* processValidatedEvent, or the Error event of an invalid one.  Its call of
\* maybeFinalizeEOSE has no effect: m itself is still to be counted off.
EventValidated(m) ==
  /\ running = Idle
  /\ m \in validating
  /\ validating' = validating \ {m}
  /\ settling' = settling \cup {m}
  /\ IF m \notin Invalid /\ arrivedFor[m] \in subscriptions
     THEN addToEventBuffer(arrivedFor[m], m)
     ELSE UNCHANGED <<buffers, lost>>
  /\ UNCHANGED <<life, eose, pendingValidationCounts, arrivedFor, running, handed>>

\* Mutants: the counter is not floored, reset by the first event, never reduced.
decrementedUnfloored(n) == n - 1
decrementedToZero(n) == 0
decrementedNever(n) == n

decremented(n) == IF n = 0 THEN 0 ELSE n - 1

\* decrementPendingValidation: the last one flushes, and passes on the EOSE.
ValidationCounted(m) ==
  LET s == arrivedFor[m]
      next == decremented(pendingValidationCounts[s])
  IN /\ running = Idle
     /\ m \in settling
     /\ settling' = settling \ {m}
     /\ pendingValidationCounts' = [pendingValidationCounts EXCEPT ![s] = next]
     /\ IF s \in pendingEose
        THEN maybeFinalizeEOSE(s)
        ELSE IF next = 0
        THEN flushSubscriptionBuffer(s, "counted", {})
        ELSE UNCHANGED <<buffers, running>>
     /\ UNCHANGED <<life, eose, validating, arrivedFor, handed, lost>>

\* Mutant: the timeout does nothing while the connection is down.
EoseTimeoutOnlineOnly(s) ==
  /\ running = Idle
  /\ s \in eoseTimers
  /\ IF s \in subscriptions /\ link = "open"
     THEN unsubscribe(s)
     ELSE /\ eoseTimers' = eoseTimers \ {s}
          /\ UNCHANGED <<link, subscriptions, autoClose, requested, opened, unsubscribed,
                         buffers, pendingEose, pendingValidationCounts>>
  /\ UNCHANGED <<owed, eoseSent, eoseCalls, validating, settling, arrivedFor, running,
                 handed, lost>>

EoseTimeout(s) ==
  /\ running = Idle
  /\ s \in eoseTimers
  /\ IF s \in subscriptions
     THEN unsubscribe(s)
     ELSE /\ eoseTimers' = eoseTimers \ {s}
          /\ UNCHANGED <<link, subscriptions, autoClose, requested, opened, unsubscribed,
                         buffers, pendingEose, pendingValidationCounts>>
  /\ UNCHANGED <<owed, eoseSent, eoseCalls, validating, settling, arrivedFor, running,
                 handed, lost>>

-----------------------------------------------------------------------------
\* A flush: onEvent for each event, then what the flush was for.

OnEvent(m) ==
  /\ m \in running.batch
  /\ running' = [running EXCEPT !.batch = @ \ {m}]
  /\ handed' = handed \cup {m}
  /\ UNCHANGED <<buffers, life, eose, events, lost>>

\* The flush interval goes on to its next buffer.
FlushReturn ==
  /\ running.batch = {} /\ running.then \in {"counted", "timer"}
  /\ IF running.todo \cap bufferKeys = {}
     THEN running' = Idle /\ UNCHANGED buffers
     ELSE \E s \in running.todo \cap bufferKeys :
            flushSubscriptionBuffer(s, "timer", running.todo \ {s})
  /\ UNCHANGED <<life, eose, events, handed, lost>>

\* Mutant: the caller is not told when the connection is down meanwhile.
FinalizeEoseOnlineOnly ==
  LET s == running.sub IN
  /\ running.batch = {} /\ running.then = "finalize"
  /\ IF s \in subscriptions /\ link = "open"
     THEN /\ running' = [running EXCEPT !.then = "eose"]
          /\ eoseCalls' = [eoseCalls EXCEPT ![s] = @ + 1]
          /\ UNCHANGED pendingEose
     ELSE /\ running' = Idle
          /\ pendingEose' = pendingEose \ {s}
          /\ UNCHANGED eoseCalls
  /\ UNCHANGED <<buffers, life, owed, eoseSent, events, handed, lost>>

\* Call onEOSE, if the subscription is still there after the flush.
FinalizeEose ==
  LET s == running.sub IN
  /\ running.batch = {} /\ running.then = "finalize"
  /\ IF s \in subscriptions
     THEN /\ running' = [running EXCEPT !.then = "eose"]
          /\ eoseCalls' = [eoseCalls EXCEPT ![s] = @ + 1]
          /\ UNCHANGED pendingEose
     ELSE /\ running' = Idle
          /\ pendingEose' = pendingEose \ {s}
          /\ UNCHANGED eoseCalls
  /\ UNCHANGED <<buffers, life, owed, eoseSent, events, handed, lost>>

EoseReturn ==
  LET s == running.sub IN
  /\ running.then = "eose"
  /\ running' = Idle
  /\ IF s \in autoClose \cap subscriptions
     THEN unsubscribe(s)
     ELSE /\ pendingEose' = pendingEose \ {s}
          /\ UNCHANGED <<buffers, life, pendingValidationCounts>>
  /\ UNCHANGED <<owed, eoseSent, eoseCalls, validating, settling, arrivedFor, handed, lost>>

-----------------------------------------------------------------------------
UserCall ==
  \/ Disconnect
  \/ \E s \in Subs :
       \/ Unsubscribe(s)
       \/ \E close, timed \in BOOLEAN : Subscribe(s, close, timed)

Callback ==
  \/ FlushReturn
  \/ FinalizeEose
  \/ EoseReturn
  \/ \E m \in Messages : OnEvent(m)

Next ==
  \/ UserCall
  \/ Callback
  \/ Connected
  \/ ConnectionLost
  \/ FlushTimer
  \/ \E s \in Subs :
       \/ ReceiveEOSE(s)
       \/ ReceiveClosed(s)
       \/ EoseTimeout(s)
       \/ \E m \in Messages : ReceiveEvent(s, m)
  \/ \E m \in Messages : EventValidated(m) \/ ValidationCounted(m)

\* The event loop: callbacks return, the reactions to a validation run and a due
\* timer fires.  Queues are first-in first-out, so waiting for a flush to end
\* does not lose a turn (strong fairness).  Nothing is assumed of the relay.
EventLoop ==
  /\ WF_vars(Callback)
  /\ \A m \in Messages : SF_vars(EventValidated(m)) /\ SF_vars(ValidationCounted(m))
  /\ \A s \in Subs : SF_vars(EoseTimeout(s))

Spec == Init /\ [][Next]_vars
FairSpec == Spec /\ EventLoop

-----------------------------------------------------------------------------
\* Properties.

\* Every variable has its type.
TypeOK ==
  /\ link \in {"none", "open", "dropped"}
  /\ subscriptions \subseteq opened /\ opened \subseteq Subs
  /\ autoClose \subseteq opened /\ eoseTimers \subseteq autoClose
  /\ bufferKeys \subseteq Subs /\ bufferAccess \subseteq Subs
  /\ eventBuffers \in [Subs -> SUBSET Messages]
  /\ pendingValidationCounts \in [Subs -> Nat]
  /\ pendingEose \subseteq Subs
  /\ validating \subseteq Messages /\ settling \subseteq Messages
  /\ running \in [sub : Subs \cup {NoSub}, batch : SUBSET Messages, todo : SUBSET Subs,
                  then : {"idle", "timer", "counted", "finalize", "eose"}]
  /\ requested \subseteq Subs /\ unsubscribed \subseteq Subs
  /\ arrivedFor \in [Messages -> Subs \cup {NoSub}]
  /\ handed \subseteq Messages /\ lost \subseteq Messages
  /\ owed \in [Subs -> SUBSET Messages]
  /\ eoseSent \in [Subs -> 0 .. MaxEose]
  /\ eoseCalls \in [Subs -> Nat]

\* The counter of a live subscription is exactly the number of its events whose
\* validation has begun and not been counted off.
CountsMatch ==
  \A s \in subscriptions : pendingValidationCounts[s] = Cardinality(Uncounted(s))

\* Nothing is held back: once the validations of a subscription are over, its
\* buffer is empty and no EOSE is pending, even if the flush interval is not
\* running and whatever ended the subscription meanwhile.
NothingHeldBack ==
  running = Idle =>
    \A s \in Subs : Uncounted(s) = {} => eventBuffers[s] = {} /\ s \notin pendingEose

\* No valid event of a live subscription disappears: it is being validated, in
\* the buffer, being handed over, has been, or fell to a memory limit.
NothingMissed ==
  \A m \in Messages \ Invalid : arrivedFor[m] \in subscriptions =>
    m \in validating \cup eventBuffers[arrivedFor[m]] \cup running.batch \cup handed \cup lost

\* unsubscribe() is final: no reaction or message that comes after it gives the
\* subscription a buffer, an access time or a timer again.
UnsubscribeIsFinal ==
  unsubscribed \cap (subscriptions \cup bufferKeys \cup bufferAccess \cup eoseTimers) = {}

\* The caller's view implements SubscriptionFeed: events at most once, onEOSE
\* once per EOSE and after the events that preceded it.
Waiting ==
  running.batch \cup
  {m \in Messages \ Invalid :
     arrivedFor[m] \in subscriptions /\ m \in validating \cup eventBuffers[arrivedFor[m]]}
EoseDue == IF running.then = "eose" THEN pendingEose \ {running.sub} ELSE pendingEose
Feed == INSTANCE SubscriptionFeed WITH waiting <- Waiting, eoseDue <- EoseDue
ImplementsFeed == Feed!Spec

\* An EOSE for a live subscription reaches its onEOSE: a further call of it is
\* made, unless the subscription ends before.  An EOSE that arrives while one is
\* still pending is passed on with that one.
EoseReachesCaller ==
  \A s \in Subs, calls \in 0 .. MaxEose :
    s \in EoseDue \cap subscriptions /\ eoseCalls[s] = calls ~>
      eoseCalls[s] > calls \/ s \notin subscriptions

\* A subscription with autoClose and an eoseTimeout ends, even if the relay
\* never answers or the connection is gone.
AutoCloseEnds == \A s \in Subs : s \in eoseTimers ~> s \notin subscriptions
=============================================================================
