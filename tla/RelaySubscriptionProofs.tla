------------------------ MODULE RelaySubscriptionProofs ------------------------
(***************************************************************************)
(* Proofs about RelaySubscription for any set of subscriptions, messages   *)
(* and any limits of the buffers, with callbacks that call back or not.    *)
(*                                                                         *)
(* What carries the argument: a message is in at most one of the places    *)
(* it can wait in (Places); the counter of a live subscription is the      *)
(* number of its validations that are not over (CountsMatch), so that a    *)
(* flush that an EOSE waits for finds nothing left to wait for (Flushing); *)
(* and an id is never subscribed twice, so that what a subscription leaves *)
(* behind when it ends cannot be taken for another's (Arrivals).           *)
(***************************************************************************)
EXTENDS RelaySubscription, FiniteSetTheorems, TLAPS

\* Messages arrive for subscriptions that were requested, and are validated once.
Arrivals ==
  /\ requested \subseteq opened /\ unsubscribed \subseteq opened
  /\ \A m \in Messages : arrivedFor[m] \in opened \cup {NoSub}
  /\ \A m \in validating \cup settling : arrivedFor[m] # NoSub
  /\ validating \cap settling = {}
  /\ IsFiniteSet(validating) /\ IsFiniteSet(settling)
  /\ \A s \in Subs \ opened : pendingValidationCounts[s] = 0

\* A message waits in one place: under validation, in its subscription's buffer,
\* or among those being handed over.
Places ==
  /\ \A s \in Subs : \A m \in eventBuffers[s] :
       arrivedFor[m] = s /\ m \notin Invalid \cup validating \cup running.batch
  /\ \A m \in running.batch : arrivedFor[m] # NoSub /\ m \notin validating
  /\ \A s \in Subs : \A m \in owed[s] : arrivedFor[m] = s

\* A flush on behalf of an EOSE leaves its subscription nothing to wait for.
Flushing ==
  /\ running.then = "idle" => running = Idle
  /\ running.then = "eose" => running.batch = {}
  /\ running.then = "finalize" => running.sub \in opened
  /\ running.then = "finalize" /\ running.sub \in subscriptions =>
       /\ running.sub \in pendingEose
       /\ eventBuffers[running.sub] = {}
       /\ \A m \in validating : arrivedFor[m] # running.sub

SubInv ==
  /\ TypeOK
  /\ Arrivals
  /\ Places
  /\ Flushing
  /\ CountsMatch
  /\ NothingMissed
  /\ UnsubscribeIsFinal

Running == [sub : Subs \cup {NoSub}, batch : SUBSET Messages, todo : SUBSET Subs,
            then : {"idle", "timer", "counted", "finalize", "eose"}]

-----------------------------------------------------------------------------
\* Subscriptions that end, and connections that come and go, take things away:
\* what remains of a live subscription is untouched.
LEMMA TakingAwayKeeps ==
  ASSUME SubInv, TypeOK', UnsubscribeIsFinal',
         UNCHANGED <<arrivedFor, validating, settling, handed, lost, owed, opened>>,
         requested' \subseteq requested, subscriptions' \subseteq subscriptions,
         unsubscribed' \subseteq opened,
         \A s \in Subs : eventBuffers'[s] \subseteq eventBuffers[s],
         \A s \in subscriptions' : /\ eventBuffers'[s] = eventBuffers[s]
                                  /\ pendingValidationCounts'[s] = pendingValidationCounts[s],
         \A s \in Subs \ opened : pendingValidationCounts'[s] = 0,
         \/ UNCHANGED running /\ pendingEose \cap subscriptions' \subseteq pendingEose'
         \/ running.batch = {} /\ running' = Idle
  PROVE  SubInv'
<1> USE DEF SubInv
<1>1. running'.batch = running.batch
  BY DEF Idle
<1>2. Arrivals'
  BY DEF Arrivals
<1>3. Places'
  BY <1>1 DEF Places
<1>4. Flushing'
  <2>1. CASE running' = Idle
    BY <2>1 DEF Flushing, Idle
  <2>2. CASE UNCHANGED running /\ pendingEose \cap subscriptions' \subseteq pendingEose'
    BY <2>2 DEF Flushing, TypeOK
  <2>3. QED
    BY <2>1, <2>2
<1>5. CountsMatch'
  <2>1. \A s \in Subs : Uncounted(s)' = Uncounted(s)
    BY DEF Uncounted, ArrivedFor
  <2>2. subscriptions' \subseteq Subs
    BY DEF TypeOK
  <2>3. QED
    BY <2>1, <2>2 DEF CountsMatch
<1>6. NothingMissed'
  BY <1>1 DEF NothingMissed
<1>7. QED
  BY <1>2, <1>3, <1>4, <1>5, <1>6

\* unsubscribe() takes away everything of its subscription but what is being
\* validated or handed over.
LEMMA UnsubscribeTakesAway ==
  ASSUME SubInv, NEW s \in subscriptions, unsubscribe(s),
         UNCHANGED <<owed, eoseSent, eoseCalls, validating, settling, arrivedFor, handed, lost>>,
         \/ UNCHANGED running
         \/ running.batch = {} /\ running' = Idle
  PROVE  SubInv'
<1>1. s \in Subs /\ s \in opened
  BY DEF SubInv, TypeOK
<1>2. running' \in Running
  BY DEF SubInv, TypeOK, Idle, Running
<1>3. TypeOK'
  BY <1>1, <1>2 DEF SubInv, TypeOK, unsubscribe, Running
<1>4. UnsubscribeIsFinal'
  BY DEF SubInv, UnsubscribeIsFinal, unsubscribe
<1>5. \A i \in Subs : eventBuffers'[i] \subseteq eventBuffers[i]
  BY DEF SubInv, TypeOK, unsubscribe
<1>6. \A i \in subscriptions' : /\ eventBuffers'[i] = eventBuffers[i]
                               /\ pendingValidationCounts'[i] = pendingValidationCounts[i]
  BY DEF SubInv, TypeOK, unsubscribe
<1>7. \A i \in Subs \ opened : pendingValidationCounts'[i] = 0
  BY DEF SubInv, TypeOK, Arrivals, unsubscribe
<1>8. /\ UNCHANGED <<opened, requested>> /\ unsubscribed' \subseteq opened
      /\ subscriptions' \subseteq subscriptions
      /\ pendingEose \cap subscriptions' \subseteq pendingEose'
  BY <1>1 DEF SubInv, Arrivals, unsubscribe
<1>9. QED
  BY <1>3, <1>4, <1>5, <1>6, <1>7, <1>8, TakingAwayKeeps

\* The new subscription has nothing of an earlier one.
LEMMA SubscribeKeeps ==
  ASSUME SubInv, NEW s \in Subs, NEW close \in BOOLEAN, NEW timed \in BOOLEAN,
         Subscribe(s, close, timed)
  PROVE  SubInv'
<1> USE DEF SubInv, Subscribe
<1>1. s \notin opened /\ \A m \in Messages : arrivedFor[m] # s
  BY SubscriptionAssumption DEF Arrivals
<1>2. TypeOK'
  BY DEF TypeOK, eose, events
<1>3. UNCHANGED <<eose, events, running, handed, lost, unsubscribed>>
  OBVIOUS
<1>4. eventBuffers' = [eventBuffers EXCEPT ![s] = {}] /\ eventBuffers \in [Subs -> SUBSET Messages]
  BY DEF TypeOK
<1>5. Arrivals'
  BY <1>3 DEF Arrivals, events
<1>6. Places'
  BY <1>3, <1>4 DEF Places, events, eose
<1>7. Flushing'
  BY <1>1, <1>3, <1>4, SubscriptionAssumption DEF Flushing, events, eose, TypeOK
<1>8. CountsMatch'
  <2>1. \A i \in Subs : Uncounted(i)' = Uncounted(i)
    BY <1>3 DEF Uncounted, ArrivedFor, events
  <2>2. Uncounted(s) = {} /\ pendingValidationCounts[s] = 0
    BY <1>1 DEF Uncounted, ArrivedFor, Arrivals
  <2>3. Cardinality({}) = 0
    BY FS_EmptySet
  <2>4. QED
    BY <1>3, <2>1, <2>2, <2>3 DEF CountsMatch, events, TypeOK
<1>9. NothingMissed'
  BY <1>1, <1>3, <1>4 DEF NothingMissed, events, TypeOK
<1>10. UnsubscribeIsFinal'
  BY <1>1, <1>3 DEF UnsubscribeIsFinal, Arrivals
<1>11. QED
  BY <1>2, <1>5, <1>6, <1>7, <1>8, <1>9, <1>10

\* A message arrives for a subscription that was requested, live or not.
LEMMA ReceiveEventKeeps ==
  ASSUME SubInv, NEW s \in Subs, NEW m \in Messages, ReceiveEvent(s, m)
  PROVE  SubInv'
<1> USE DEF SubInv
<1>1. /\ s \in opened /\ arrivedFor[m] = NoSub /\ running = Idle
      /\ arrivedFor' = [arrivedFor EXCEPT ![m] = s]
      /\ validating' = validating \cup {m}
      /\ pendingValidationCounts' = [pendingValidationCounts EXCEPT ![s] = @ + 1]
      /\ UNCHANGED <<buffers, life, eose, settling, running, handed, lost>>
  BY DEF ReceiveEvent, Arrivals
<1>2. s # NoSub /\ m \notin validating \cup settling
  BY <1>1, SubscriptionAssumption DEF Arrivals
<1>3. TypeOK'
  BY <1>1 DEF TypeOK, buffers, life, eose
<1>4. Arrivals'
  <2>1. IsFiniteSet(validating')
    BY <1>1, FS_AddElement DEF Arrivals
  <2>2. QED
    BY <1>1, <1>2, <2>1 DEF Arrivals, TypeOK, life
<1>5. Places'
  BY <1>1, <1>2, SubscriptionAssumption DEF Places, TypeOK, buffers, eose, Idle
<1>6. Flushing'
  BY <1>1 DEF Flushing, Idle, life
<1>7. CountsMatch'
  <2> SUFFICES ASSUME NEW i \in subscriptions'
               PROVE  pendingValidationCounts'[i] = Cardinality(Uncounted(i)')
    BY DEF CountsMatch
  <2>1. i \in Subs /\ i # NoSub /\ i \in subscriptions
    BY <1>1, SubscriptionAssumption DEF TypeOK, life
  <2>2. IsFiniteSet(Uncounted(i))
    <3>1. IsFiniteSet(validating \cup settling)
      BY FS_Union DEF Arrivals
    <3>2. Uncounted(i) \subseteq validating \cup settling
      BY DEF Uncounted
    <3>3. QED
      BY <3>1, <3>2, FS_Subset
  <2>3. CASE i = s
    <3>1. Uncounted(i)' = Uncounted(i) \cup {m} /\ m \notin Uncounted(i)
      BY <1>1, <1>2, <2>1, <2>3 DEF Uncounted, ArrivedFor, TypeOK
    <3>2. Cardinality(Uncounted(i) \cup {m}) = Cardinality(Uncounted(i)) + 1
      BY <2>2, <3>1, FS_AddElement
    <3>3. QED
      BY <1>1, <2>1, <2>3, <3>1, <3>2 DEF CountsMatch, TypeOK
  <2>4. CASE i # s
    <3>1. Uncounted(i)' = Uncounted(i)
      BY <1>1, <2>1, <2>4 DEF Uncounted, ArrivedFor, TypeOK
    <3>2. QED
      BY <1>1, <2>1, <2>4, <3>1 DEF CountsMatch, TypeOK
  <2>5. QED
    BY <2>3, <2>4
<1>8. NothingMissed'
  BY <1>1 DEF NothingMissed, TypeOK, buffers, life
<1>9. UnsubscribeIsFinal'
  BY <1>1 DEF UnsubscribeIsFinal, buffers, life
<1>10. QED
  BY <1>3, <1>4, <1>5, <1>6, <1>7, <1>8, <1>9

\* A valid event of a live subscription goes to its buffer; what has to make
\* room for it is lost.
LEMMA EventValidatedKeeps ==
  ASSUME SubInv, NEW m \in Messages, EventValidated(m)
  PROVE  SubInv' /\ \A i \in Subs : eventBuffers'[i] \subseteq eventBuffers[i] \cup {m}
<1> DEFINE s == arrivedFor[m]
           buffered == m \notin Invalid /\ s \in subscriptions
<1> USE DEF SubInv
<1>1. /\ running = Idle /\ m \in validating
      /\ validating' = validating \ {m} /\ settling' = settling \cup {m}
      /\ UNCHANGED <<life, eose, pendingValidationCounts, arrivedFor, running, handed>>
      /\ s \in Subs
  BY DEF EventValidated, Arrivals, TypeOK
<1>2. /\ eventBuffers' \in [Subs -> SUBSET Messages]
      /\ lost \subseteq lost' /\ lost' \subseteq Messages
      /\ \A i \in Subs : eventBuffers'[i] \subseteq eventBuffers[i] \cup {m}
      /\ \A i \in Subs : m \in eventBuffers'[i] => i = s /\ m \notin Invalid
      /\ \A i \in Subs : eventBuffers[i] \subseteq eventBuffers'[i] \cup lost'
      /\ buffered => m \in eventBuffers'[s]
      /\ bufferKeys' \subseteq bufferKeys \cup (IF buffered THEN {s} ELSE {})
      /\ bufferAccess' \subseteq bufferAccess \cup (IF buffered THEN {s} ELSE {})
  <2>1. \A i \in Subs : m \notin eventBuffers[i]
    BY <1>1 DEF Places
  <2>2. CASE ~buffered
    BY <1>1, <2>1, <2>2 DEF EventValidated, buffers, TypeOK
  <2>3. CASE buffered
    <3>1. addToEventBuffer(s, m)
      BY <2>3 DEF EventValidated
    <3>2. PICK v \in bufferAccess \cup {s}, x \in eventBuffers[s] \cup {m} :
            LET evicted == IF MustEvict(s) THEN {v} ELSE {}
                shifted == IF Cardinality(eventBuffers[s]) >= maxEventsPerBuffer THEN {x} ELSE {}
            IN /\ x = m => shifted = {}
               /\ bufferKeys' = (bufferKeys \ evicted) \cup {s}
               /\ bufferAccess' = (bufferAccess \cup {s}) \ evicted
               /\ eventBuffers' = [i \in Subs |-> IF i = s THEN (eventBuffers[s] \ shifted) \cup {m}
                                                  ELSE IF i \in evicted THEN {}
                                                  ELSE eventBuffers[i]]
               /\ lost' = lost \cup shifted \cup UNION {eventBuffers[i] : i \in evicted}
      BY <3>1 DEF addToEventBuffer
    <3>3. PICK evicted, shifted :
            /\ evicted \subseteq {v} /\ shifted \subseteq {x} /\ (x = m => shifted = {})
            /\ bufferKeys' = (bufferKeys \ evicted) \cup {s}
            /\ bufferAccess' = (bufferAccess \cup {s}) \ evicted
            /\ eventBuffers' = [i \in Subs |-> IF i = s THEN (eventBuffers[s] \ shifted) \cup {m}
                                               ELSE IF i \in evicted THEN {}
                                               ELSE eventBuffers[i]]
            /\ lost' = lost \cup shifted \cup UNION {eventBuffers[i] : i \in evicted}
      <4> DEFINE ev == IF MustEvict(s) THEN {v} ELSE {}
                 sh == IF Cardinality(eventBuffers[s]) >= maxEventsPerBuffer THEN {x} ELSE {}
      <4>1. ev \subseteq {v} /\ sh \subseteq {x}
        OBVIOUS
      <4>2. QED
        BY <3>2, <4>1
    <3>4. evicted \subseteq Subs /\ eventBuffers \in [Subs -> SUBSET Messages]
      BY <1>1, <3>3 DEF TypeOK
    <3>5. eventBuffers' \in [Subs -> SUBSET Messages] /\ lost' \subseteq Messages
      BY <1>1, <3>3, <3>4 DEF TypeOK
    <3>6. \A i \in Subs : eventBuffers[i] \subseteq eventBuffers'[i] \cup lost'
      BY <1>1, <3>3, <3>4
    <3>7. QED
      BY <1>1, <2>1, <2>3, <3>3, <3>4, <3>5, <3>6
  <2>4. QED
    BY <2>2, <2>3
<1> HIDE DEF s, buffered
<1>3. bufferKeys' \subseteq Subs /\ bufferAccess' \subseteq Subs
  BY <1>1, <1>2 DEF TypeOK
<1>4. TypeOK'
  BY <1>1, <1>2, <1>3 DEF TypeOK, life, eose
<1>5. Arrivals'
  <2>1. IsFiniteSet(validating') /\ IsFiniteSet(settling')
    BY <1>1, FS_AddElement, FS_RemoveElement DEF Arrivals
  <2>2. QED
    BY <1>1, <2>1 DEF Arrivals, life
<1>6. Places'
  BY <1>1, <1>2 DEF Places, eose, Idle, s
<1>7. Flushing'
  BY <1>1 DEF Flushing, Idle
<1>8. CountsMatch'
  <2>1. \A i \in Subs : Uncounted(i)' = Uncounted(i)
    BY <1>1 DEF Uncounted, ArrivedFor
  <2>2. QED
    BY <1>1, <2>1 DEF CountsMatch, life, TypeOK
<1>9. NothingMissed'
  <2> SUFFICES ASSUME NEW n \in Messages \ Invalid, arrivedFor[n] \in subscriptions
               PROVE  n \in validating' \cup eventBuffers'[arrivedFor[n]] \cup running.batch
                            \cup handed \cup lost'
    BY <1>1 DEF NothingMissed, life
  <2>1. arrivedFor[n] \in Subs
    BY DEF TypeOK
  <2>2. CASE n = m
    BY <1>2, <2>2 DEF buffered, s
  <2>3. CASE n # m
    BY <1>1, <1>2, <2>1, <2>3 DEF NothingMissed
  <2>4. QED
    BY <2>2, <2>3
<1>10. UnsubscribeIsFinal'
  BY <1>1, <1>2 DEF UnsubscribeIsFinal, life, buffered
<1>11. QED
  BY <1>2, <1>4, <1>5, <1>6, <1>7, <1>8, <1>9, <1>10

-----------------------------------------------------------------------------
\* The buffer of a live subscription moves as a whole to those being handed over.
LEMMA FlushKeeps ==
  ASSUME SubInv, running.batch = {}, NEW s \in Subs,
         NEW then \in {"timer", "counted", "finalize"}, NEW todo \in SUBSET Subs,
         flushSubscriptionBuffer(s, then, todo),
         UNCHANGED <<life, arrivedFor, validating, handed, lost>>,
         \A i \in Subs : \A m \in owed'[i] : arrivedFor[m] = i
  PROVE  /\ running' \in Running
         /\ running'.sub = s /\ running'.then = then
         /\ running'.batch = IF s \in subscriptions THEN eventBuffers[s] ELSE {}
         /\ eventBuffers' \in [Subs -> SUBSET Messages]
         /\ \A i \in Subs : eventBuffers'[i] = IF i = s THEN {} ELSE eventBuffers[i]
         /\ bufferKeys' \subseteq Subs /\ bufferAccess' \subseteq Subs
         /\ Places' /\ NothingMissed' /\ UnsubscribeIsFinal'
<1> USE DEF SubInv
<1>1. /\ running' \in Running
      /\ running'.sub = s /\ running'.then = then
      /\ running'.batch = IF s \in subscriptions THEN eventBuffers[s] ELSE {}
  BY DEF flushSubscriptionBuffer, Running, TypeOK
<1>2. /\ eventBuffers' \in [Subs -> SUBSET Messages]
      /\ \A i \in Subs : eventBuffers'[i] = IF i = s THEN {} ELSE eventBuffers[i]
      /\ bufferKeys' \subseteq bufferKeys /\ bufferAccess' \subseteq bufferAccess
  BY DEF flushSubscriptionBuffer, buffers, TypeOK
<1>3. Places'
  <2>1. \A i \in Subs : \A m \in eventBuffers'[i] :
          arrivedFor[m] = i /\ m \notin Invalid \cup validating \cup running'.batch
    BY <1>1, <1>2 DEF Places
  <2>2. \A m \in running'.batch : arrivedFor[m] # NoSub /\ m \notin validating
    BY <1>1, SubscriptionAssumption DEF Places
  <2>3. QED
    BY <2>1, <2>2 DEF Places
<1>4. NothingMissed'
  BY <1>1, <1>2 DEF NothingMissed, life, TypeOK
<1>5. UnsubscribeIsFinal'
  BY <1>2 DEF UnsubscribeIsFinal, life
<1>6. QED
  BY <1>1, <1>2, <1>3, <1>4, <1>5 DEF TypeOK

\* The flush interval takes a buffer, at its turn or after the one before it.
LEMMA TimerKeeps ==
  ASSUME SubInv, running.batch = {}, NEW s \in Subs, NEW todo \in SUBSET Subs,
         flushSubscriptionBuffer(s, "timer", todo),
         UNCHANGED <<life, eose, events, handed, lost>>
  PROVE  SubInv'
<1>1. /\ running' \in Running /\ running'.then = "timer"
      /\ eventBuffers' \in [Subs -> SUBSET Messages]
      /\ bufferKeys' \subseteq Subs /\ bufferAccess' \subseteq Subs
      /\ Places' /\ NothingMissed' /\ UnsubscribeIsFinal'
  <2>1. \A i \in Subs : \A m \in owed'[i] : arrivedFor[m] = i
    BY DEF eose, SubInv, Places
  <2>2. UNCHANGED <<life, arrivedFor, validating, handed, lost>>
    BY DEF events
  <2>3. QED
    BY <2>1, <2>2, FlushKeeps
<1>2. TypeOK'
  BY <1>1 DEF SubInv, TypeOK, Running, life, eose, events
<1>3. Arrivals' /\ Flushing'
  BY <1>1 DEF SubInv, Arrivals, Flushing, life, events
<1>4. CountsMatch'
  BY DEF SubInv, CountsMatch, Uncounted, ArrivedFor, life, events
<1>5. QED
  BY <1>1, <1>2, <1>3, <1>4 DEF SubInv

\* A flush for an EOSE begins when no validation is pending, so that nothing of a
\* live subscription is left behind.
LEMMA FinalizeFlushes ==
  ASSUME SubInv, running.batch = {}, NEW s \in opened,
         flushSubscriptionBuffer(s, "finalize", {}),
         UNCHANGED <<life, arrivedFor, validating, handed, lost>>,
         \A i \in Subs : \A m \in owed'[i] : arrivedFor[m] = i,
         s \in pendingEose', CountsMatch', pendingValidationCounts'[s] = 0,
         settling' \subseteq settling
  PROVE  Flushing'
<1>1. s \in Subs
  BY DEF SubInv, TypeOK
<1>2. /\ running'.then = "finalize" /\ running'.sub = s /\ eventBuffers'[s] = {}
  BY <1>1, FlushKeeps
<1>3. ASSUME s \in subscriptions PROVE \A m \in validating : arrivedFor[m] # s
  <2>1. Cardinality(Uncounted(s)') = 0
    BY <1>3 DEF CountsMatch, life
  <2>2. IsFiniteSet(Uncounted(s)')
    <3>1. IsFiniteSet(validating \cup settling)
      BY FS_Union DEF SubInv, Arrivals
    <3>2. Uncounted(s)' \subseteq validating \cup settling
      BY DEF Uncounted
    <3>3. QED
      BY <3>1, <3>2, FS_Subset
  <2>3. Uncounted(s)' = {}
    BY <2>1, <2>2, FS_EmptySet
  <2>4. QED
    BY <2>3 DEF Uncounted, ArrivedFor, SubInv, TypeOK
<1>4. QED
  BY <1>2, <1>3 DEF Flushing, life

\* An EOSE is passed on at once if no validation is pending.
LEMMA ReceiveEoseKeeps ==
  ASSUME SubInv, NEW s \in Subs, ReceiveEOSE(s)
  PROVE  SubInv'
<1>1. /\ running = Idle /\ s \in opened
      /\ eoseSent[s] < MaxEose
      /\ eoseSent' = [eoseSent EXCEPT ![s] = @ + 1]
      /\ owed' = [owed EXCEPT ![s] = ArrivedFor(s)]
      /\ pendingEose' = pendingEose \cup {s}
      /\ UNCHANGED <<life, eoseCalls, events, handed, lost>>
      /\ UNCHANGED <<arrivedFor, validating, settling, pendingValidationCounts>>
      /\ UNCHANGED <<subscriptions, opened, requested>>
  BY DEF ReceiveEOSE, SubInv, Arrivals, events, life
<1>2. \A i \in Subs : \A m \in owed'[i] : arrivedFor[m] = i
  BY <1>1 DEF SubInv, Places, TypeOK, ArrivedFor
<1>3. Arrivals' /\ CountsMatch'
  BY <1>1 DEF SubInv, Arrivals, CountsMatch, Uncounted, ArrivedFor, life
<1>4. owed' \in [Subs -> SUBSET Messages] /\ eoseSent' \in [Subs -> 0 .. MaxEose]
      /\ pendingEose' \subseteq Subs
  BY <1>1, SubscriptionAssumption DEF SubInv, TypeOK, ArrivedFor
<1>5. CASE pendingValidationCounts'[s] > 0
  <2>1. UNCHANGED <<buffers, running>>
    BY <1>5 DEF ReceiveEOSE, maybeFinalizeEOSE
  <2>2. TypeOK'
    BY <1>1, <1>4, <2>1 DEF SubInv, TypeOK, life, events, buffers
  <2>3. Places' /\ Flushing' /\ NothingMissed' /\ UnsubscribeIsFinal'
    BY <1>1, <1>2, <2>1 DEF SubInv, Places, Flushing, NothingMissed, UnsubscribeIsFinal, Idle, buffers, life
  <2>4. QED
    BY <1>3, <2>2, <2>3 DEF SubInv
<1>6. CASE ~(pendingValidationCounts'[s] > 0)
  <2>1. flushSubscriptionBuffer(s, "finalize", {}) /\ running.batch = {}
    BY <1>1, <1>6 DEF ReceiveEOSE, maybeFinalizeEOSE, Idle
  <2>2. /\ running' \in Running
        /\ eventBuffers' \in [Subs -> SUBSET Messages]
        /\ bufferKeys' \subseteq Subs /\ bufferAccess' \subseteq Subs
        /\ Places' /\ NothingMissed' /\ UnsubscribeIsFinal'
    BY <1>1, <1>2, <2>1, FlushKeeps
  <2>3. TypeOK'
    BY <1>1, <1>4, <2>2 DEF SubInv, TypeOK, Running, life, events
  <2>4. pendingValidationCounts'[s] = 0
    BY <1>1, <1>6 DEF SubInv, TypeOK
  <2>5. Flushing'
    BY <1>1, <1>2, <1>3, <2>1, <2>4, FinalizeFlushes
  <2>6. QED
    BY <1>3, <2>2, <2>3, <2>5 DEF SubInv
<1>7. QED
  BY <1>5, <1>6

\* Counting off a validation reduces both the counter and what it counts by one.
LEMMA CountingOff ==
  ASSUME SubInv, NEW m \in settling,
         settling' = settling \ {m},
         pendingValidationCounts' = [pendingValidationCounts EXCEPT ![arrivedFor[m]] =
                                       decremented(pendingValidationCounts[arrivedFor[m]])],
         UNCHANGED <<subscriptions, opened, requested, unsubscribed, arrivedFor, validating>>
  PROVE  /\ arrivedFor[m] \in opened
         /\ pendingValidationCounts' \in [Subs -> Nat]
         /\ Arrivals' /\ CountsMatch'
<1> DEFINE s == arrivedFor[m]
<1> USE DEF SubInv
<1>1. m \in Messages /\ s \in opened /\ s \in Subs /\ s # NoSub
  BY SubscriptionAssumption DEF TypeOK, Arrivals
<1>2. pendingValidationCounts' \in [Subs -> Nat]
  BY <1>1 DEF TypeOK, decremented
<1>3. IsFiniteSet(settling') /\ IsFiniteSet(settling) /\ IsFiniteSet(validating)
  BY FS_RemoveElement DEF Arrivals
<1>4. Arrivals'
  BY <1>1, <1>3 DEF Arrivals, TypeOK
<1>5. CountsMatch'
  <2> SUFFICES ASSUME NEW i \in subscriptions
               PROVE  pendingValidationCounts'[i] = Cardinality(Uncounted(i)')
    BY DEF CountsMatch
  <2>1. i \in Subs
    BY DEF TypeOK
  <2>2. CASE i = s
    <3>1. Uncounted(i)' = Uncounted(i) \ {m} /\ m \in Uncounted(i)
      BY <1>1, <2>2 DEF Uncounted, ArrivedFor, Arrivals
    <3>2. IsFiniteSet(Uncounted(i))
      <4>1. IsFiniteSet(validating \cup settling)
        BY <1>3, FS_Union
      <4>2. Uncounted(i) \subseteq validating \cup settling
        BY DEF Uncounted
      <4>3. QED
        BY <4>1, <4>2, FS_Subset
    <3>3. Cardinality(Uncounted(i) \ {m}) = Cardinality(Uncounted(i)) - 1
      BY <3>1, <3>2, FS_RemoveElement
    <3>4. Cardinality(Uncounted(i)) # 0
      BY <3>1, <3>2, FS_EmptySet
    <3>5. pendingValidationCounts[i] = Cardinality(Uncounted(i))
      BY DEF CountsMatch
    <3>6. pendingValidationCounts'[i] = pendingValidationCounts[i] - 1
      BY <2>1, <2>2, <3>4, <3>5 DEF decremented, TypeOK
    <3>7. QED
      BY <3>1, <3>3, <3>5, <3>6
  <2>3. CASE i # s
    <3>1. Uncounted(i)' = Uncounted(i)
      BY <2>3 DEF Uncounted, ArrivedFor
    <3>2. QED
      BY <2>1, <2>3, <3>1 DEF CountsMatch, TypeOK
  <2>4. QED
    BY <2>2, <2>3
<1>6. QED
  BY <1>1, <1>2, <1>4, <1>5

\* The last validation to be counted off flushes, for an EOSE if one is pending.
LEMMA ValidationCountedKeeps ==
  ASSUME SubInv, NEW m \in Messages, ValidationCounted(m)
  PROVE  SubInv'
<1> DEFINE s == arrivedFor[m]
           next == decremented(pendingValidationCounts[s])
<1>1. /\ running = Idle /\ m \in settling
      /\ settling' = settling \ {m}
      /\ pendingValidationCounts' = [pendingValidationCounts EXCEPT ![s] = next]
      /\ UNCHANGED <<life, eose, validating, arrivedFor, handed, lost>>
      /\ UNCHANGED <<subscriptions, opened, requested, unsubscribed>>
  BY DEF ValidationCounted, life
<1>2. /\ s \in opened /\ s \in Subs
      /\ pendingValidationCounts' \in [Subs -> Nat]
      /\ Arrivals' /\ CountsMatch'
  BY <1>1, CountingOff DEF SubInv, TypeOK
<1>3. pendingValidationCounts'[s] = next
  BY <1>1, <1>2 DEF SubInv, TypeOK
<1>4. \A i \in Subs : \A n \in owed'[i] : arrivedFor[n] = i
  BY <1>1 DEF SubInv, Places, eose
<1>5. CASE UNCHANGED <<buffers, running>>
  <2>1. TypeOK'
    BY <1>1, <1>2, <1>5 DEF SubInv, TypeOK, life, eose, buffers
  <2>2. Places' /\ Flushing' /\ NothingMissed' /\ UnsubscribeIsFinal'
    BY <1>1, <1>5 DEF SubInv, Places, Flushing, NothingMissed, UnsubscribeIsFinal, buffers, life, eose
  <2>3. QED
    BY <1>2, <2>1, <2>2 DEF SubInv
<1>6. ASSUME NEW then \in {"counted", "finalize"}, flushSubscriptionBuffer(s, then, {}),
             then = "finalize" => s \in pendingEose /\ pendingValidationCounts'[s] = 0
      PROVE  SubInv'
  <2>1. running.batch = {} /\ UNCHANGED <<life, arrivedFor, validating, handed, lost>>
    BY <1>1 DEF Idle
  <2>2. /\ running' \in Running /\ running'.then = then
        /\ eventBuffers' \in [Subs -> SUBSET Messages]
        /\ bufferKeys' \subseteq Subs /\ bufferAccess' \subseteq Subs
        /\ Places' /\ NothingMissed' /\ UnsubscribeIsFinal'
    BY <1>2, <1>4, <1>6, <2>1, FlushKeeps
  <2>3. TypeOK'
    BY <1>1, <1>2, <2>2 DEF SubInv, TypeOK, Running, life, eose
  <2>4. Flushing'
    <3>1. CASE then = "counted"
      BY <2>2, <3>1 DEF Flushing
    <3>2. CASE then = "finalize"
      <4>1. s \in pendingEose' /\ settling' \subseteq settling
        BY <1>1, <1>6, <3>2 DEF eose
      <4>2. QED
        BY <1>2, <1>4, <1>6, <2>1, <3>2, <4>1, FinalizeFlushes
    <3>3. QED
      BY <3>1, <3>2
  <2>5. QED
    BY <1>2, <2>2, <2>3, <2>4 DEF SubInv
<1>7. QED
  <2>1. CASE s \in pendingEose
    <3>1. maybeFinalizeEOSE(s)
      BY <2>1 DEF ValidationCounted
    <3>2. pendingValidationCounts'[s] > 0 \/ pendingValidationCounts'[s] = 0
      BY <1>2
    <3>3. QED
      BY <1>5, <1>6, <2>1, <3>1, <3>2 DEF maybeFinalizeEOSE
  <2>2. CASE s \notin pendingEose
    <3>1. UNCHANGED <<buffers, running>> \/ flushSubscriptionBuffer(s, "counted", {})
      BY <2>2 DEF ValidationCounted
    <3>2. QED
      BY <1>5, <1>6, <3>1
  <2>3. QED
    BY <2>1, <2>2

\* onEvent is called for one of those being handed over.
LEMMA OnEventKeeps ==
  ASSUME SubInv, NEW m \in Messages, OnEvent(m)
  PROVE  SubInv'
<1> USE DEF SubInv
<1>1. /\ m \in running.batch
      /\ running' = [running EXCEPT !.batch = @ \ {m}]
      /\ handed' = handed \cup {m}
      /\ UNCHANGED <<buffers, life, eose, events, lost>>
  BY DEF OnEvent
<1>2. /\ running' \in Running /\ running'.batch = running.batch \ {m}
      /\ running'.then = running.then /\ running'.sub = running.sub
  BY <1>1 DEF TypeOK, Running
<1>3. running # Idle
  BY <1>1 DEF Idle
<1>4. TypeOK'
  BY <1>1, <1>2 DEF TypeOK, Running, buffers, life, eose, events
<1>5. Arrivals' /\ CountsMatch' /\ UnsubscribeIsFinal'
  BY <1>1 DEF Arrivals, CountsMatch, Uncounted, ArrivedFor, UnsubscribeIsFinal, buffers, life, events
<1>6. Places' /\ NothingMissed'
  BY <1>1, <1>2 DEF Places, NothingMissed, buffers, life, eose, events
<1>7. Flushing'
  BY <1>1, <1>2, <1>3 DEF Flushing, buffers, life, eose, events
<1>8. QED
  BY <1>4, <1>5, <1>6, <1>7

\* onEOSE is called, or the EOSE is dropped with its subscription.
LEMMA FinalizeEoseKeeps ==
  ASSUME SubInv, FinalizeEose
  PROVE  SubInv'
<1> DEFINE s == running.sub
<1>1. /\ running.batch = {} /\ running.then = "finalize"
      /\ UNCHANGED <<buffers, life, owed, eoseSent, events, handed, lost>>
      /\ s \in Subs
  BY DEF FinalizeEose, SubInv, Flushing, TypeOK
<1>2. CASE s \in subscriptions
  <2>1. /\ running' = [running EXCEPT !.then = "eose"]
        /\ eoseCalls' = [eoseCalls EXCEPT ![s] = @ + 1]
        /\ UNCHANGED pendingEose
    BY <1>2 DEF FinalizeEose
  <2>2. running' \in Running /\ running'.then = "eose" /\ running'.batch = {}
    BY <1>1, <2>1 DEF SubInv, TypeOK, Running
  <2>3. TypeOK'
    BY <1>1, <2>1, <2>2 DEF SubInv, TypeOK, Running, buffers, life, events
  <2>4. Arrivals' /\ CountsMatch' /\ UnsubscribeIsFinal' /\ Flushing'
    BY <1>1, <2>2 DEF SubInv, Arrivals, CountsMatch, Uncounted, ArrivedFor, UnsubscribeIsFinal, Flushing,
                      buffers, life, events
  <2>5. Places' /\ NothingMissed'
    BY <1>1, <2>2 DEF SubInv, Places, NothingMissed, buffers, life, events
  <2>6. QED
    BY <2>3, <2>4, <2>5 DEF SubInv
<1>3. CASE s \notin subscriptions
  <2>1. running' = Idle /\ pendingEose' = pendingEose \ {s} /\ UNCHANGED eoseCalls
    BY <1>3 DEF FinalizeEose
  <2>2. running' \in Running
    BY <2>1 DEF Idle, Running
  <2>3. TypeOK' /\ UnsubscribeIsFinal'
    BY <1>1, <2>1, <2>2 DEF SubInv, TypeOK, Running, UnsubscribeIsFinal, buffers, life, events
  <2>4. QED
    BY <1>1, <2>1, <2>3, TakingAwayKeeps
       DEF SubInv, TypeOK, Arrivals, buffers, life, events
<1>4. QED
  BY <1>2, <1>3

-----------------------------------------------------------------------------
\* Nothing has been subscribed.
LEMMA SubInitially == Init => SubInv
<1> SUFFICES ASSUME Init PROVE SubInv
  OBVIOUS
<1>1. TypeOK
  <2>1. running \in Running
    BY DEF Init, Idle, Running
  <2>2. eoseSent \in [Subs -> 0 .. MaxEose]
    BY SubscriptionAssumption DEF Init
  <2>3. QED
    BY <2>1, <2>2 DEF Init, TypeOK, Running
<1>2. Arrivals
  BY FS_EmptySet DEF Init, Arrivals
<1>3. Places /\ Flushing
  BY SubscriptionAssumption DEF Init, Places, Flushing, Idle
<1>4. CountsMatch /\ NothingMissed /\ UnsubscribeIsFinal
  BY SubscriptionAssumption DEF Init, CountsMatch, NothingMissed, UnsubscribeIsFinal
<1>5. QED
  BY <1>1, <1>2, <1>3, <1>4 DEF SubInv

\* Every step keeps the invariant.
LEMMA SubStep == SubInv /\ [Next]_vars => SubInv'
<1> SUFFICES ASSUME SubInv, [Next]_vars PROVE SubInv'
  OBVIOUS
<1> USE DEF buffers, life, eose, events
<1>1. CASE Disconnect
  <2>1. TypeOK' /\ UnsubscribeIsFinal'
    BY <1>1 DEF Disconnect, SubInv, TypeOK, UnsubscribeIsFinal
  <2>2. QED
    BY <1>1, <2>1, TakingAwayKeeps DEF Disconnect, SubInv, Arrivals
<1>2. ASSUME NEW s \in Subs, Unsubscribe(s) PROVE SubInv'
  BY <1>2, UnsubscribeTakesAway DEF Unsubscribe
<1>3. ASSUME NEW s \in Subs, NEW close \in BOOLEAN, NEW timed \in BOOLEAN, Subscribe(s, close, timed)
      PROVE  SubInv'
  BY <1>3, SubscribeKeeps
<1>4. CASE FlushReturn
  <2>1. running.batch = {} /\ UNCHANGED <<life, eose, events, handed, lost>>
    BY <1>4 DEF FlushReturn
  <2>2. CASE running' = Idle /\ UNCHANGED buffers
    <3>1. TypeOK' /\ UnsubscribeIsFinal'
      BY <2>1, <2>2 DEF SubInv, TypeOK, Idle, UnsubscribeIsFinal
    <3>2. QED
      BY <2>1, <2>2, <3>1, TakingAwayKeeps DEF SubInv, Arrivals
  <2>3. ASSUME NEW s \in running.todo \cap bufferKeys,
               flushSubscriptionBuffer(s, "timer", running.todo \ {s})
        PROVE  SubInv'
    <3>1. s \in Subs /\ running.todo \ {s} \in SUBSET Subs
      BY DEF SubInv, TypeOK
    <3>2. QED
      BY <2>1, <2>3, <3>1, TimerKeeps
  <2>4. QED
    BY <1>4, <2>2, <2>3 DEF FlushReturn
<1>5. CASE FinalizeEose
  BY <1>5, FinalizeEoseKeeps
<1>6. CASE EoseReturn
  <2>1. /\ running.then = "eose" /\ running.batch = {} /\ running' = Idle
        /\ UNCHANGED <<owed, eoseSent, eoseCalls, validating, settling, arrivedFor, handed, lost>>
    BY <1>6 DEF EoseReturn, SubInv, Flushing
  <2>2. CASE running.sub \in autoClose \cap subscriptions
    <3>1. unsubscribe(running.sub) /\ running.sub \in subscriptions
      BY <1>6, <2>2 DEF EoseReturn
    <3>2. QED
      BY <2>1, <3>1, UnsubscribeTakesAway
  <2>3. CASE running.sub \notin autoClose \cap subscriptions
    <3>1. /\ pendingEose' = pendingEose \ {running.sub}
          /\ UNCHANGED <<buffers, life, pendingValidationCounts>>
      BY <1>6, <2>3 DEF EoseReturn
    <3>2. TypeOK' /\ UnsubscribeIsFinal'
      BY <2>1, <3>1 DEF SubInv, TypeOK, Idle, UnsubscribeIsFinal
    <3>3. QED
      BY <2>1, <3>1, <3>2, TakingAwayKeeps DEF SubInv, Arrivals
  <2>4. QED
    BY <2>2, <2>3
<1>7. ASSUME NEW m \in Messages, OnEvent(m) PROVE SubInv'
  BY <1>7, OnEventKeeps
<1>8. CASE Connected \/ ConnectionLost
  <2>1. TypeOK' /\ UnsubscribeIsFinal'
    BY <1>8 DEF Connected, ConnectionLost, SubInv, TypeOK, UnsubscribeIsFinal
  <2>2. QED
    BY <1>8, <2>1, TakingAwayKeeps DEF Connected, ConnectionLost, SubInv, Arrivals
<1>9. CASE FlushTimer
  <2>1. PICK s \in bufferKeys : flushSubscriptionBuffer(s, "timer", bufferKeys \ {s})
    BY <1>9 DEF FlushTimer
  <2>2. s \in Subs /\ bufferKeys \ {s} \in SUBSET Subs
    BY DEF SubInv, TypeOK
  <2>3. running.batch = {} /\ UNCHANGED <<life, eose, events, handed, lost>>
    BY <1>9 DEF FlushTimer, Idle
  <2>4. QED
    BY <2>1, <2>2, <2>3, TimerKeeps
<1>10. ASSUME NEW s \in Subs, ReceiveEOSE(s) PROVE SubInv'
  BY <1>10, ReceiveEoseKeeps
<1>11. ASSUME NEW s \in Subs, ReceiveClosed(s) PROVE SubInv'
  <2>1. TypeOK' /\ UnsubscribeIsFinal'
    BY <1>11 DEF ReceiveClosed, SubInv, TypeOK, UnsubscribeIsFinal
  <2>2. QED
    BY <1>11, <2>1, TakingAwayKeeps DEF ReceiveClosed, SubInv, Arrivals
<1>12. ASSUME NEW s \in Subs, EoseTimeout(s) PROVE SubInv'
  <2>1. CASE s \in subscriptions
    BY <1>12, <2>1, UnsubscribeTakesAway DEF EoseTimeout
  <2>2. CASE s \notin subscriptions
    <3>1. TypeOK' /\ UnsubscribeIsFinal'
      BY <1>12, <2>2 DEF EoseTimeout, SubInv, TypeOK, UnsubscribeIsFinal
    <3>2. QED
      BY <1>12, <2>2, <3>1, TakingAwayKeeps DEF EoseTimeout, SubInv, Arrivals
  <2>3. QED
    BY <2>1, <2>2
<1>13. ASSUME NEW s \in Subs, NEW m \in Messages, ReceiveEvent(s, m) PROVE SubInv'
  BY <1>13, ReceiveEventKeeps
<1>14. ASSUME NEW m \in Messages, EventValidated(m) PROVE SubInv'
  BY <1>14, EventValidatedKeeps
<1>15. ASSUME NEW m \in Messages, ValidationCounted(m) PROVE SubInv'
  BY <1>15, ValidationCountedKeeps
<1>16. CASE UNCHANGED vars
  <2>1. TypeOK' /\ UnsubscribeIsFinal'
    BY <1>16 DEF vars, SubInv, TypeOK, UnsubscribeIsFinal
  <2>2. QED
    BY <1>16, <2>1, TakingAwayKeeps DEF vars, SubInv, Arrivals
<1>17. QED
  BY <1>1, <1>2, <1>3, <1>4, <1>5, <1>6, <1>7, <1>8, <1>9, <1>10, <1>11, <1>12, <1>13, <1>14, <1>15,
     <1>16 DEF Next, UserCall, Callback

\* The inductive invariant holds in every reachable state.
THEOREM SubInvariant == Spec => []SubInv
  BY SubInitially, SubStep, PTL DEF Spec

\* The pending-validation counter of a live subscription is exact, however the
\* reactions to validations interleave with its end (relay.ts 971-1076).
THEOREM CountsAlwaysMatch == Spec => []CountsMatch
<1>1. SubInv => CountsMatch
  BY DEF SubInv
<1>2. QED
  BY <1>1, SubInvariant, PTL

\* No valid event of a live subscription disappears between its arrival and
\* onEvent, except by a memory limit (relay.ts 1026-1083, 1136-1160).
THEOREM NothingIsMissed == Spec => []NothingMissed
<1>1. SubInv => NothingMissed
  BY DEF SubInv
<1>2. QED
  BY <1>1, SubInvariant, PTL

\* Whatever comes after unsubscribe() gives the subscription nothing again.
THEOREM UnsubscribeFinal == Spec => []UnsubscribeIsFinal
<1>1. SubInv => UnsubscribeIsFinal
  BY DEF SubInv
<1>2. QED
  BY <1>1, SubInvariant, PTL

-----------------------------------------------------------------------------
\* The caller's view.  What waits to be handed over, as the feed sees it, does
\* not change when a buffer is taken: it moves from the buffer to the batch.
LEMMA FlushKeepsWaiting ==
  ASSUME SubInv, running.batch = {}, NEW s \in Subs,
         NEW then \in {"timer", "counted", "finalize"}, NEW todo \in SUBSET Subs,
         flushSubscriptionBuffer(s, then, todo),
         UNCHANGED <<subscriptions, arrivedFor, validating>>
  PROVE  Waiting' = Waiting /\ EoseDue' = pendingEose'
<1>1. /\ running'.then = then
      /\ running'.batch = IF s \in subscriptions THEN eventBuffers[s] ELSE {}
  BY DEF flushSubscriptionBuffer
<1>2. \A i \in Subs : eventBuffers'[i] = IF i = s THEN {} ELSE eventBuffers[i]
  BY DEF flushSubscriptionBuffer, buffers, SubInv, TypeOK
<1>3. \A m \in eventBuffers[s] : m \in Messages \ Invalid /\ arrivedFor[m] = s
  BY DEF SubInv, TypeOK, Places
<1>4. subscriptions \subseteq Subs
  BY DEF SubInv, TypeOK
<1>5. ASSUME NEW m PROVE m \in Waiting' <=> m \in Waiting
  BY <1>1, <1>2, <1>3, <1>4 DEF Waiting
<1>6. QED
  BY <1>1, <1>5 DEF EoseDue

\* A subscription that ends takes from what the feed has waiting, never adds.
LEMMA EndingGivesUp ==
  ASSUME SubInv,
         UNCHANGED <<arrivedFor, validating, handed, owed, eoseCalls>>,
         running'.batch = running.batch,
         subscriptions' \subseteq subscriptions,
         \A s \in Subs : eventBuffers'[s] \subseteq eventBuffers[s],
         EoseDue' \subseteq EoseDue
  PROVE  Feed!GiveUp
<1>1. subscriptions \subseteq Subs
  BY DEF SubInv, TypeOK
<1>2. Waiting' \subseteq Waiting
  BY <1>1 DEF Waiting
<1>3. QED
  BY <1>2 DEF Feed!GiveUp

\* unsubscribe() gives up what its subscription had waiting.
LEMMA UnsubscribeGivesUp ==
  ASSUME SubInv, NEW s \in subscriptions, unsubscribe(s),
         UNCHANGED <<arrivedFor, validating, handed, owed, eoseCalls>>,
         \/ UNCHANGED running
         \/ running.then = "eose" /\ running.sub = s /\ running' = Idle
  PROVE  Feed!GiveUp
<1>1. /\ subscriptions' \subseteq subscriptions
      /\ \A i \in Subs : eventBuffers'[i] \subseteq eventBuffers[i]
      /\ pendingEose' = pendingEose \ {s}
  BY DEF unsubscribe, SubInv, TypeOK
<1>2. running'.batch = running.batch
  BY DEF SubInv, Flushing, Idle
<1>3. EoseDue' \subseteq EoseDue
  BY <1>1 DEF EoseDue, Idle
<1>4. QED
  BY <1>1, <1>2, <1>3, EndingGivesUp

\* A message that arrives is waiting if it is valid and its subscription live.
LEMMA ReceiveEventArrives ==
  ASSUME SubInv, NEW s \in Subs, NEW m \in Messages, ReceiveEvent(s, m)
  PROVE  Feed!Arrive(m, s)
<1>1. /\ running = Idle /\ arrivedFor[m] = NoSub
      /\ arrivedFor' = [arrivedFor EXCEPT ![m] = s]
      /\ validating' = validating \cup {m}
      /\ UNCHANGED <<eventBuffers, subscriptions, pendingEose, owed, eoseCalls, running, handed>>
  BY DEF ReceiveEvent, buffers, life, eose
<1>2. /\ arrivedFor \in [Messages -> Subs \cup {NoSub}]
      /\ subscriptions \subseteq Subs /\ s # NoSub /\ NoSub \notin subscriptions
      /\ running.batch = {}
  BY <1>1, SubscriptionAssumption DEF SubInv, TypeOK, Idle
<1>3. m \notin Waiting
  BY <1>1, <1>2 DEF Waiting
<1>4. \A i \in Subs : m \notin eventBuffers[i]
  BY <1>1, <1>2, SubscriptionAssumption DEF SubInv, Places
<1>5. ASSUME NEW n \in Messages \ {m} PROVE n \in Waiting' <=> n \in Waiting
  BY <1>1, <1>2 DEF Waiting
<1>6. Waiting \subseteq Messages /\ Waiting' \subseteq Messages
  BY <1>1, <1>2 DEF Waiting
<1>7. Waiting' \in {Waiting, Waiting \cup {m}}
  BY <1>3, <1>5, <1>6
<1>8. EoseDue' = EoseDue
  BY <1>1 DEF EoseDue
<1>9. QED
  BY <1>1, <1>7, <1>8 DEF Feed!Arrive

\* onEOSE is called when nothing that arrived before the EOSE is waiting.
LEMMA FinalizeEoseTells ==
  ASSUME SubInv, FinalizeEose
  PROVE  Feed!GiveUp \/ \E s \in Subs : Feed!TellEose(s)
<1> DEFINE s == running.sub
<1>1. /\ running.batch = {} /\ running.then = "finalize" /\ s \in Subs
      /\ UNCHANGED <<eventBuffers, subscriptions, owed, arrivedFor, validating, handed>>
  BY DEF FinalizeEose, SubInv, Flushing, TypeOK, buffers, life, events
<1>2. CASE s \in subscriptions
  <2>1. /\ running' = [running EXCEPT !.then = "eose"]
        /\ eoseCalls' = [eoseCalls EXCEPT ![s] = @ + 1]
        /\ UNCHANGED pendingEose
    BY <1>2 DEF FinalizeEose
  <2>2. running'.batch = {} /\ running'.then = "eose" /\ running'.sub = s
    BY <1>1, <2>1 DEF SubInv, TypeOK
  <2>3. s \in EoseDue /\ EoseDue' = EoseDue \ {s}
    BY <1>1, <1>2, <2>1, <2>2 DEF EoseDue, SubInv, Flushing
  <2>4. Waiting' = Waiting
    BY <1>1, <2>2 DEF Waiting
  <2>5. owed[s] \cap Waiting = {}
    BY <1>1, <1>2 DEF Waiting, SubInv, Flushing, Places
  <2>6. Feed!TellEose(s)
    BY <1>1, <2>1, <2>3, <2>4, <2>5 DEF Feed!TellEose
  <2>7. QED
    BY <1>1, <2>6
<1>3. CASE s \notin subscriptions
  <2>1. running' = Idle /\ pendingEose' = pendingEose \ {s} /\ UNCHANGED eoseCalls
    BY <1>3 DEF FinalizeEose
  <2>2. running'.batch = running.batch /\ EoseDue' \subseteq EoseDue
    BY <1>1, <2>1 DEF Idle, EoseDue
  <2>3. QED
    BY <1>1, <2>1, <2>2, EndingGivesUp
<1>4. QED
  BY <1>2, <1>3

LEMMA FeedInitially == Init => Feed!Init
<1> SUFFICES ASSUME Init PROVE Feed!Init
  OBVIOUS
<1>1. Waiting = {} /\ EoseDue = {}
  BY DEF Init, Waiting, EoseDue, Idle
<1>2. QED
  BY <1>1 DEF Init, Feed!Init

\* Every step is one of the feed's, or changes nothing the feed shows.
LEMMA FeedStep == SubInv /\ [Next]_vars => [Feed!Next]_(Feed!feedVars)
<1> SUFFICES ASSUME SubInv, [Next]_vars PROVE Feed!Next \/ UNCHANGED Feed!feedVars
  OBVIOUS
<1> DEFINE Shown == <<arrivedFor, handed, owed, eoseCalls>>
<1> USE DEF buffers, life, eose, events
<1>1. ASSUME UNCHANGED Shown, Waiting' = Waiting, EoseDue' = EoseDue
      PROVE  UNCHANGED Feed!feedVars
  BY <1>1 DEF Feed!feedVars
<1>2. ASSUME UNCHANGED Shown, UNCHANGED <<subscriptions, validating, eventBuffers, pendingEose>>,
             \/ UNCHANGED running
             \/ running.batch = {} /\ running.then \in {"counted", "timer"} /\ running' = Idle
      PROVE  UNCHANGED Feed!feedVars
  BY <1>2 DEF Feed!feedVars, Waiting, EoseDue, Idle
<1>3. CASE Disconnect
  <2>1. UNCHANGED running /\ UNCHANGED pendingEose
    BY <1>3 DEF Disconnect
  <2>2. Feed!GiveUp
    BY <1>3, <2>1, EndingGivesUp DEF Disconnect, EoseDue
  <2>3. QED
    BY <2>2 DEF Feed!Next
<1>4. ASSUME NEW s \in Subs, Unsubscribe(s) PROVE Feed!Next
  <2>1. Feed!GiveUp
    BY <1>4, UnsubscribeGivesUp DEF Unsubscribe
  <2>2. QED
    BY <2>1 DEF Feed!Next
<1>5. ASSUME NEW s \in Subs, NEW close \in BOOLEAN, NEW timed \in BOOLEAN, Subscribe(s, close, timed)
      PROVE  UNCHANGED Feed!feedVars
  <2>1. /\ subscriptions' = subscriptions \cup {s}
        /\ UNCHANGED <<arrivedFor, handed, owed, eoseCalls, validating, running, pendingEose>>
        /\ \A m \in Messages : arrivedFor[m] # s
    BY <1>5, SubscriptionAssumption DEF Subscribe, SubInv, Arrivals
  <2>2. \A i \in Subs \ {s} : eventBuffers'[i] = eventBuffers[i]
    BY <1>5 DEF Subscribe, SubInv, TypeOK
  <2>3. subscriptions \subseteq Subs
    BY DEF SubInv, TypeOK
  <2>4. ASSUME NEW m PROVE m \in Waiting' <=> m \in Waiting
    BY <2>1, <2>2, <2>3 DEF Waiting
  <2>5. QED
    BY <1>1, <2>1, <2>4 DEF EoseDue
<1>6. CASE FlushReturn
  <2>1. /\ running.batch = {} /\ running.then \in {"counted", "timer"}
        /\ UNCHANGED <<life, eose, events, handed, lost>>
    BY <1>6 DEF FlushReturn
  <2>2. CASE running' = Idle /\ UNCHANGED buffers
    BY <1>2, <2>1, <2>2
  <2>3. ASSUME NEW s \in running.todo \cap bufferKeys,
               flushSubscriptionBuffer(s, "timer", running.todo \ {s})
        PROVE  UNCHANGED Feed!feedVars
    <3>1. s \in Subs /\ running.todo \ {s} \in SUBSET Subs
      BY DEF SubInv, TypeOK
    <3>2. Waiting' = Waiting /\ EoseDue' = pendingEose'
      BY <2>1, <2>3, <3>1, FlushKeepsWaiting
    <3>3. QED
      BY <1>1, <2>1, <3>2 DEF EoseDue
  <2>4. QED
    BY <1>6, <2>2, <2>3 DEF FlushReturn
<1>7. CASE FinalizeEose
  BY <1>7, FinalizeEoseTells DEF Feed!Next
<1>8. CASE EoseReturn
  <2>1. /\ running.then = "eose" /\ running' = Idle
        /\ UNCHANGED <<owed, eoseCalls, validating, arrivedFor, handed>>
    BY <1>8 DEF EoseReturn
  <2>2. CASE running.sub \in autoClose \cap subscriptions
    <3>1. unsubscribe(running.sub) /\ running.sub \in subscriptions
      BY <1>8, <2>2 DEF EoseReturn
    <3>2. Feed!GiveUp
      BY <2>1, <3>1, UnsubscribeGivesUp
    <3>3. QED
      BY <3>2 DEF Feed!Next
  <2>3. CASE running.sub \notin autoClose \cap subscriptions
    <3>1. pendingEose' = pendingEose \ {running.sub} /\ UNCHANGED <<buffers, life>>
      BY <1>8, <2>3 DEF EoseReturn
    <3>2. running'.batch = running.batch /\ EoseDue' = EoseDue
      BY <2>1, <3>1 DEF SubInv, Flushing, Idle, EoseDue
    <3>3. QED
      BY <1>1, <2>1, <3>1, <3>2 DEF Waiting
  <2>4. QED
    BY <2>2, <2>3
<1>9. ASSUME NEW m \in Messages, OnEvent(m) PROVE Feed!Next
  <2>1. /\ m \in running.batch
        /\ handed' = handed \cup {m}
        /\ UNCHANGED <<buffers, life, eose, events>>
    BY <1>9 DEF OnEvent
  <2>2. running'.batch = running.batch \ {m} /\ EoseDue' = EoseDue
    BY <1>9 DEF OnEvent, SubInv, TypeOK, EoseDue
  <2>3. m \notin validating /\ \A s \in Subs : m \notin eventBuffers[s]
    BY <2>1 DEF SubInv, Places
  <2>4. subscriptions \subseteq Subs
    BY DEF SubInv, TypeOK
  <2>5. m \in Waiting /\ Waiting' = Waiting \ {m}
    BY <2>1, <2>2, <2>3, <2>4 DEF Waiting
  <2>6. Feed!HandOver(m)
    BY <2>1, <2>2, <2>5 DEF Feed!HandOver
  <2>7. QED
    BY <2>6 DEF Feed!Next
<1>10. CASE Connected \/ ConnectionLost
  BY <1>2, <1>10 DEF Connected, ConnectionLost
<1>11. CASE FlushTimer
  <2>1. PICK s \in bufferKeys : flushSubscriptionBuffer(s, "timer", bufferKeys \ {s})
    BY <1>11 DEF FlushTimer
  <2>2. /\ s \in Subs /\ bufferKeys \ {s} \in SUBSET Subs
        /\ running = Idle /\ UNCHANGED <<life, eose, events, handed, lost>>
    BY <1>11 DEF FlushTimer, SubInv, TypeOK
  <2>3. Waiting' = Waiting /\ EoseDue' = pendingEose'
    BY <2>1, <2>2, FlushKeepsWaiting DEF Idle
  <2>4. QED
    BY <1>1, <2>2, <2>3 DEF EoseDue, Idle
<1>12. ASSUME NEW s \in Subs, ReceiveEOSE(s) PROVE Feed!Next
  <2>1. /\ running = Idle
        /\ owed' = [owed EXCEPT ![s] = ArrivedFor(s)]
        /\ pendingEose' = pendingEose \cup {s}
        /\ UNCHANGED <<life, eoseCalls, events, handed>>
        /\ UNCHANGED <<buffers, running>> \/ flushSubscriptionBuffer(s, "finalize", {})
    BY <1>12 DEF ReceiveEOSE, maybeFinalizeEOSE
  <2>2. Waiting' = Waiting /\ EoseDue' = pendingEose'
    <3>1. CASE UNCHANGED <<buffers, running>>
      BY <2>1, <3>1 DEF Waiting, EoseDue, Idle
    <3>2. CASE flushSubscriptionBuffer(s, "finalize", {})
      BY <2>1, <3>2, FlushKeepsWaiting DEF Idle
    <3>3. QED
      BY <2>1, <3>1, <3>2
  <2>3. EoseDue' = EoseDue \cup {s}
    BY <2>1, <2>2 DEF EoseDue, Idle
  <2>4. Feed!ArrivedFor(s) = ArrivedFor(s)
    BY DEF Feed!ArrivedFor, ArrivedFor
  <2>5. Feed!EoseArrives(s)
    BY <2>1, <2>2, <2>3, <2>4 DEF Feed!EoseArrives
  <2>6. QED
    BY <2>5 DEF Feed!Next
<1>13. ASSUME NEW s \in Subs, ReceiveClosed(s) PROVE Feed!Next
  <2>1. Feed!GiveUp
    BY <1>13, EndingGivesUp DEF ReceiveClosed, EoseDue
  <2>2. QED
    BY <2>1 DEF Feed!Next
<1>14. ASSUME NEW s \in Subs, EoseTimeout(s) PROVE Feed!Next
  <2>1. CASE s \in subscriptions
    <3>1. Feed!GiveUp
      BY <1>14, <2>1, UnsubscribeGivesUp DEF EoseTimeout
    <3>2. QED
      BY <3>1 DEF Feed!Next
  <2>2. CASE s \notin subscriptions
    <3>1. Feed!GiveUp
      BY <1>14, <2>2, EndingGivesUp DEF EoseTimeout, EoseDue
    <3>2. QED
      BY <3>1 DEF Feed!Next
  <2>3. QED
    BY <2>1, <2>2
<1>15. ASSUME NEW s \in Subs, NEW m \in Messages, ReceiveEvent(s, m) PROVE Feed!Next
  BY <1>15, ReceiveEventArrives DEF Feed!Next
<1>16. ASSUME NEW m \in Messages, EventValidated(m) PROVE Feed!Next
  <2>1. /\ m \in validating /\ validating' = validating \ {m}
        /\ UNCHANGED <<arrivedFor, handed, owed, eoseCalls, subscriptions, running, pendingEose>>
    BY <1>16 DEF EventValidated
  <2>2. \A i \in Subs : eventBuffers'[i] \subseteq eventBuffers[i] \cup {m}
    BY <1>16, EventValidatedKeeps
  <2>3. subscriptions \subseteq Subs
    BY DEF SubInv, TypeOK
  <2>4. Waiting' \subseteq Waiting /\ EoseDue' = EoseDue
    BY <2>1, <2>2, <2>3 DEF Waiting, EoseDue
  <2>5. Feed!GiveUp
    BY <2>1, <2>4 DEF Feed!GiveUp
  <2>6. QED
    BY <2>5 DEF Feed!Next
<1>17. ASSUME NEW m \in Messages, ValidationCounted(m) PROVE UNCHANGED Feed!feedVars
  <2>1. /\ running = Idle
        /\ UNCHANGED <<life, eose, validating, arrivedFor, handed>>
    BY <1>17 DEF ValidationCounted
  <2>2. \/ UNCHANGED <<buffers, running>>
        \/ \E then \in {"counted", "finalize"} : flushSubscriptionBuffer(arrivedFor[m], then, {})
    BY <1>17 DEF ValidationCounted, maybeFinalizeEOSE
  <2>3. CASE UNCHANGED <<buffers, running>>
    BY <1>2, <2>1, <2>3
  <2>4. ASSUME NEW then \in {"counted", "finalize"}, flushSubscriptionBuffer(arrivedFor[m], then, {})
        PROVE  UNCHANGED Feed!feedVars
    <3>1. arrivedFor[m] \in Subs
      BY <1>17 DEF ValidationCounted, SubInv, TypeOK, Arrivals
    <3>2. Waiting' = Waiting /\ EoseDue' = pendingEose'
      BY <2>1, <2>4, <3>1, FlushKeepsWaiting DEF Idle
    <3>3. QED
      BY <1>1, <2>1, <3>2 DEF EoseDue, Idle
  <2>5. QED
    BY <2>2, <2>3, <2>4
<1>18. CASE UNCHANGED vars
  BY <1>2, <1>18 DEF vars
<1>19. QED
  BY <1>3, <1>4, <1>5, <1>6, <1>7, <1>8, <1>9, <1>10, <1>11, <1>12, <1>13, <1>14, <1>15, <1>16,
     <1>17, <1>18 DEF Next, UserCall, Callback

\* A subscriber is handed an event at most once and told of an EOSE after the
\* events that came before it: the buffers, counters, timers and validations of
\* the relay implement SubscriptionFeed (relay.ts 971-1240).
THEOREM FeedIsImplemented == Spec => ImplementsFeed
<1>1. Init => Feed!Init
  BY FeedInitially
<1>2. SubInv /\ [Next]_vars => [Feed!Next]_(Feed!feedVars)
  BY FeedStep
<1>3. QED
  BY <1>1, <1>2, SubInvariant, PTL DEF Spec, ImplementsFeed, Feed!Spec
===============================================================================
