--------------------------- MODULE NostrClientProofs ---------------------------
(***************************************************************************)
(* fetchMany and subscribe over any relays, with any calls at once: a call *)
(* that is over left nothing behind, and a fetch that its relays end has   *)
(* their answers.  The invariant adds to the types that only calls under   *)
(* way hold anything, that no relay is asked that has answered, and that   *)
(* the count of a fetch is the number of answers while none was lost.      *)
(***************************************************************************)
EXTENDS NostrClient, FiniteSetTheorems, TLAPS

\* Only a call that is under way holds subscriptions or listens to its signal.
Holding == \A c \in Calls : status[c] # "active" => held[c] = {} /\ c \notin listening

\* A call begins with nothing counted.
Beginning ==
  \A c \in Calls : status[c] = "idle" => answered[c] = {} /\ (c \in Fetches => eoseCount[c] = 0)

\* A relay that has answered is not asked again, and its answer counts once.
Counting ==
  /\ \A c \in Calls : asked[c] \cap answered[c] = {} /\ IsFiniteSet(answered[c])
  /\ \A c \in Fetches \ leavers : eoseCount[c] = Cardinality(answered[c])

ClientInv == TypeOK /\ Holding /\ Beginning /\ Counting

LEMMA ClientInitially == Init => ClientInv
<1> SUFFICES ASSUME Init PROVE ClientInv
  OBVIOUS
<1> USE DEF Init
<1>1. TypeOK
  BY ClientAssumption DEF TypeOK, Calls
<1>2. Holding /\ Beginning
  BY DEF Holding, Beginning, Calls
<1>3. Counting
  BY FS_EmptySet DEF Counting, Calls
<1>4. QED
  BY <1>1, <1>2, <1>3 DEF ClientInv

\* Every step keeps it: one lemma for the steps that change the relays, one for
\* those that begin or end a call, one for the answers.
LEMMA NetworkKeeps ==
  ASSUME ClientInv,
         \/ disconnectFromRelays
         \/ unsubscribeAll
         \/ \E u \in Urls : addRelay(u) \/ removeRelay(u) \/ RelayConnected(u) \/ ConnectionLost(u)
  PROVE  ClientInv'
<1> USE DEF ClientInv, Calls, network, subs, local, history
<1>1. CASE disconnectFromRelays
  <2> USE <1>1 DEF disconnectFromRelays
  <2>0. PICK connecting \in SUBSET (relays \ connected) :
          held' = [c \in Calls |-> held[c] \ (connected \cup connecting)]
    OBVIOUS
  <2>1. TypeOK'
    BY <2>0 DEF TypeOK
  <2>2. Holding' /\ Beginning'
    BY <2>0 DEF Holding, Beginning
  <2>3. Counting'
    BY DEF Counting
  <2>4. QED
    BY <2>1, <2>2, <2>3
<1>2. CASE unsubscribeAll
  <2> USE <1>2 DEF unsubscribeAll
  <2>1. TypeOK'
    BY DEF TypeOK
  <2>2. Holding' /\ Beginning' /\ Counting'
    BY DEF Holding, Beginning, Counting
  <2>3. QED
    BY <2>1, <2>2
<1>3. ASSUME NEW u \in Urls, addRelay(u) PROVE ClientInv'
  <2> USE <1>3 DEF addRelay
  <2>1. TypeOK'
    BY DEF TypeOK
  <2>2. Holding' /\ Beginning' /\ Counting'
    BY DEF Holding, Beginning, Counting
  <2>3. QED
    BY <2>1, <2>2
<1>4. ASSUME NEW u \in Urls, removeRelay(u) PROVE ClientInv'
  <2> USE <1>4 DEF removeRelay
  <2>1. TypeOK'
    BY DEF TypeOK
  <2>2. Holding' /\ Beginning'
    BY DEF Holding, Beginning
  <2>3. ASSUME NEW c \in Calls PROVE asked'[c] \cap answered'[c] = {} /\ IsFiniteSet(answered'[c])
    <3>1. answered'[c] = answered[c] \ {u} /\ asked'[c] = asked[c] \ {u}
      OBVIOUS
    <3>2. IsFiniteSet(answered[c]) /\ asked[c] \cap answered[c] = {}
      BY DEF Counting
    <3>3. IsFiniteSet(answered[c] \ {u})
      BY <3>2, FS_Subset
    <3>4. QED
      BY <3>1, <3>2, <3>3
  <2>4. ASSUME NEW c \in Fetches \ leavers' PROVE eoseCount'[c] = Cardinality(answered'[c])
    <3>1. c \notin leavers /\ u \notin answered[c]
      OBVIOUS
    <3>2. answered'[c] = answered[c]
      BY <3>1
    <3>3. QED
      BY <3>1, <3>2 DEF Counting
  <2>5. QED
    BY <2>1, <2>2, <2>3, <2>4 DEF Counting
<1>5. ASSUME NEW u \in Urls, RelayConnected(u) PROVE ClientInv'
  <2> USE <1>5 DEF RelayConnected
  <2>1. TypeOK'
    BY DEF TypeOK
  <2>2. Holding' /\ Beginning' /\ Counting'
    BY DEF Holding, Beginning, Counting
  <2>3. QED
    BY <2>1, <2>2
<1>6. ASSUME NEW u \in Urls, ConnectionLost(u) PROVE ClientInv'
  <2> USE <1>6 DEF ConnectionLost
  <2>1. TypeOK'
    BY DEF TypeOK
  <2>2. Holding' /\ Beginning' /\ Counting'
    BY DEF Holding, Beginning, Counting
  <2>3. QED
    BY <2>1, <2>2
<1>7. QED
  BY <1>1, <1>2, <1>3, <1>4, <1>5, <1>6

\* cleanup() ends a fetch: its subscriptions, its timeout and its listener go together.
LEMMA CleanupKeeps ==
  ASSUME ClientInv, NEW c \in Fetches, NEW how \in {"complete", "timedOut", "aborted"},
         cleanup(c, how), UNCHANGED network, aborted' \subseteq Signalled
  PROVE  /\ held' \in [Calls -> SUBSET relays'] /\ asked' \in [Calls -> SUBSET connected']
         /\ \A d \in Calls : asked'[d] \subseteq asked[d]
         /\ status' \in [Calls -> {"idle", "active", "refused", "complete", "timedOut", "aborted",
                                   "ended"}]
         /\ timers' = {d \in Fetches : status'[d] = "active"}
         /\ listening' \subseteq Signalled
         /\ \A d \in Calls : status'[d] = "idle" => status[d] = "idle" /\ d # c
         /\ asked'[c] = {}
         /\ Holding'
<1> USE DEF ClientInv, Calls, network, cleanup, unsubscribe
<1>1. /\ held' \in [Calls -> SUBSET relays'] /\ asked' \in [Calls -> SUBSET connected']
      /\ \A d \in Calls : asked'[d] \subseteq asked[d]
      /\ asked'[c] = {}
  BY DEF TypeOK
<1>2. /\ status' \in [Calls -> {"idle", "active", "refused", "complete", "timedOut", "aborted",
                                "ended"}]
      /\ timers' = {d \in Fetches : status'[d] = "active"}
      /\ listening' \subseteq Signalled
      /\ \A d \in Calls : status'[d] = "idle" => status[d] = "idle" /\ d # c
  BY DEF TypeOK
<1>3. Holding'
  BY DEF Holding, TypeOK
<1>4. QED
  BY <1>1, <1>2, <1>3

\* Calls begin, are refused, run out of time, are aborted and are unsubscribed.
LEMMA CallKeeps ==
  ASSUME ClientInv,
         \/ \E c \in Calls : Refuse(c)
         \/ \E c \in Subscribes : subscribeDetailed(c) \/ Unsubscribe(c)
         \/ \E c \in Fetches :
              FetchFromNobody(c) \/ fetchManyDetailed(c) \/ FetchTimeout(c) \/ Abort(c)
  PROVE  ClientInv'
<1> USE DEF ClientInv, Calls, network, subs, local, history
<1>0. Fetches \cap Subscribes = {} /\ Signalled \subseteq Fetches
  BY ClientAssumption
<1>1. ASSUME NEW c \in Calls, Refuse(c) PROVE ClientInv'
  <2> USE <1>1 DEF Refuse
  <2>1. TypeOK'
    BY DEF TypeOK
  <2>2. Holding' /\ Beginning' /\ Counting'
    BY DEF Holding, Beginning, Counting, TypeOK
  <2>3. QED
    BY <2>1, <2>2
<1>2. ASSUME NEW c \in Subscribes, subscribeDetailed(c) PROVE ClientInv'
  <2> USE <1>2 DEF subscribeDetailed, SubscribeAll
  <2>1. TypeOK'
    BY <1>0 DEF TypeOK
  <2>2. Holding' /\ Beginning'
    BY DEF Holding, Beginning, TypeOK
  <2>3. Counting'
    BY DEF Counting, Beginning, TypeOK
  <2>4. QED
    BY <2>1, <2>2, <2>3
<1>3. ASSUME NEW c \in Subscribes, Unsubscribe(c) PROVE ClientInv'
  <2> USE <1>3 DEF Unsubscribe, unsubscribe
  <2>1. TypeOK'
    BY <1>0 DEF TypeOK
  <2>2. Holding' /\ Beginning'
    BY <1>0 DEF Holding, Beginning, TypeOK
  <2>3. Counting'
    BY DEF Counting, TypeOK
  <2>4. QED
    BY <2>1, <2>2, <2>3
<1>4. ASSUME NEW c \in Fetches, FetchFromNobody(c) PROVE ClientInv'
  <2> USE <1>4 DEF FetchFromNobody
  <2>1. TypeOK'
    BY DEF TypeOK
  <2>2. Holding' /\ Beginning' /\ Counting'
    BY DEF Holding, Beginning, Counting, TypeOK
  <2>3. QED
    BY <2>1, <2>2
<1>5. ASSUME NEW c \in Fetches, fetchManyDetailed(c) PROVE ClientInv'
  <2> USE <1>5 DEF fetchManyDetailed
  <2>1. CASE c \in aborted
    <3>1. cleanup(c, "aborted")
      BY <2>1
    <3>2. UNCHANGED network /\ aborted' \subseteq Signalled
      BY DEF TypeOK
    <3>3. TypeOK'
      BY <3>1, <3>2, CleanupKeeps DEF TypeOK
    <3>4. Beginning' /\ Counting'
      BY <3>1, <3>2, CleanupKeeps DEF Beginning, Counting
    <3>5. QED
      BY <3>1, <3>2, <3>3, <3>4, CleanupKeeps
  <2>2. CASE c \notin aborted
    <3> USE <2>2 DEF SubscribeAll
    <3>1. TypeOK'
      BY DEF TypeOK
    <3>2. Holding' /\ Beginning'
      BY DEF Holding, Beginning, TypeOK
    <3>3. Counting'
      BY DEF Counting, Beginning, TypeOK
    <3>4. QED
      BY <3>1, <3>2, <3>3
  <2>3. QED
    BY <2>1, <2>2
<1>6. ASSUME NEW c \in Fetches, FetchTimeout(c) PROVE ClientInv'
  <2> USE <1>6 DEF FetchTimeout
  <2>1. cleanup(c, "timedOut") /\ UNCHANGED network /\ aborted' \subseteq Signalled
    BY DEF TypeOK
  <2>2. TypeOK'
    BY <2>1, CleanupKeeps DEF TypeOK
  <2>3. Beginning' /\ Counting'
    BY <2>1, CleanupKeeps DEF Beginning, Counting
  <2>4. QED
    BY <2>1, <2>2, <2>3, CleanupKeeps
<1>7. ASSUME NEW c \in Fetches, Abort(c) PROVE ClientInv'
  <2> USE <1>7 DEF Abort
  <2>1. CASE c \in listening
    <3>1. cleanup(c, "aborted") /\ UNCHANGED network /\ aborted' \subseteq Signalled
      BY <2>1 DEF TypeOK
    <3>2. TypeOK'
      BY <3>1, CleanupKeeps DEF TypeOK
    <3>3. Beginning' /\ Counting'
      BY <3>1, CleanupKeeps DEF Beginning, Counting
    <3>4. QED
      BY <3>1, <3>2, <3>3, CleanupKeeps
  <2>2. CASE c \notin listening
    <3> USE <2>2
    <3>1. TypeOK'
      BY DEF TypeOK
    <3>2. Holding' /\ Beginning' /\ Counting'
      BY DEF Holding, Beginning, Counting
    <3>3. QED
      BY <3>1, <3>2
  <2>3. QED
    BY <2>1, <2>2
<1>8. QED
  BY <1>1, <1>2, <1>3, <1>4, <1>5, <1>6, <1>7

\* One more relay has answered that had not.
LEMMA AnswerCounts ==
  ASSUME ClientInv, NEW c \in Calls, NEW u \in Urls, ReceiveEose(c, u)
  PROVE  /\ answered' \in [Calls -> SUBSET relays]
         /\ \A d \in Calls : d # c => answered'[d] = answered[d]
         /\ answered'[c] = answered[c] \cup {u} /\ u \notin answered[c]
         /\ IsFiniteSet(answered'[c])
         /\ Cardinality(answered'[c]) = Cardinality(answered[c]) + 1
         /\ status[c] = "active"
<1> USE DEF ClientInv, ReceiveEose
<1>1. u \in asked[c] /\ u \in held[c] /\ u \in relays
  BY DEF TypeOK
<1>2. status[c] = "active"
  BY <1>1 DEF Holding
<1>3. answered' = [answered EXCEPT ![c] = @ \cup {u}] /\ u \notin answered[c] /\ IsFiniteSet(answered[c])
  BY <1>1 DEF Counting
<1>4. /\ answered' \in [Calls -> SUBSET relays]
      /\ \A d \in Calls : d # c => answered'[d] = answered[d]
      /\ answered'[c] = answered[c] \cup {u}
  BY <1>1, <1>3 DEF TypeOK
<1>5. IsFiniteSet(answered'[c]) /\ Cardinality(answered'[c]) = Cardinality(answered[c]) + 1
  BY <1>3, <1>4, FS_AddElement
<1>6. QED
  BY <1>2, <1>3, <1>4, <1>5

\* Each answer counts once, so the count stays the number of answers.
LEMMA AnswerCounted ==
  ASSUME ClientInv, NEW c \in Fetches, NEW u \in Urls, ReceiveEose(c, u),
         eoseCount'[c] = eoseCount[c] + 1,
         \A d \in Fetches : d # c => eoseCount'[d] = eoseCount[d],
         \A d \in Calls : asked'[d] \subseteq asked[d],
         u \notin asked'[c]
  PROVE  Counting'
<1>0. c \in Calls /\ Fetches \subseteq Calls /\ leavers' = leavers
  BY DEF Calls, ReceiveEose
<1>1. ASSUME NEW d \in Calls
      PROVE  asked'[d] \cap answered'[d] = {} /\ IsFiniteSet(answered'[d])
  <2>1. asked[d] \cap answered[d] = {} /\ IsFiniteSet(answered[d]) /\ asked'[d] \subseteq asked[d]
    BY DEF ClientInv, Counting
  <2>2. CASE d = c
    BY <1>0, <2>1, <2>2, AnswerCounts
  <2>3. CASE d # c
    <3>1. answered'[d] = answered[d]
      BY <1>0, <2>3, AnswerCounts
    <3>2. QED
      BY <2>1, <3>1
  <2>4. QED
    BY <2>2, <2>3
<1>2. ASSUME NEW d \in Fetches \ leavers
      PROVE  eoseCount'[d] = Cardinality(answered'[d])
  <2>1. eoseCount[d] = Cardinality(answered[d])
    BY DEF ClientInv, Counting
  <2>2. CASE d = c
    BY <1>0, <2>1, <2>2, AnswerCounts
  <2>3. CASE d # c
    <3>1. answered'[d] = answered[d]
      BY <1>0, <2>3, AnswerCounts
    <3>2. QED
      BY <2>1, <2>3, <3>1
  <2>4. QED
    BY <2>2, <2>3
<1>3. QED
  BY <1>0, <1>1, <1>2 DEF Counting

LEMMA AnswerKeeps ==
  ASSUME ClientInv, NEW c \in Calls, NEW u \in Urls, ReceiveEose(c, u) \/ ReceiveClosed(c, u)
  PROVE  ClientInv'
<1> USE DEF ClientInv, network, subs, local, history
<1>1. CASE ReceiveClosed(c, u)
  <2> USE <1>1 DEF ReceiveClosed
  <2>1. TypeOK'
    BY DEF TypeOK
  <2>2. Holding' /\ Beginning' /\ Counting'
    BY DEF Holding, Beginning, Counting, TypeOK
  <2>3. QED
    BY <2>1, <2>2
<1>2. CASE ReceiveEose(c, u)
  <2>0. /\ UNCHANGED <<network, aborted, leavers>>
        /\ asked \in [Calls -> SUBSET connected]
    BY <1>2 DEF ReceiveEose, TypeOK
  <2>1. CASE c \in Fetches /\ Enough(eoseCount[c] + 1)
    <3>1. /\ cleanup(c, "complete") /\ UNCHANGED network /\ aborted' \subseteq Signalled
          /\ eoseCount' = [eoseCount EXCEPT ![c] = @ + 1]
      BY <1>2, <2>1 DEF ReceiveEose, TypeOK
    <3>2. eoseCount' \in [Fetches -> Nat] /\ eoseCount'[c] = eoseCount[c] + 1
          /\ \A d \in Fetches : d # c => eoseCount'[d] = eoseCount[d]
      BY <2>1, <3>1 DEF TypeOK
    <3>3. TypeOK'
      BY <1>2, <2>0, <2>1, <3>1, <3>2, CleanupKeeps, AnswerCounts DEF TypeOK
    <3>4. Holding'
      BY <2>1, <3>1, CleanupKeeps
    <3>5. /\ \A d \in Calls : asked'[d] \subseteq asked[d]
          /\ \A d \in Calls : status'[d] = "idle" => status[d] = "idle" /\ d # c
          /\ asked'[c] = {}
      BY <2>1, <3>1, CleanupKeeps
    <3>6. Beginning'
      BY <1>2, <3>2, <3>5, AnswerCounts DEF Beginning
    <3>7. Counting'
      BY <1>2, <2>1, <3>2, <3>5, AnswerCounted
    <3>8. QED
      BY <3>3, <3>4, <3>6, <3>7
  <2>2. CASE c \in Fetches /\ ~Enough(eoseCount[c] + 1)
    <3>1. /\ asked' = [asked EXCEPT ![c] = @ \ {u}] /\ UNCHANGED <<timers, listening, status, held>>
          /\ eoseCount' = [eoseCount EXCEPT ![c] = @ + 1]
      BY <1>2, <2>2 DEF ReceiveEose
    <3>2. eoseCount' \in [Fetches -> Nat] /\ eoseCount'[c] = eoseCount[c] + 1
          /\ \A d \in Fetches : d # c => eoseCount'[d] = eoseCount[d]
      BY <2>2, <3>1 DEF TypeOK
    <3>3. /\ asked' \in [Calls -> SUBSET connected]
          /\ asked'[c] = asked[c] \ {u} /\ \A d \in Calls : d # c => asked'[d] = asked[d]
      BY <2>0, <3>1
    <3>4. TypeOK'
      BY <1>2, <2>0, <3>1, <3>2, <3>3, AnswerCounts DEF TypeOK
    <3>5. Holding' /\ Beginning'
      BY <1>2, <3>1, <3>2, AnswerCounts DEF Holding, Beginning
    <3>6. Counting'
      <4>1. (\A d \in Calls : asked'[d] \subseteq asked[d]) /\ u \notin asked'[c]
        BY <3>3
      <4>2. QED
        BY <1>2, <2>2, <3>2, <4>1, AnswerCounted
    <3>7. QED
      BY <3>4, <3>5, <3>6
  <2>3. CASE c \notin Fetches
    <3>1. /\ asked' = [asked EXCEPT ![c] = @ \ {u}]
          /\ UNCHANGED <<eoseCount, timers, listening, status, held>>
      BY <1>2, <2>3 DEF ReceiveEose
    <3>2. /\ asked' \in [Calls -> SUBSET connected]
          /\ asked'[c] = asked[c] \ {u} /\ \A d \in Calls : d # c => asked'[d] = asked[d]
      BY <2>0, <3>1
    <3>3. TypeOK'
      BY <1>2, <2>0, <3>1, <3>2, AnswerCounts DEF TypeOK
    <3>4. Holding' /\ Beginning'
      BY <1>2, <2>3, <3>1, AnswerCounts DEF Holding, Beginning
    <3>5. Counting'
      BY <1>2, <2>0, <2>3, <3>1, <3>2, AnswerCounts DEF Counting, Calls
    <3>6. QED
      BY <3>3, <3>4, <3>5
  <2>4. QED
    BY <2>1, <2>2, <2>3
<1>3. QED
  BY <1>1, <1>2

\* The invariant of the Nostr class holds for every set of relays, fetches and
\* subscriptions, however the relays come and go.
THEOREM ClientInvariant == Spec => []ClientInv
<1>1. ClientInv /\ [Next]_vars => ClientInv'
  <2>1. ClientInv /\ UNCHANGED vars => ClientInv'
    BY DEF ClientInv, TypeOK, Holding, Beginning, Counting, vars, network, subs, local, history
  <2>2. QED
    BY <2>1, NetworkKeeps, CallKeeps, AnswerKeeps DEF Next
<1>2. QED
  BY <1>1, ClientInitially, PTL DEF Spec

\* A call that is over has left nothing behind (cleanup in nostr.ts), however many of
\* EOSE, timeout, abort, removal of relays and unsubscribeAll came together.
THEOREM NothingStaysBehind == Spec => []NothingLeftBehind
<1>1. ClientInv => NothingLeftBehind
  BY DEF ClientInv, Holding, NothingLeftBehind
<1>2. QED
  BY <1>1, ClientInvariant, PTL

\* A fetch that its relays end has an answer of every relay that still holds its
\* subscription, unless an answered relay was removed meanwhile.
THEOREM FetchAlwaysComplete == Spec => FetchIsComplete
<1> DEFINE Complete == \A c \in Fetches \ leavers :
             status[c] = "active" /\ status'[c] = "complete" => held[c] \subseteq answered'[c]
<1>1. ClientInv /\ [Next]_vars => Complete
  <2> SUFFICES ASSUME ClientInv, [Next]_vars, NEW c \in Fetches \ leavers,
                      status[c] = "active", status'[c] = "complete"
               PROVE  held[c] \subseteq answered'[c]
    OBVIOUS
  <2>0. c \in Calls /\ status \in [Calls -> {"idle", "active", "refused", "complete", "timedOut",
                                             "aborted", "ended"}]
    BY DEF Calls, ClientInv, TypeOK
  <2>1. PICK u \in Urls : ReceiveEose(c, u) /\ Enough(eoseCount[c] + 1)
    <3>1. status'[c] # status[c]
      OBVIOUS
    <3>2. ~UNCHANGED status
      BY <3>1
    <3>3. ASSUME NEW d \in Calls, NEW how, status' = [status EXCEPT ![d] = how]
          PROVE  d = c /\ how = "complete"
      BY <2>0, <3>1, <3>3
    <3>4. ~ \E d \in Calls : Refuse(d)
      BY <3>3 DEF Refuse
    <3>5. ~ \E d \in Subscribes : subscribeDetailed(d) \/ Unsubscribe(d)
      BY <3>3 DEF subscribeDetailed, Unsubscribe, Calls
    <3>6. ~ \E d \in Fetches : fetchManyDetailed(d) \/ FetchTimeout(d) \/ Abort(d)
      BY <3>2, <3>3 DEF fetchManyDetailed, FetchTimeout, Abort, cleanup, Calls
    <3>7. ~ \E d \in Fetches : FetchFromNobody(d)
      BY <3>3 DEF FetchFromNobody, Calls
    <3>8. ~ (disconnectFromRelays \/ unsubscribeAll)
      BY <3>2 DEF disconnectFromRelays, unsubscribeAll
    <3>9. ~ \E u \in Urls : addRelay(u) \/ removeRelay(u) \/ RelayConnected(u) \/ ConnectionLost(u)
      BY <3>2 DEF addRelay, removeRelay, RelayConnected, ConnectionLost
    <3>10. ~ \E d \in Calls, u \in Urls : ReceiveClosed(d, u)
      BY <3>2 DEF ReceiveClosed
    <3>11. ~UNCHANGED vars
      BY <3>2 DEF vars
    <3>12. PICK d \in Calls, u \in Urls : ReceiveEose(d, u)
      BY <3>4, <3>5, <3>6, <3>7, <3>8, <3>9, <3>10, <3>11 DEF Next
    <3>13. d \in Fetches /\ Enough(eoseCount[d] + 1)
      BY <3>2, <3>12 DEF ReceiveEose, local
    <3>14. status' = [status EXCEPT ![d] = "complete"]
      BY <3>12, <3>13 DEF ReceiveEose, cleanup
    <3>15. QED
      BY <3>3, <3>12, <3>13, <3>14
  <2>2. /\ answered'[c] \subseteq relays /\ Cardinality(answered'[c]) = Cardinality(answered[c]) + 1
        /\ held[c] \subseteq relays /\ relays \subseteq Urls
    BY <2>0, <2>1, AnswerCounts DEF ClientInv, TypeOK
  <2>3. Cardinality(answered'[c]) >= Cardinality(relays)
    BY <2>1, <2>2 DEF ClientInv, Counting, Enough
  <2>4. IsFiniteSet(relays)
    BY <2>2, ClientAssumption, FS_Subset
  <2>5. answered'[c] = relays
    <3>1. Cardinality(answered'[c]) <= Cardinality(relays) /\ Cardinality(relays) \in Nat
          /\ Cardinality(answered'[c]) \in Nat
          /\ (Cardinality(answered'[c]) = Cardinality(relays) => answered'[c] = relays)
      BY <2>2, <2>4, FS_Subset, FS_CardinalityType
    <3>2. QED
      BY <2>3, <3>1
  <2>6. QED
    BY <2>2, <2>5
<1>2. QED
  BY <1>1, ClientInvariant, PTL DEF Spec, FetchIsComplete
===============================================================================
