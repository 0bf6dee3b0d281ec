---------------------------- MODULE RelayPoolProofs ----------------------------
(***************************************************************************)
(* Proofs about RelayPool for any set of relays and any calls.             *)
(*                                                                         *)
(* The two safety invariants hold under what the run assumes of the        *)
(* relays, each under its own half, which the theorems name: that a relay  *)
(* sends one EOSE per subscription (EoseIsComplete), and that no EOSE      *)
(* comes before subscribe() has returned (OverIsReleased).  The inductive  *)
(* invariant has them as implications, so that its other parts hold        *)
(* without.                                                                *)
(***************************************************************************)
EXTENDS RelayPool, FiniteSetTheorems, TLAPS

Answered(c) == {u \in Urls : eoseFrom[c][u] > 0}

\* Before its subscriptions are made a call has done nothing.
Unmade ==
  \A c \in Calls : phase[c] \in {"idle", "connecting"} =>
    /\ held[c] = {} /\ requested[c] = {} /\ eoseCount[c] = 0
    /\ c \notin eoseSent \cup isClosed \cup isResolved \cup timer

\* A call that is open releases, when it is closed, all that relays hold of it.
Holding ==
  \A c \in Calls :
    /\ c \in isClosed => held[c] = {}
    /\ c \notin isClosed => held[c] \subseteq subscriptions[c]
    /\ targets[c] \subseteq Urls /\ subscriptions[c] \subseteq Urls

\* subscribe() remembers that it called onEOSE.
Told == \A c \in Calls : onEoseCalls[c] = IF c \in eoseSent THEN 1 ELSE 0

\* Each EOSE that is counted is of another relay.
Counting ==
  MaxEose <= 1 =>
    \A c \in Calls :
      /\ eoseCount[c] <= Cardinality(Answered(c))
      /\ c \in eoseSent => Cardinality(Answered(c)) >= successfulRelayCount[c]

\* A query has its subscription when it can resolve with relays holding one.
Resolving ==
  /\ \A c \in sub : phase[c] = "returned"
  /\ \A c \in Queries : phase[c] = "returned" => c \in sub \cup isResolved
  /\ \A c \in timer : phase[c] = "returned"
  /\ ~EarlyEose => \A c \in isResolved : held[c] = {}

PoolInv ==
  /\ TypeOK
  /\ Unmade
  /\ Holding
  /\ Told
  /\ Counting
  /\ Resolving

-----------------------------------------------------------------------------
\* Relays that come and go only take away.
LEMMA RelaysOnlyTake ==
  ASSUME PoolInv,
         relays' \subseteq Urls \ BadUrls, connected' \subseteq Urls,
         {awaited', removed', held', requested'} \subseteq [Calls -> SUBSET Urls],
         \A c \in Calls : held'[c] \subseteq held[c] /\ requested'[c] \subseteq requested[c],
         UNCHANGED <<phase, targets, subscriptions, merged, query, eoseFrom>>,
         tailed' \subseteq Queries
  PROVE  PoolInv'
<1> USE DEF PoolInv, merged, query
<1>1. TypeOK'
  BY DEF TypeOK
<1>2. Unmade'
  BY DEF Unmade
<1>3. Holding'
  BY DEF Holding
<1>4. Told'
  BY DEF Told
<1>5. Counting'
  BY DEF Counting, Answered
<1>6. Resolving'
  BY PoolAssumption DEF Resolving, TypeOK
<1>7. QED
  BY <1>1, <1>2, <1>3, <1>4, <1>5, <1>6

\* disconnect() of one relay.
LEMMA DisconnectTakes ==
  ASSUME PoolInv, NEW u \in Urls, DisconnectRelay(u),
         relays' \subseteq relays, removed' \in [Calls -> SUBSET Urls]
  PROVE  PoolInv'
<1>1. PICK hasSocket \in BOOLEAN :
        /\ connected' = connected \ {u}
        /\ awaited' = [c \in Calls |-> awaited[c] \ {u}]
        /\ held' = [c \in Calls |-> IF hasSocket /\ u \notin removed[c] THEN held[c] \ {u}
                                   ELSE held[c]]
        /\ requested' = [c \in Calls |-> requested[c] \ {u}]
        /\ UNCHANGED <<phase, targets, subscriptions, merged, query, eoseFrom, tailed>>
  BY DEF DisconnectRelay
<1>2. {awaited, held, requested} \subseteq [Calls -> SUBSET Urls]
  BY DEF PoolInv, TypeOK
<1>3. \A c \in Calls : held'[c] \subseteq held[c] /\ requested'[c] \subseteq requested[c]
  BY <1>1
<1>4. \A c \in Calls : awaited'[c] \subseteq Urls /\ held'[c] \subseteq Urls /\ requested'[c] \subseteq Urls
  BY <1>1, <1>2
<1>5. awaited' \in [Calls -> SUBSET Urls] /\ held' \in [Calls -> SUBSET Urls]
      /\ requested' \in [Calls -> SUBSET Urls]
  BY <1>1, <1>2, <1>4
<1>6. relays' \subseteq Urls \ BadUrls /\ connected' \subseteq Urls /\ tailed' \subseteq Queries
  BY <1>1 DEF PoolInv, TypeOK
<1>7. QED
  BY <1>1, <1>3, <1>5, <1>6, RelaysOnlyTake

-----------------------------------------------------------------------------
\* A query resolves: its subscription, if it has one, is released.  The other
\* calls keep what they have.
LEMMA ResolvingReleases ==
  ASSUME PoolInv, NEW c \in Queries, safeResolve(c)
  PROVE  /\ isResolved' = isResolved \cup {c} /\ timer' = timer \ {c} /\ sub' = sub \ {c}
         /\ isClosed \subseteq isClosed' /\ isClosed' \subseteq isClosed \cup {c}
         /\ held' \in [Calls -> SUBSET Urls] /\ subscriptions' \in [Calls -> SUBSET Urls]
         /\ \A d \in Calls : held'[d] \subseteq held[d] /\ subscriptions'[d] \subseteq subscriptions[d]
         /\ \A d \in Calls \ {c} : subscriptions'[d] = subscriptions[d]
         /\ c \in sub => held'[c] = {}
         /\ \A d \in Calls : d \in isClosed' => held'[d] = {}
         /\ \A d \in Calls : d \notin isClosed' => held'[d] \subseteq subscriptions'[d]
         /\ isClosed' \ isClosed \subseteq sub
<1> USE DEF PoolInv
<1>1. c \in Calls /\ {held, subscriptions} \subseteq [Calls -> SUBSET Urls]
  BY PoolAssumption DEF TypeOK
<1>2. CASE c \in sub \ isClosed
  <2>1. /\ isClosed' = isClosed \cup {c}
        /\ held' = [held EXCEPT ![c] = @ \ subscriptions[c]]
        /\ subscriptions' = [subscriptions EXCEPT ![c] = {}]
    BY <1>2 DEF safeResolve, immediateClose
  <2>2. held[c] \subseteq subscriptions[c]
    BY <1>1, <1>2 DEF Holding
  <2>3. held'[c] = {}
    BY <1>1, <2>1, <2>2
  <2>4. held' \in [Calls -> SUBSET Urls] /\ subscriptions' \in [Calls -> SUBSET Urls]
    BY <1>1, <2>1
  <2>5. QED
    BY <1>1, <1>2, <2>1, <2>3, <2>4 DEF safeResolve, Holding
<1>3. CASE c \notin sub \ isClosed
  BY <1>1, <1>3 DEF safeResolve, Holding
<1>4. QED
  BY <1>2, <1>3

\* What a step may do to a call c when its onEOSE may be called: the other calls
\* keep everything, and c resolves only with its subscription released.
LEMMA EoseReleases ==
  ASSUME PoolInv, NEW c \in Calls, onEOSE(c), c \notin eoseSent
  PROVE  /\ eoseSent' = eoseSent \cup {c}
         /\ onEoseCalls' \in [Calls -> 0 .. 1] /\ Told'
         /\ isResolved \subseteq isResolved' /\ isResolved' \subseteq isResolved \cup ({c} \cap Queries)
         /\ timer' \subseteq timer /\ sub' \subseteq sub /\ sub \ {c} \subseteq sub'
         /\ c \in Queries => c \in isResolved'
         /\ isClosed \subseteq isClosed' /\ isClosed' \subseteq isClosed \cup {c}
         /\ held' \in [Calls -> SUBSET Urls] /\ subscriptions' \in [Calls -> SUBSET Urls]
         /\ \A d \in Calls : held'[d] \subseteq held[d] /\ subscriptions'[d] \subseteq subscriptions[d]
         /\ \A d \in Calls : d \in isClosed' => held'[d] = {}
         /\ \A d \in Calls : d \notin isClosed' => held'[d] \subseteq subscriptions'[d]
         /\ c \in sub \cap (Queries \ isResolved) => held'[c] = {}
<1> USE DEF PoolInv
<1>1. eoseSent' = eoseSent \cup {c} /\ onEoseCalls' = [onEoseCalls EXCEPT ![c] = @ + 1]
  BY DEF onEOSE
<1>2. onEoseCalls[c] = 0 /\ onEoseCalls \in [Calls -> 0 .. 1]
  BY DEF Told, TypeOK
<1>3. onEoseCalls' \in [Calls -> 0 .. 1] /\ Told'
  BY <1>1, <1>2 DEF Told
<1>4. CASE c \in Queries \ isResolved
  <2>1. safeResolve(c)
    BY <1>4 DEF onEOSE
  <2>2. QED
    BY <1>1, <1>3, <1>4, <2>1, ResolvingReleases
<1>5. CASE c \notin Queries \ isResolved
  <2>1. UNCHANGED <<isClosed, held, subscriptions, query>>
    BY <1>5 DEF onEOSE
  <2>2. QED
    BY <1>1, <1>3, <1>5, <2>1 DEF query, TypeOK, Holding
<1>6. QED
  BY <1>4, <1>5

-----------------------------------------------------------------------------
\* The steps of subscribe().

LEMMA SubscribeKeeps ==
  ASSUME PoolInv, NEW c \in Calls, NEW urls \in SUBSET Urls, Subscribe(c, urls)
  PROVE  PoolInv'
<1> USE DEF PoolInv, Subscribe, merged, query
<1>1. phase' \in [Calls -> {"idle", "connecting", "returning", "returned"}]
      /\ {targets', awaited'} \subseteq [Calls -> SUBSET Urls]
  BY DEF TypeOK
<1>2. TypeOK'
  BY <1>1 DEF TypeOK
<1>3. \A d \in Calls : phase'[d] = IF d = c THEN "connecting" ELSE phase[d]
  BY DEF TypeOK
<1>4. \A d \in Calls : targets'[d] \subseteq Urls
  BY <1>1
<1>5. Unmade' /\ Holding' /\ Told'
  BY <1>3, <1>4 DEF Unmade, Holding, Told
<1>6. Counting'
  BY DEF Counting, Answered
<1>7. Resolving'
  BY <1>3, PoolAssumption DEF Resolving, TypeOK
<1>8. QED
  BY <1>2, <1>5, <1>6, <1>7

\* EnsureRelay waits only for connect().
LEMMA EnsureRelayKeeps ==
  ASSUME PoolInv, NEW c \in Calls, NEW u \in Urls, NEW ok \in BOOLEAN, EnsureRelay(c, u, ok)
  PROVE  PoolInv'
<1>1. awaited' \in [Calls -> SUBSET Urls] /\ connected' \subseteq Urls
  BY DEF EnsureRelay, PoolInv, TypeOK
<1>2. QED
  BY <1>1, RelaysOnlyTake DEF EnsureRelay, PoolInv, TypeOK

\* All connections have settled: the subscriptions are made, or onEOSE is called.
LEMMA SubscribeAllKeeps ==
  ASSUME PoolInv, NEW c \in Calls, NEW valid \in BOOLEAN, SubscribeAll(c, valid)
  PROVE  PoolInv'
<1> DEFINE ready == IF valid THEN targets[c] ELSE {}
<1> USE DEF PoolInv
<1>1. /\ phase[c] = "connecting"
      /\ phase' = [phase EXCEPT ![c] = "returning"]
      /\ successfulRelayCount' = [successfulRelayCount EXCEPT ![c] = Cardinality(ready)]
      /\ UNCHANGED <<relays, connected, targets, awaited, removed, eoseCount, eoseFrom, tailed>>
  BY DEF SubscribeAll, connects
<1>2. /\ held[c] = {} /\ requested[c] = {} /\ eoseCount[c] = 0
      /\ c \notin eoseSent \cup isClosed \cup isResolved \cup timer
  BY <1>1 DEF Unmade
<1>3. ready \in SUBSET Urls /\ IsFiniteSet(ready) /\ Cardinality(ready) \in Nat
  <2>1. ready \subseteq Urls
    BY DEF Holding
  <2>2. QED
    BY <2>1, FS_Subset, FS_CardinalityType, PoolAssumption
<1>4. /\ phase' \in [Calls -> {"idle", "connecting", "returning", "returned"}]
      /\ successfulRelayCount' \in [Calls -> Nat]
      /\ \A d \in Calls : phase'[d] = IF d = c THEN "returning" ELSE phase[d]
      /\ \A d \in Calls \ {c} : successfulRelayCount'[d] = successfulRelayCount[d]
  BY <1>1, <1>3 DEF TypeOK
<1>5. \A d \in Calls : Answered(d)' = Answered(d) /\ Cardinality(Answered(d)) \in Nat
  <2>1. \A d \in Calls : IsFiniteSet(Answered(d))
    BY FS_Subset, PoolAssumption DEF Answered
  <2>2. QED
    BY <1>1, <2>1, FS_CardinalityType DEF Answered
<1>6. CASE ready = {}
  <2>1. onEOSE(c) /\ UNCHANGED requested
    BY <1>6 DEF SubscribeAll
  <2>2. /\ eoseSent' = eoseSent \cup {c}
        /\ onEoseCalls' \in [Calls -> 0 .. 1] /\ Told'
        /\ isResolved \subseteq isResolved' /\ isResolved' \subseteq isResolved \cup ({c} \cap Queries)
        /\ timer' \subseteq timer /\ sub' \subseteq sub /\ sub \ {c} \subseteq sub'
        /\ isClosed \subseteq isClosed' /\ isClosed' \subseteq isClosed \cup {c}
        /\ held' \in [Calls -> SUBSET Urls] /\ subscriptions' \in [Calls -> SUBSET Urls]
        /\ \A d \in Calls : held'[d] \subseteq held[d] /\ subscriptions'[d] \subseteq subscriptions[d]
        /\ \A d \in Calls : d \in isClosed' => held'[d] = {}
        /\ \A d \in Calls : d \notin isClosed' => held'[d] \subseteq subscriptions'[d]
    BY <1>2, <2>1, EoseReleases
  <2>3. TypeOK'
    BY <1>1, <1>4, <2>1, <2>2 DEF TypeOK
  <2>4. Unmade'
    BY <1>1, <1>4, <2>1, <2>2 DEF Unmade
  <2>5. Holding'
    BY <1>1, <2>2 DEF Holding
  <2>6. Counting'
    <3>1. successfulRelayCount'[c] = 0
      BY <1>1, <1>6, FS_EmptySet DEF TypeOK
    <3>2. QED
      BY <1>1, <1>4, <1>5, <2>2, <3>1 DEF Counting
  <2>7. Resolving'
    BY <1>1, <1>2, <1>4, <2>2, PoolAssumption DEF Resolving, TypeOK
  <2>8. QED
    BY <2>2, <2>3, <2>4, <2>5, <2>6, <2>7
<1>7. CASE ready # {}
  <2>1. /\ subscriptions' = [subscriptions EXCEPT ![c] = ready]
        /\ held' = [held EXCEPT ![c] = ready]
        /\ requested' = [requested EXCEPT ![c] = (ready \cap connected) \ removed[c]]
        /\ UNCHANGED <<isClosed, eoseSent, onEoseCalls, query>>
    BY <1>7 DEF SubscribeAll
  <2>2. /\ {subscriptions', held', requested'} \subseteq [Calls -> SUBSET Urls]
        /\ held'[c] = ready /\ subscriptions'[c] = ready
        /\ \A d \in Calls \ {c} : /\ held'[d] = held[d] /\ subscriptions'[d] = subscriptions[d]
                                   /\ requested'[d] = requested[d]
    BY <1>3, <2>1 DEF TypeOK
  <2> HIDE DEF ready
  <2>3. TypeOK'
    BY <1>1, <1>4, <2>1, <2>2 DEF TypeOK, query
  <2>4. Unmade'
    BY <1>1, <1>4, <2>1, <2>2 DEF Unmade, query
  <2>5. Holding' /\ Told'
    BY <1>1, <1>2, <1>3, <2>1, <2>2 DEF Holding, Told
  <2>6. Counting'
    BY <1>1, <1>2, <1>4, <1>5, <2>1 DEF Counting
  <2>7. Resolving'
    BY <1>1, <1>2, <1>4, <2>1, <2>2, PoolAssumption DEF Resolving, TypeOK, query
  <2>8. QED
    BY <2>3, <2>4, <2>5, <2>6, <2>7
<1>8. QED
  BY <1>6, <1>7

\* The caller has its subscription; a timeout starts only then.
LEMMA SubscribeReturnsKeeps ==
  ASSUME PoolInv, NEW c \in Calls, SubscribeReturns(c)
  PROVE  PoolInv'
<1> USE DEF PoolInv, merged
<1>1. /\ phase[c] = "returning" /\ phase' = [phase EXCEPT ![c] = "returned"]
      /\ sub' = IF c \in Queries THEN sub \cup {c} ELSE sub
      /\ timer' = IF c \in Timeouts THEN timer \cup {c} ELSE timer
      /\ UNCHANGED <<relays, connected, connects, subscriptions, held, requested, merged,
                     isResolved, eoseFrom, tailed>>
  BY DEF SubscribeReturns
<1>2. \A d \in Calls : phase'[d] = IF d = c THEN "returned" ELSE phase[d]
  BY <1>1 DEF TypeOK
<1>3. TypeOK'
  BY <1>1, PoolAssumption DEF TypeOK, connects
<1>4. Unmade' /\ Holding' /\ Told'
  BY <1>1, <1>2 DEF Unmade, Holding, Told, connects
<1>5. Counting'
  BY <1>1 DEF Counting, Answered
<1>6. Resolving'
  BY <1>1, <1>2, PoolAssumption DEF Resolving, TypeOK
<1>7. QED
  BY <1>3, <1>4, <1>5, <1>6

-----------------------------------------------------------------------------
\* The end of a call.

LEMMA CloseSubscriptionKeeps ==
  ASSUME PoolInv, NEW c \in Calls, CloseSubscription(c)
  PROVE  PoolInv'
<1> USE DEF PoolInv, query
<1>1. /\ phase[c] = "returned" /\ c \notin isClosed
      /\ isClosed' = isClosed \cup {c}
      /\ held' = [held EXCEPT ![c] = @ \ subscriptions[c]]
      /\ subscriptions' = [subscriptions EXCEPT ![c] = {}]
      /\ UNCHANGED <<relays, connected, phase, targets, awaited, removed, requested,
                     successfulRelayCount, eoseCount, eoseSent, onEoseCalls, query, eoseFrom, tailed>>
  BY DEF CloseSubscription, immediateClose, connects
<1>2. /\ {held', subscriptions'} \subseteq [Calls -> SUBSET Urls]
      /\ held'[c] = {}
      /\ \A d \in Calls \ {c} : held'[d] = held[d] /\ subscriptions'[d] = subscriptions[d]
      /\ \A d \in Calls : held'[d] \subseteq held[d]
  BY <1>1 DEF Holding, TypeOK
<1>3. TypeOK'
  BY <1>1, <1>2 DEF TypeOK
<1>4. Unmade' /\ Holding' /\ Told'
  BY <1>1, <1>2 DEF Unmade, Holding, Told, TypeOK
<1>5. Counting'
  BY <1>1 DEF Counting, Answered
<1>6. Resolving'
  BY <1>1, <1>2, PoolAssumption DEF Resolving, TypeOK
<1>7. QED
  BY <1>3, <1>4, <1>5, <1>6

\* A timeout resolves a query that has its subscription, and so can release it.
LEMMA QueryTimeoutKeeps ==
  ASSUME PoolInv, NEW c \in Calls, QueryTimeout(c)
  PROVE  PoolInv'
<1> USE DEF PoolInv
<1>1. /\ c \in timer /\ c \in Queries /\ phase[c] = "returned"
      /\ UNCHANGED <<relays, connected, phase, targets, awaited, removed, requested,
                     successfulRelayCount, eoseCount, eoseSent, onEoseCalls, eoseFrom, tailed>>
  BY DEF QueryTimeout, connects, TypeOK, Resolving
<1>2. CASE c \in isResolved
  <2>1. timer' = timer \ {c} /\ UNCHANGED <<sub, isResolved, isClosed, held, subscriptions>>
    BY <1>2 DEF QueryTimeout
  <2>2. TypeOK' /\ Unmade' /\ Holding' /\ Told'
    BY <1>1, <2>1 DEF TypeOK, Unmade, Holding, Told
  <2>3. Counting' /\ Resolving'
    BY <1>1, <2>1 DEF Counting, Answered, Resolving
  <2>4. QED
    BY <2>2, <2>3
<1>3. CASE c \notin isResolved
  <2>1. safeResolve(c) /\ c \in sub
    BY <1>1, <1>3 DEF QueryTimeout, Resolving
  <2>2. /\ isResolved' = isResolved \cup {c} /\ timer' = timer \ {c} /\ sub' = sub \ {c}
        /\ isClosed' \subseteq isClosed \cup {c}
        /\ held' \in [Calls -> SUBSET Urls] /\ subscriptions' \in [Calls -> SUBSET Urls]
        /\ \A d \in Calls : held'[d] \subseteq held[d] /\ subscriptions'[d] \subseteq subscriptions[d]
        /\ held'[c] = {}
        /\ \A d \in Calls : d \in isClosed' => held'[d] = {}
        /\ \A d \in Calls : d \notin isClosed' => held'[d] \subseteq subscriptions'[d]
    BY <1>1, <2>1, ResolvingReleases
  <2>3. TypeOK'
    BY <1>1, <2>2, PoolAssumption DEF TypeOK
  <2>4. Unmade' /\ Holding' /\ Told'
    BY <1>1, <2>2 DEF Unmade, Holding, Told
  <2>5. Counting'
    BY <1>1 DEF Counting, Answered
  <2>6. Resolving'
    BY <1>1, <2>2, PoolAssumption DEF Resolving, TypeOK
  <2>7. QED
    BY <2>3, <2>4, <2>5, <2>6
<1>4. QED
  BY <1>2, <1>3

-----------------------------------------------------------------------------
\* An EOSE that is counted is, if relays send one each, of a relay that had not
\* answered: the relays that answered keep up with the counter.
LEMMA EoseCounts ==
  ASSUME PoolInv, MaxEose <= 1, NEW c \in Calls, NEW u \in Urls, ReceiveEose(c, u)
  PROVE  /\ Cardinality(Answered(c)') = Cardinality(Answered(c)) + 1
         /\ \A d \in Calls : Cardinality(Answered(d)) \in Nat
         /\ \A d \in Calls \ {c} : Answered(d)' = Answered(d)
<1>1. /\ eoseFrom[c][u] < MaxEose
      /\ eoseFrom' = [eoseFrom EXCEPT ![c][u] = @ + 1]
      /\ eoseFrom \in [Calls -> [Urls -> 0 .. MaxEose]]
  BY DEF ReceiveEose, PoolInv, TypeOK
<1>2. eoseFrom[c][u] = 0
  <2>1. eoseFrom[c] \in [Urls -> 0 .. MaxEose] /\ eoseFrom[c][u] \in 0 .. MaxEose
    BY <1>1
  <2>2. MaxEose \in Nat /\ MaxEose <= 1 /\ eoseFrom[c][u] < MaxEose
    BY <1>1, PoolAssumption
  <2>3. QED
    BY <2>1, <2>2
<1>3. Answered(c)' = Answered(c) \cup {u} /\ u \notin Answered(c)
  BY <1>1, <1>2 DEF Answered
<1>4. \A d \in Calls : IsFiniteSet(Answered(d))
  BY FS_Subset, PoolAssumption DEF Answered
<1>5. Cardinality(Answered(c) \cup {u}) = Cardinality(Answered(c)) + 1
  BY <1>3, <1>4, FS_AddElement
<1>6. QED
  BY <1>1, <1>3, <1>4, <1>5, FS_CardinalityType DEF Answered

\* An EOSE is counted until one for each relay has been; that one calls onEOSE.
LEMMA ReceiveEoseKeeps ==
  ASSUME PoolInv, NEW c \in Calls, NEW u \in Urls, ReceiveEose(c, u)
  PROVE  PoolInv'
<1> USE DEF PoolInv
<1>1. /\ u \in held[c] /\ (phase[c] = "returned" \/ EarlyEose)
      /\ phase[c] \notin {"idle", "connecting"}
      /\ eoseFrom[c][u] < MaxEose
      /\ eoseFrom' = [eoseFrom EXCEPT ![c][u] = @ + 1]
      /\ UNCHANGED <<relays, connected, phase, targets, awaited, removed, requested,
                     successfulRelayCount, tailed>>
  BY DEF ReceiveEose, Delivers, Unmade, connects
<1>2. eoseFrom' \in [Calls -> [Urls -> 0 .. MaxEose]]
  BY <1>1, PoolAssumption DEF TypeOK
<1>3. MaxEose <= 1 =>
        /\ Cardinality(Answered(c)') = Cardinality(Answered(c)) + 1
        /\ \A d \in Calls : Cardinality(Answered(d)) \in Nat
        /\ \A d \in Calls \ {c} : Answered(d)' = Answered(d)
  BY EoseCounts
<1>4. CASE c \in isClosed \cup eoseSent
  <2>1. UNCHANGED <<eoseCount, eoseSent, onEoseCalls, isClosed, held, subscriptions, query>>
    BY <1>4 DEF ReceiveEose
  <2>2. TypeOK' /\ Unmade' /\ Holding' /\ Told' /\ Resolving'
    BY <1>1, <1>2, <2>1 DEF TypeOK, Unmade, Holding, Told, Resolving, query
  <2>3. Counting'
    BY <1>1, <1>3, <2>1 DEF Counting, TypeOK
  <2>4. QED
    BY <2>2, <2>3
<1>5. CASE c \notin isClosed \cup eoseSent
  <2>1. eoseCount' = [eoseCount EXCEPT ![c] = @ + 1] /\ eoseCount' \in [Calls -> Nat]
    BY <1>5 DEF ReceiveEose, TypeOK
  <2>2. /\ MaxEose <= 1 => \A d \in Calls : eoseCount'[d] <= Cardinality(Answered(d)')
        /\ \A d \in Calls \ {c} : eoseCount'[d] = eoseCount[d]
    BY <1>3, <2>1 DEF Counting, TypeOK
  <2>3. CASE ~EoseComplete(c)
    <3>1. UNCHANGED <<eoseSent, onEoseCalls, isClosed, held, subscriptions, query>>
      BY <1>5, <2>3 DEF ReceiveEose
    <3>2. TypeOK' /\ Unmade' /\ Holding' /\ Told' /\ Resolving'
      BY <1>1, <1>2, <2>1, <2>2, <3>1 DEF TypeOK, Unmade, Holding, Told, Resolving, query
    <3>3. Counting'
      BY <1>1, <1>3, <1>5, <2>2, <3>1 DEF Counting, TypeOK
    <3>4. QED
      BY <3>2, <3>3
  <2>4. CASE EoseComplete(c)
    <3>1. onEOSE(c) /\ eoseCount'[c] >= successfulRelayCount[c]
      BY <1>5, <2>4 DEF ReceiveEose, EoseComplete
    <3>2. /\ eoseSent' = eoseSent \cup {c}
          /\ onEoseCalls' \in [Calls -> 0 .. 1] /\ Told'
          /\ isResolved \subseteq isResolved' /\ isResolved' \subseteq isResolved \cup ({c} \cap Queries)
          /\ timer' \subseteq timer /\ sub' \subseteq sub /\ sub \ {c} \subseteq sub'
          /\ c \in Queries => c \in isResolved'
          /\ isClosed' \subseteq isClosed \cup {c}
          /\ held' \in [Calls -> SUBSET Urls] /\ subscriptions' \in [Calls -> SUBSET Urls]
          /\ \A d \in Calls : held'[d] \subseteq held[d] /\ subscriptions'[d] \subseteq subscriptions[d]
          /\ \A d \in Calls : d \in isClosed' => held'[d] = {}
          /\ \A d \in Calls : d \notin isClosed' => held'[d] \subseteq subscriptions'[d]
          /\ c \in sub \cap (Queries \ isResolved) => held'[c] = {}
      BY <1>5, <3>1, EoseReleases
    <3>3. TypeOK'
      <4>1. /\ isResolved' \subseteq Queries /\ timer' \subseteq Queries /\ sub' \subseteq Queries
            /\ eoseSent' \subseteq Calls /\ isClosed' \subseteq Calls
        BY <3>2 DEF TypeOK
      <4>2. /\ UNCHANGED <<relays, connected, phase, targets, awaited, removed, requested,
                           successfulRelayCount, tailed>>
            /\ held' \in [Calls -> SUBSET Urls] /\ subscriptions' \in [Calls -> SUBSET Urls]
            /\ onEoseCalls' \in [Calls -> 0 .. 1] /\ eoseCount' \in [Calls -> Nat]
        BY <1>1, <2>1, <3>2
      <4>3. QED
        BY <1>2, <4>1, <4>2 DEF TypeOK
    <3>4. Unmade'
      BY <1>1, <2>2, <3>2 DEF Unmade
    <3>5. Holding'
      BY <1>1, <3>2 DEF Holding
    <3>6. Counting'
      <4> SUFFICES ASSUME MaxEose <= 1, NEW d \in Calls
                   PROVE  /\ eoseCount'[d] <= Cardinality(Answered(d)')
                          /\ d \in eoseSent' => Cardinality(Answered(d)') >= successfulRelayCount'[d]
        BY DEF Counting
      <4>1. successfulRelayCount[d] \in Nat /\ eoseCount'[d] \in Nat
            /\ Cardinality(Answered(d)') \in Nat /\ eoseCount'[d] <= Cardinality(Answered(d)')
        BY <1>3, <2>1, <2>2 DEF TypeOK
      <4>2. CASE d = c
        BY <1>1, <3>1, <4>1, <4>2
      <4>3. CASE d # c
        BY <1>1, <1>3, <3>2, <4>1, <4>3 DEF Counting
      <4>4. QED
        BY <4>2, <4>3
    <3>7. Resolving'
      BY <1>1, <3>2, PoolAssumption DEF Resolving, TypeOK
    <3>8. QED
      BY <3>2, <3>3, <3>4, <3>5, <3>6, <3>7
  <2>5. QED
    BY <2>3, <2>4
<1>6. QED
  BY <1>4, <1>5

\* An event changes at most what is remembered of the query's result.
LEMMA ReceiveEventKeeps ==
  ASSUME PoolInv, NEW c \in Calls, NEW u \in Urls, ReceiveEvent(c, u)
  PROVE  PoolInv'
<1>1. tailed' \subseteq Queries
  BY DEF ReceiveEvent, PoolInv, TypeOK
<1>2. /\ UNCHANGED <<relays, connected, phase, targets, awaited, removed, subscriptions, held, requested>>
      /\ UNCHANGED <<merged, query, eoseFrom>>
  BY DEF ReceiveEvent, connects
<1>3. QED
  BY <1>1, <1>2, RelaysOnlyTake DEF PoolInv, TypeOK

-----------------------------------------------------------------------------
LEMMA PoolInitially == Init => PoolInv
<1> SUFFICES ASSUME Init PROVE PoolInv
  OBVIOUS
<1>1. TypeOK
  BY PoolAssumption DEF Init, TypeOK
<1>2. Unmade /\ Holding /\ Told
  BY DEF Init, Unmade, Holding, Told
<1>3. Counting
  <2>1. \A c \in Calls : Answered(c) = {}
    BY DEF Init, Answered
  <2>2. \A c \in Calls : Cardinality(Answered(c)) = 0
    BY <2>1, FS_EmptySet
  <2>3. QED
    BY <2>2 DEF Init, Counting
<1>4. Resolving
  BY PoolAssumption DEF Init, Resolving
<1>5. QED
  BY <1>1, <1>2, <1>3, <1>4 DEF PoolInv

LEMMA PoolStep == PoolInv /\ [Next]_vars => PoolInv'
<1> SUFFICES ASSUME PoolInv, [Next]_vars PROVE PoolInv'
  OBVIOUS
<1>1. ASSUME NEW u \in Urls, removeRelay(u) PROVE PoolInv'
  <2>1. /\ removed' = [c \in Calls |-> removed[c] \cup ({u} \cap targets[c])]
        /\ removed \in [Calls -> SUBSET Urls] /\ relays' \subseteq relays /\ DisconnectRelay(u)
    BY <1>1 DEF removeRelay, PoolInv, TypeOK
  <2>2. removed' \in [Calls -> SUBSET Urls]
    BY <2>1
  <2>3. QED
    BY <2>1, <2>2, DisconnectTakes
<1>2. ASSUME NEW u \in Urls, close(u) PROVE PoolInv'
  BY <1>2, DisconnectTakes DEF close, PoolInv, TypeOK
<1>3. ASSUME NEW u \in Urls, ConnectionLost(u) PROVE PoolInv'
  <2>1. /\ connected' = connected \ {u}
        /\ requested' = [c \in Calls |-> requested[c] \ {u}]
        /\ UNCHANGED <<relays, phase, targets, awaited, removed, subscriptions, held, merged, query,
                       eoseFrom, tailed>>
    BY <1>3 DEF ConnectionLost, connects
  <2>2. requested' \in [Calls -> SUBSET Urls] /\ \A c \in Calls : requested'[c] \subseteq requested[c]
    BY <2>1 DEF PoolInv, TypeOK
  <2>3. QED
    BY <2>1, <2>2, RelaysOnlyTake DEF PoolInv, TypeOK
<1>4. ASSUME NEW u \in Urls, Reconnected(u) PROVE PoolInv'
  <2>1. connected' \subseteq Urls
    BY <1>4 DEF Reconnected, PoolInv, TypeOK
  <2>2. QED
    BY <1>4, <2>1, RelaysOnlyTake DEF Reconnected, connects, PoolInv, TypeOK
<1>5. ASSUME NEW c \in Calls, NEW urls \in SUBSET Urls, Subscribe(c, urls) PROVE PoolInv'
  BY <1>5, SubscribeKeeps
<1>6. ASSUME NEW c \in Calls, NEW valid \in BOOLEAN, SubscribeAll(c, valid) PROVE PoolInv'
  BY <1>6, SubscribeAllKeeps
<1>7. ASSUME NEW c \in Calls, SubscribeReturns(c) PROVE PoolInv'
  BY <1>7, SubscribeReturnsKeeps
<1>8. ASSUME NEW c \in Calls, CloseSubscription(c) PROVE PoolInv'
  BY <1>8, CloseSubscriptionKeeps
<1>9. ASSUME NEW c \in Calls, QueryTimeout(c) PROVE PoolInv'
  BY <1>9, QueryTimeoutKeeps
<1>10. ASSUME NEW c \in Calls, NEW u \in Urls, ReceiveEose(c, u) PROVE PoolInv'
  BY <1>10, ReceiveEoseKeeps
<1>11. ASSUME NEW c \in Calls, NEW u \in Urls, ReceiveEvent(c, u) PROVE PoolInv'
  BY <1>11, ReceiveEventKeeps
<1>12. ASSUME NEW c \in Calls, NEW u \in Urls, NEW ok \in BOOLEAN, EnsureRelay(c, u, ok) PROVE PoolInv'
  BY <1>12, EnsureRelayKeeps
<1>13. CASE UNCHANGED vars
  <2>1. UNCHANGED <<relays, connected, phase, targets, awaited, removed, subscriptions, held, requested,
                    merged, query, eoseFrom, tailed>>
    BY <1>13 DEF vars, connects
  <2>2. QED
    BY <2>1, RelaysOnlyTake DEF PoolInv, TypeOK
<1>14. QED
  BY <1>1, <1>2, <1>3, <1>4, <1>5, <1>6, <1>7, <1>8, <1>9, <1>10, <1>11, <1>12, <1>13 DEF Next

\* The inductive invariant holds in every reachable state.
THEOREM PoolInvariant == Spec => []PoolInv
  BY PoolInitially, PoolStep, PTL DEF Spec

\* The merged onEOSE of subscribe() is called at most once, whatever the relays
\* send and whenever (relayPool.ts 404-432).
THEOREM OnEoseOnce == Spec => [](\A c \in Calls : onEoseCalls[c] \in 0 .. 1)
<1>1. PoolInv => \A c \in Calls : onEoseCalls[c] \in 0 .. 1
  BY DEF PoolInv, TypeOK
<1>2. QED
  BY <1>1, PoolInvariant, PTL

\* If no relay sends a second EOSE for a subscription, the merged onEOSE comes
\* after an EOSE of each relay that was subscribed on.
THEOREM EoseAlwaysComplete ==
  ASSUME MaxEose <= 1
  PROVE  Spec => []EoseIsComplete
<1>1. PoolInv => EoseIsComplete
  BY DEF PoolInv, Counting, Told, EoseIsComplete, Answered
<1>2. QED
  BY <1>1, PoolInvariant, PTL

\* If no EOSE comes before subscribe() has returned, a call that is over has no
\* subscription left at any relay it can still be told to close.
THEOREM OverAlwaysReleased ==
  ASSUME ~EarlyEose
  PROVE  Spec => []OverIsReleased
<1>1. PoolInv => OverIsReleased
  BY DEF PoolInv, Holding, Resolving, OverIsReleased
<1>2. QED
  BY <1>1, PoolInvariant, PTL
===============================================================================
