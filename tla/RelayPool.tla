------------------------------ MODULE RelayPool ------------------------------
(***************************************************************************)
(* RelayPool (src/src/nip01/relayPool.ts): its map of relays, subscribe()  *)
(* over several relays with one merged EOSE, and querySync() built on it.  *)
(*                                                                         *)
(* Each relay is reduced to whether it is connected and which of the       *)
(* pool's subscriptions it holds; RelayConnection and RelaySubscription    *)
(* have the detail.  Two of its habits matter here: connect() reports a    *)
(* failure by resolving to false, which ensureRelay ignores, and only a    *)
(* subscription made while connected is requested from the relay.          *)
(***************************************************************************)
EXTENDS Naturals, FiniteSets

CONSTANTS
  Urls,       \* relay URLs
  BadUrls,    \* those that normalizeRelayUrl rejects
  Calls,      \* calls of subscribe() or querySync()
  Queries,    \* those that are querySync()
  Timeouts,   \* the queries that were given a timeout
  MaxEose,    \* bound on the EOSE messages per subscription of a relay
  EarlyEose   \* can an EOSE overtake the return of subscribe()? (in-memory transport)

ASSUME PoolAssumption ==
  /\ BadUrls \subseteq Urls /\ IsFiniteSet(Urls)
  /\ Timeouts \subseteq Queries /\ Queries \subseteq Calls
  /\ MaxEose \in Nat
  /\ EarlyEose \in BOOLEAN

VARIABLES
  relays,                \* URLs in the pool
  connected,             \* relays with an open connection
  phase,                 \* per call: how far it is
  targets,               \* per call: its valid relays
  awaited,               \* per call: those whose connect() is under way
  removed,               \* per call: those taken out of the pool since it began
  subscriptions,         \* per call: relays in the subscriptions array
  held,                  \* per call: relays that hold a subscription of it
  requested,             \* per call: relays that were sent its REQ and know of it
  successfulRelayCount, eoseCount, eoseSent, isClosed,  \* per call: subscribe()
  sub,                   \* queries that have been given their subscription
  timer,                 \* queries whose timeout is running
  isResolved,            \* queries that have resolved
  eoseFrom,              \* history, per call: EOSE messages of each relay
  onEoseCalls,           \* history, per call: calls of onEOSE
  tailed                 \* history: queries whose result changed after it was returned

merged == <<successfulRelayCount, eoseCount, eoseSent, isClosed, onEoseCalls>>
query == <<sub, timer, isResolved>>
connects == <<targets, awaited, removed>>
vars == <<relays, connected, phase, connects, subscriptions, held, requested, merged, query,
          eoseFrom, tailed>>

Init ==
  /\ relays \in SUBSET (Urls \ BadUrls)
  /\ connected = {}
  /\ phase = [c \in Calls |-> "idle"]
  /\ targets = [c \in Calls |-> {}]
  /\ awaited = [c \in Calls |-> {}]
  /\ removed = [c \in Calls |-> {}]
  /\ subscriptions = [c \in Calls |-> {}]
  /\ held = [c \in Calls |-> {}]
  /\ requested = [c \in Calls |-> {}]
  /\ successfulRelayCount = [c \in Calls |-> 0]
  /\ eoseCount = [c \in Calls |-> 0]
  /\ eoseSent = {} /\ isClosed = {}
  /\ sub = {} /\ timer = {} /\ isResolved = {}
  /\ eoseFrom = [c \in Calls |-> [u \in Urls |-> 0]]
  /\ onEoseCalls = [c \in Calls |-> 0]
  /\ tailed = {}

-----------------------------------------------------------------------------
\* The relays.

\* disconnect() of relay u ends a connect() under way and, if the relay has a
\* socket, drops every subscription.  A call whose relay was removed keeps the
\* old Relay object, which nothing else uses.
DisconnectRelay(u) ==
  \E hasSocket \in BOOLEAN :
    /\ u \in connected => hasSocket
    /\ connected' = connected \ {u}
    /\ awaited' = [c \in Calls |-> awaited[c] \ {u}]
    /\ held' = [c \in Calls |-> IF hasSocket /\ u \notin removed[c] THEN held[c] \ {u}
                               ELSE held[c]]
    /\ requested' = [c \in Calls |-> requested[c] \ {u}]
    /\ UNCHANGED <<phase, targets, subscriptions, merged, query, eoseFrom, tailed>>

removeRelay(u) ==
  /\ u \in relays
  /\ relays' = relays \ {u}
  /\ removed' = [c \in Calls |-> removed[c] \cup ({u} \cap targets[c])]
  /\ DisconnectRelay(u)

close(u) ==
  /\ u \in relays
  /\ DisconnectRelay(u)
  /\ UNCHANGED <<relays, removed>>

\* The connection is lost; the relay keeps its subscriptions.
ConnectionLost(u) ==
  /\ u \in connected
  /\ connected' = connected \ {u}
  /\ requested' = [c \in Calls |-> requested[c] \ {u}]
  /\ UNCHANGED <<relays, phase, connects, subscriptions, held, merged, query, eoseFrom, tailed>>

\* Automatic reconnection, which requests nothing again.
Reconnected(u) ==
  /\ u \in relays \ connected
  /\ connected' = connected \cup {u}
  /\ UNCHANGED <<relays, phase, connects, subscriptions, held, requested, merged, query,
                 eoseFrom, tailed>>

-----------------------------------------------------------------------------
\* The end of a call.

\* Mutant: the array is cleared before its relays are told.
immediateCloseEmpty(c) ==
  /\ isClosed' = isClosed \cup {c}
  /\ subscriptions' = [subscriptions EXCEPT ![c] = {}]
  /\ UNCHANGED held

\* immediateClose(): unsubscribe from every relay in the array.
immediateClose(c) ==
  /\ isClosed' = isClosed \cup {c}
  /\ held' = [held EXCEPT ![c] = @ \ subscriptions[c]]
  /\ subscriptions' = [subscriptions EXCEPT ![c] = {}]

\* Mutant: the query resolves and leaves its subscription open.
safeResolveOpen(c) ==
  /\ isResolved' = isResolved \cup {c}
  /\ timer' = timer \ {c}
  /\ sub' = sub \ {c}
  /\ UNCHANGED <<isClosed, held, subscriptions>>

\* safeResolve() and its cleanup(): close the subscription if there is one yet.
safeResolve(c) ==
  /\ isResolved' = isResolved \cup {c}
  /\ timer' = timer \ {c}
  /\ sub' = sub \ {c}
  /\ IF c \in sub \ isClosed
     THEN immediateClose(c)
     ELSE UNCHANGED <<isClosed, held, subscriptions>>

\* onEOSE(): querySync() resolves, anything else is the user's.
onEOSE(c) ==
  /\ eoseSent' = eoseSent \cup {c}
  /\ onEoseCalls' = [onEoseCalls EXCEPT ![c] = @ + 1]
  /\ IF c \in Queries \ isResolved
     THEN safeResolve(c)
     ELSE UNCHANGED <<isClosed, held, subscriptions, query>>

-----------------------------------------------------------------------------
\* subscribe().

\* ensureRelay of every URL: those that are valid are added and connect.
Subscribe(c, urls) ==
  /\ phase[c] = "idle"
  /\ phase' = [phase EXCEPT ![c] = "connecting"]
  /\ targets' = [targets EXCEPT ![c] = urls \ BadUrls]
  /\ awaited' = [awaited EXCEPT ![c] = urls \ BadUrls]
  /\ relays' = relays \cup (urls \ BadUrls)
  /\ UNCHANGED <<connected, removed, subscriptions, held, requested, merged, query, eoseFrom,
                 tailed>>

\* connect() of one of them settles; ensureRelay does not look at its result.
EnsureRelay(c, u, ok) ==
  /\ u \in awaited[c]
  /\ awaited' = [awaited EXCEPT ![c] = @ \ {u}]
  /\ u \in connected => ok
  /\ connected' = IF ok THEN connected \cup {u} ELSE connected
  /\ UNCHANGED <<relays, phase, targets, removed, subscriptions, held, requested, merged, query,
                 eoseFrom, tailed>>

\* All have settled: subscribe on each relay, unless its subscribe() throws
\* because a filter is invalid.  With no subscription left, onEOSE is called.
SubscribeAll(c, filtersValid) ==
  LET ready == IF filtersValid THEN targets[c] ELSE {} IN
  /\ phase[c] = "connecting" /\ awaited[c] = {}
  /\ phase' = [phase EXCEPT ![c] = "returning"]
  /\ successfulRelayCount' = [successfulRelayCount EXCEPT ![c] = Cardinality(ready)]
  /\ IF ready = {}
     THEN onEOSE(c) /\ UNCHANGED requested
     ELSE /\ subscriptions' = [subscriptions EXCEPT ![c] = ready]
          /\ held' = [held EXCEPT ![c] = ready]
          /\ requested' = [requested EXCEPT ![c] = (ready \cap connected) \ removed[c]]
          /\ UNCHANGED <<isClosed, eoseSent, onEoseCalls, query>>
  /\ UNCHANGED <<relays, connected, connects, eoseCount, eoseFrom, tailed>>

\* Mutant: the timeout is never armed.
SubscribeReturnsUntimed(c) ==
  /\ phase[c] = "returning"
  /\ phase' = [phase EXCEPT ![c] = "returned"]
  /\ sub' = IF c \in Queries THEN sub \cup {c} ELSE sub
  /\ UNCHANGED <<relays, connected, connects, subscriptions, held, requested, merged,
                 timer, isResolved, eoseFrom, tailed>>

\* The caller gets the subscription; querySync() starts its timeout now.
SubscribeReturns(c) ==
  /\ phase[c] = "returning"
  /\ phase' = [phase EXCEPT ![c] = "returned"]
  /\ sub' = IF c \in Queries THEN sub \cup {c} ELSE sub
  /\ timer' = IF c \in Timeouts THEN timer \cup {c} ELSE timer
  /\ UNCHANGED <<relays, connected, connects, subscriptions, held, requested, merged,
                 isResolved, eoseFrom, tailed>>

\* close() of the subscription the caller was given.
CloseSubscription(c) ==
  /\ c \in Calls \ Queries
  /\ phase[c] = "returned"
  /\ c \notin isClosed
  /\ immediateClose(c)
  /\ UNCHANGED <<relays, connected, phase, connects, requested, successfulRelayCount, eoseCount,
                 eoseSent, onEoseCalls, query, eoseFrom, tailed>>

\* The timeout of querySync(); one that fires after the query resolved does nothing.
QueryTimeout(c) ==
  /\ c \in timer
  /\ IF c \in isResolved
     THEN timer' = timer \ {c} /\ UNCHANGED <<sub, isResolved, isClosed, held, subscriptions>>
     ELSE safeResolve(c)
  /\ UNCHANGED <<relays, connected, phase, connects, requested, successfulRelayCount, eoseCount,
                 eoseSent, onEoseCalls, eoseFrom, tailed>>

-----------------------------------------------------------------------------
\* Messages of relay u for a subscription it holds.

Delivers(c, u) ==
  /\ u \in held[c] \cap requested[c]
  /\ phase[c] = "returned" \/ EarlyEose

\* Mutant: the first EOSE is enough.
EoseCompleteAtFirst(c) == eoseCount'[c] > 0

\* safeOnEOSE() has counted one EOSE per relay.
EoseComplete(c) == eoseCount'[c] >= successfulRelayCount[c]

\* Mutant: nothing remembers that onEOSE was called.
ReceiveEoseRepeated(c, u) ==
  /\ Delivers(c, u)
  /\ eoseFrom[c][u] < MaxEose
  /\ eoseFrom' = [eoseFrom EXCEPT ![c][u] = @ + 1]
  /\ eoseCount' = [eoseCount EXCEPT ![c] = @ + 1]
  /\ onEOSE(c)
  /\ UNCHANGED <<relays, connected, phase, connects, requested, successfulRelayCount, tailed>>

\* safeOnEOSE()
ReceiveEose(c, u) ==
  /\ Delivers(c, u)
  /\ eoseFrom[c][u] < MaxEose
  /\ eoseFrom' = [eoseFrom EXCEPT ![c][u] = @ + 1]
  /\ IF c \in isClosed \cup eoseSent
     THEN UNCHANGED <<eoseCount, eoseSent, onEoseCalls, isClosed, held, subscriptions, query>>
     ELSE /\ eoseCount' = [eoseCount EXCEPT ![c] = @ + 1]
          /\ IF EoseComplete(c)
             THEN onEOSE(c)
             ELSE UNCHANGED <<eoseSent, onEoseCalls, isClosed, held, subscriptions, query>>
  /\ UNCHANGED <<relays, connected, phase, connects, requested, successfulRelayCount, tailed>>

\* An event of a query is pushed onto the array it resolves to.
ReceiveEvent(c, u) ==
  /\ Delivers(c, u)
  /\ tailed' = IF c \in isResolved \ isClosed THEN tailed \cup {c} ELSE tailed
  /\ UNCHANGED <<relays, connected, phase, connects, subscriptions, held, requested, merged,
                 query, eoseFrom>>

-----------------------------------------------------------------------------
Next ==
  \/ \E u \in Urls : removeRelay(u) \/ close(u) \/ ConnectionLost(u) \/ Reconnected(u)
  \/ \E c \in Calls :
       \/ \E urls \in SUBSET Urls : Subscribe(c, urls)
       \/ \E valid \in BOOLEAN : SubscribeAll(c, valid)
       \/ SubscribeReturns(c)
       \/ CloseSubscription(c)
       \/ QueryTimeout(c)
       \/ \E u \in Urls :
            \/ ReceiveEose(c, u)
            \/ ReceiveEvent(c, u)
            \/ \E ok \in BOOLEAN : EnsureRelay(c, u, ok)

\* connect() settles (RelayConnection's ConnectSettles), the continuations of
\* subscribe() run and a due timeout fires.  Nothing is assumed of the relays.
Fairness ==
  \A c \in Calls :
    /\ \A u \in Urls : WF_vars(\E ok \in BOOLEAN : EnsureRelay(c, u, ok))
    /\ WF_vars(\E valid \in BOOLEAN : SubscribeAll(c, valid))
    /\ WF_vars(SubscribeReturns(c))
    /\ WF_vars(QueryTimeout(c))

Spec == Init /\ [][Next]_vars
FairSpec == Spec /\ Fairness

-----------------------------------------------------------------------------
\* Properties.

\* Every variable has its type.
TypeOK ==
  /\ relays \subseteq Urls \ BadUrls
  /\ connected \subseteq Urls
  /\ phase \in [Calls -> {"idle", "connecting", "returning", "returned"}]
  /\ {targets, awaited, removed, subscriptions, held, requested} \subseteq [Calls -> SUBSET Urls]
  /\ {successfulRelayCount, eoseCount} \subseteq [Calls -> Nat]
  /\ eoseSent \cup isClosed \subseteq Calls
  /\ sub \cup timer \cup isResolved \cup tailed \subseteq Queries
  /\ eoseFrom \in [Calls -> [Urls -> 0 .. MaxEose]]
  /\ onEoseCalls \in [Calls -> 0 .. 1]

\* onEOSE is called only after every relay that was subscribed on has sent its
\* EOSE, whatever was lost, removed or closed in between.
EoseIsComplete ==
  \A c \in Calls : onEoseCalls[c] > 0 =>
    Cardinality({u \in Urls : eoseFrom[c][u] > 0}) >= successfulRelayCount[c]

\* Once a call is over no relay holds a subscription of it: it was closed, or its
\* query has resolved and got its subscription.
OverIsReleased ==
  \A c \in Calls :
    c \in isClosed \/ (c \in isResolved /\ phase[c] = "returned") => held[c] = {}

\* The array a query resolved to does not change any more.
ResultIsFinal == tailed = {}

\* A query that was given a timeout resolves, whatever the relays do.
QueryResolves == \A c \in Timeouts : phase[c] # "idle" ~> c \in isResolved
===============================================================================
