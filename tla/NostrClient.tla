----------------------------- MODULE NostrClient -----------------------------
(***************************************************************************)
(* The Nostr class (src/src/nip01/nostr.ts): its map of relays, and        *)
(* subscribeDetailed() and fetchManyDetailed() over all of them.           *)
(*                                                                         *)
(* A relay is reduced to whether it is connected and which calls it holds  *)
(* a subscription of, as in RelayPool.  A relay answers a REQ with one     *)
(* EOSE or with CLOSED.  The rate limits and the validation of filters are *)
(* reduced to their verdict; publishing, the callbacks of on() and the     *)
(* merging of events are in NostrFacade.                                   *)
(***************************************************************************)
EXTENDS Naturals, FiniteSets

CONSTANTS
  Urls,         \* normalized relay URLs
  Fetches,      \* calls of fetchMany
  Subscribes,   \* calls of subscribe
  Signalled     \* the fetches that were given an AbortSignal

ASSUME ClientAssumption ==
  /\ IsFiniteSet(Urls)
  /\ Signalled \subseteq Fetches /\ Fetches \cap Subscribes = {}

Calls == Fetches \cup Subscribes

VARIABLES
  relays,       \* URLs in the map
  connected,    \* those with an open connection
  status,       \* per call: how it stands or how it ended
  held,         \* per call: relays that hold a subscription of it
  asked,        \* per call: those that were sent its REQ and have not answered
  eoseCount,    \* per fetch: calls of its onEOSE
  timers,       \* fetches whose timeout is running
  listening,    \* fetches with a listener on their signal
  aborted,      \* fetches whose signal has been aborted
  answered,     \* history, per call: relays of the map that have sent EOSE
  leavers       \* history: calls one of whose answered relays was removed since

network == <<relays, connected>>
subs == <<held, asked>>
local == <<eoseCount, timers, listening>>
history == <<answered, leavers>>
vars == <<network, status, subs, local, aborted, history>>

Init ==
  /\ relays \in SUBSET Urls
  /\ connected = {}
  /\ status = [c \in Calls |-> "idle"]
  /\ held = [c \in Calls |-> {}]
  /\ asked = [c \in Calls |-> {}]
  /\ eoseCount = [c \in Fetches |-> 0]
  /\ timers = {}
  /\ listening = {}
  /\ aborted = {}
  /\ answered = [c \in Calls |-> {}]
  /\ leavers = {}

-----------------------------------------------------------------------------
\* The map of relays and their connections.

addRelay(u) ==
  /\ u \notin relays
  /\ relays' = relays \cup {u}
  /\ UNCHANGED <<connected, status, subs, local, aborted, history>>

\* The relay is disconnected, which drops its subscriptions, and forgotten.
removeRelay(u) ==
  /\ u \in relays
  /\ relays' = relays \ {u}
  /\ connected' = connected \ {u}
  /\ held' = [c \in Calls |-> held[c] \ {u}]
  /\ asked' = [c \in Calls |-> asked[c] \ {u}]
  /\ answered' = [c \in Calls |-> answered[c] \ {u}]
  /\ leavers' = leavers \cup {c \in Calls : u \in answered[c]}
  /\ UNCHANGED <<status, local, aborted>>

\* Relay.connect() succeeds, or the relay reconnects (external: RelayConnection).
RelayConnected(u) ==
  /\ u \in relays \ connected
  /\ connected' = connected \cup {u}
  /\ UNCHANGED <<relays, status, subs, local, aborted, history>>

\* The connection is lost; after a reconnection nothing is requested again.
ConnectionLost(u) ==
  /\ u \in connected
  /\ connected' = connected \ {u}
  /\ asked' = [c \in Calls |-> asked[c] \ {u}]
  /\ UNCHANGED <<relays, status, held, local, aborted, history>>

\* disconnectFromRelays(): a relay that has a socket, connected or connecting,
\* drops its subscriptions.
disconnectFromRelays ==
  /\ connected # {}
  /\ \E connecting \in SUBSET (relays \ connected) :
       held' = [c \in Calls |-> held[c] \ (connected \cup connecting)]
  /\ connected' = {}
  /\ asked' = [c \in Calls |-> {}]
  /\ UNCHANGED <<relays, status, local, aborted, history>>

-----------------------------------------------------------------------------
\* subscribeDetailed(): every relay of the map gets a subscription, the
\* connected ones are asked.
SubscribeAll(c) ==
  /\ held' = [held EXCEPT ![c] = relays]
  /\ asked' = [asked EXCEPT ![c] = connected]

\* The rate limit is reached or a filter is invalid: every relay refuses the
\* same filters, so no subscription was made that would have to be undone.
Refuse(c) ==
  /\ status[c] = "idle"
  /\ status' = [status EXCEPT ![c] = "refused"]
  /\ UNCHANGED <<network, subs, local, aborted, history>>

subscribeDetailed(c) ==
  /\ status[c] = "idle"
  /\ status' = [status EXCEPT ![c] = "active"]
  /\ SubscribeAll(c)
  /\ UNCHANGED <<network, local, aborted, history>>

\* Mutant: relays that are not connected keep the subscription.
unsubscribeConnected(c) ==
  /\ held' = [held EXCEPT ![c] = @ \ connected]
  /\ asked' = [asked EXCEPT ![c] = {}]

\* unsubscribe(subIds): on every relay of the map.
unsubscribe(c) ==
  /\ held' = [held EXCEPT ![c] = {}]
  /\ asked' = [asked EXCEPT ![c] = {}]

Unsubscribe(c) ==
  /\ status[c] = "active"
  /\ unsubscribe(c)
  /\ status' = [status EXCEPT ![c] = "ended"]
  /\ UNCHANGED <<network, local, aborted, history>>

\* unsubscribeAll() reaches the subscriptions of fetches as well.
unsubscribeAll ==
  /\ \E c \in Calls : held[c] # {}
  /\ held' = [c \in Calls |-> {}]
  /\ asked' = [c \in Calls |-> {}]
  /\ UNCHANGED <<network, status, local, aborted, history>>

-----------------------------------------------------------------------------
\* fetchManyDetailed().

\* Mutant: the timeout is not cleared.
cleanupKeepsTimer(c, how) ==
  /\ status' = [status EXCEPT ![c] = how]
  /\ listening' = listening \ {c}
  /\ unsubscribe(c)
  /\ UNCHANGED timers

\* cleanup(): the fetch is over, for the reason how.
cleanup(c, how) ==
  /\ status' = [status EXCEPT ![c] = how]
  /\ timers' = timers \ {c}
  /\ listening' = listening \ {c}
  /\ unsubscribe(c)

FetchFromNobody(c) ==
  /\ status[c] = "idle"
  /\ relays = {}
  /\ status' = [status EXCEPT ![c] = "complete"]
  /\ UNCHANGED <<network, subs, local, aborted, history>>

\* The call subscribes before it looks at its signal, and unsubscribes at once
\* when that has been aborted.
fetchManyDetailed(c) ==
  /\ status[c] = "idle"
  /\ relays # {}
  /\ IF c \in aborted
     THEN cleanup(c, "aborted")
     ELSE /\ status' = [status EXCEPT ![c] = "active"]
          /\ SubscribeAll(c)
          /\ timers' = timers \cup {c}
          /\ listening' = listening \cup ({c} \cap Signalled)
  /\ UNCHANGED <<network, eoseCount, aborted, history>>

\* Mutant: the first relay to answer ends the fetch.
EnoughAtOnce(n) == n > 0

\* Have enough relays answered?  The map may have changed since the call.
Enough(n) == n >= Cardinality(relays)

\* A relay answers with EOSE: that of a fetch is counted, and may end it.
ReceiveEose(c, u) ==
  /\ u \in asked[c] \cap held[c]
  /\ answered' = [answered EXCEPT ![c] = @ \cup {u}]
  /\ IF c \in Fetches
     THEN /\ eoseCount' = [eoseCount EXCEPT ![c] = @ + 1]
          /\ IF Enough(eoseCount[c] + 1)
             THEN cleanup(c, "complete")
             ELSE /\ asked' = [asked EXCEPT ![c] = @ \ {u}]
                  /\ UNCHANGED <<timers, listening, status, held>>
     ELSE /\ asked' = [asked EXCEPT ![c] = @ \ {u}]
          /\ UNCHANGED <<local, status, held>>
  /\ UNCHANGED <<network, aborted, leavers>>

\* A relay answers with CLOSED, which nobody counts.
ReceiveClosed(c, u) ==
  /\ u \in asked[c] \cap held[c]
  /\ asked' = [asked EXCEPT ![c] = @ \ {u}]
  /\ held' = [held EXCEPT ![c] = @ \ {u}]
  /\ UNCHANGED <<network, status, local, aborted, history>>

\* Mutant: the timeout is given up when no relay is connected.
FetchTimeoutOnline(c) ==
  /\ c \in timers
  /\ connected # {}
  /\ cleanup(c, "timedOut")
  /\ UNCHANGED <<network, eoseCount, aborted, history>>

FetchTimeout(c) ==
  /\ c \in timers
  /\ cleanup(c, "timedOut")
  /\ UNCHANGED <<network, eoseCount, aborted, history>>

\* The user aborts the signal; the listener, if there is one, cleans up.
Abort(c) ==
  /\ c \in Signalled \ aborted
  /\ aborted' = aborted \cup {c}
  /\ IF c \in listening
     THEN cleanup(c, "aborted")
     ELSE UNCHANGED <<status, subs, timers, listening>>
  /\ UNCHANGED <<network, eoseCount, history>>

-----------------------------------------------------------------------------
Next ==
  \/ disconnectFromRelays
  \/ unsubscribeAll
  \/ \E u \in Urls : addRelay(u) \/ removeRelay(u) \/ RelayConnected(u) \/ ConnectionLost(u)
  \/ \E c \in Calls : Refuse(c)
  \/ \E c \in Subscribes : subscribeDetailed(c) \/ Unsubscribe(c)
  \/ \E c \in Fetches :
       FetchFromNobody(c) \/ fetchManyDetailed(c) \/ FetchTimeout(c) \/ Abort(c)
  \/ \E c \in Calls, u \in Urls : ReceiveEose(c, u) \/ ReceiveClosed(c, u)

Spec == Init /\ [][Next]_vars

\* A due timeout fires.  Nothing is assumed of the relays or the user.
FairSpec == Spec /\ \A c \in Fetches : WF_vars(FetchTimeout(c))

-----------------------------------------------------------------------------
\* Properties.

\* Every variable has its type; only relays of the map hold subscriptions, and
\* the timeout of a fetch runs exactly while it is under way.
TypeOK ==
  /\ connected \subseteq relays /\ relays \subseteq Urls
  /\ status \in [Calls -> {"idle", "active", "refused", "complete", "timedOut", "aborted",
                           "ended"}]
  /\ held \in [Calls -> SUBSET relays] /\ asked \in [Calls -> SUBSET connected]
  /\ eoseCount \in [Fetches -> Nat]
  /\ timers = {c \in Fetches : status[c] = "active"}
  /\ listening \subseteq Signalled /\ aborted \subseteq Signalled
  /\ answered \in [Calls -> SUBSET relays] /\ leavers \subseteq Calls

\* A call that is over has left nothing behind: no relay of the map holds a
\* subscription of it and its signal is not listened to, however many of EOSE,
\* timeout, abort and removal of relays came together.
NothingLeftBehind ==
  \A c \in Calls : status[c] \notin {"idle", "active"} => held[c] = {} /\ c \notin listening

\* A fetch that the relays end has an answer of every relay that still holds its
\* subscription, unless a relay that had already answered was removed meanwhile
\* (its EOSE still counts against the smaller map).
FetchIsComplete ==
  [][\A c \in Fetches \ leavers :
       status[c] = "active" /\ status'[c] = "complete" => held[c] \subseteq answered'[c]]_vars

\* A fetch settles even if no relay ever answers.
FetchSettles == \A c \in Fetches : status[c] = "active" ~> status[c] # "active"
===============================================================================
