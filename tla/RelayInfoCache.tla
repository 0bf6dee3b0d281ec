--------------------------- MODULE RelayInfoCache ---------------------------
(***************************************************************************)
(* Relay information documents (src/src/nip11/index.ts): fetches that      *)
(* overlap, each with an await between reading the cache and writing it,   *)
(* and the cache of documents and of failures.  One relay URL; entries of  *)
(* different URLs do not affect each other.  Instead of the document, an   *)
(* answer carries the time at which the relay gave it or failed to.        *)
(***************************************************************************)
EXTENDS Clock

CONSTANTS
  Fetches,    \* identities of calls in progress
  CACHE_TTL,
  InfoHorizon  \* bound: the time up to which the cache is followed

ASSUME CacheAssumption == CACHE_TTL \in Nat \ {0} /\ InfoHorizon \in Nat

VARIABLES
  relayInfoCache,  \* the entry of the URL: [ok, at, timestamp], or NotCached
  fetching,        \* per call: [stage, useCache, started, at]
  servedAge        \* history: the age of the answer the cache last gave

infoVars == <<relayInfoCache, fetching, servedAge>>

NotCached == [ok |-> FALSE, at |-> 0, timestamp |-> -CACHE_TTL]
Idle == [stage |-> "idle", useCache |-> FALSE, started |-> 0, at |-> 0]

InfoInit ==
  /\ relayInfoCache = NotCached
  /\ fetching = [f \in Fetches |-> Idle]
  /\ servedAge = 0

-----------------------------------------------------------------------------
\* Mutant: the entry is dated when it is stored.
storedTimestampLate(f) == now

\* The entry is dated when the fetch began.
storedTimestamp(f) == fetching[f].started

\* The end of a fetch whose answer, good or bad, dates from the given time.
Finish(f, ok, at) ==
  /\ fetching' = [fetching EXCEPT ![f] = Idle]
  /\ relayInfoCache' = IF fetching[f].useCache
                       THEN [ok |-> ok, at |-> at, timestamp |-> storedTimestamp(f)]
                       ELSE relayInfoCache
  /\ UNCHANGED servedAge

Cached == now - relayInfoCache.timestamp < CACHE_TTL

\* A call answered from the cache.
ServeFromCache ==
  /\ Cached
  /\ servedAge' = now - relayInfoCache.at
  /\ UNCHANGED <<relayInfoCache, fetching>>

\* A call that asks the relay.
StartFetch(f, useCache) ==
  /\ fetching[f].stage = "idle"
  /\ ~(useCache /\ Cached)
  /\ fetching' = [fetching EXCEPT ![f] =
       [stage |-> "asked", useCache |-> useCache, started |-> now, at |-> 0]]
  /\ UNCHANGED <<relayInfoCache, servedAge>>

\* The response begins: from here on the timeout no longer applies, and the body
\* is still to come.
ResponseOk(f) ==
  /\ fetching[f].stage = "asked"
  /\ fetching' = [fetching EXCEPT ![f].stage = "answered", ![f].at = now]
  /\ UNCHANGED <<relayInfoCache, servedAge>>

ResponseNotOk(f) == fetching[f].stage = "asked" /\ Finish(f, FALSE, now)

\* response.json() resolves.
Body(f) == fetching[f].stage = "answered" /\ Finish(f, TRUE, fetching[f].at)

\* A network error, the timeout's abort, or a body that is not JSON.
FetchFails(f) == fetching[f].stage # "idle" /\ Finish(f, FALSE, now)

clearRelayInfoCache ==
  /\ relayInfoCache' = NotCached
  /\ UNCHANGED <<fetching, servedAge>>

InfoNext ==
  \/ Tick(InfoHorizon) /\ UNCHANGED infoVars
  \/ /\ UNCHANGED now
     /\ \/ ServeFromCache
        \/ \E f \in Fetches :
             \/ \E useCache \in BOOLEAN : StartFetch(f, useCache)
             \/ ResponseOk(f)
             \/ ResponseNotOk(f)
             \/ Body(f)
             \/ FetchFails(f)
        \/ clearRelayInfoCache

-----------------------------------------------------------------------------
\* However slow fetches overlap, overwrite each other's entries and outlive a
\* clearing of the cache, an answer served from it is never older than its TTL.
ServedIsFresh == servedAge < CACHE_TTL
=============================================================================
