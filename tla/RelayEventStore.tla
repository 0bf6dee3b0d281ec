---------------------------- MODULE RelayEventStore ----------------------------
(***************************************************************************)
(* The replaceable and addressable events a Relay keeps                    *)
(* (src/src/nip01/relay.ts): processReplaceableEvent,                      *)
(* processAddressableEvent, the evictions that keep both maps small, and   *)
(* the reads, which also count as accesses.                                *)
(*                                                                         *)
(* An access-time map is a sequence of [key, time] in the insertion order  *)
(* of the JavaScript Map, since that order decides which of several        *)
(* equally old entries is evicted.  The clock is Date.now(), which need    *)
(* not advance between two accesses.                                       *)
(***************************************************************************)
EXTENDS Clock, Arrays, FiniteSets

CONSTANTS
  StoreAuthors, StoreKinds,  \* replaceable events are kept per pubkey and kind
  Addresses,                 \* kind:pubkey:dTag of addressable events
  Times, StoreIds,           \* created_at and id of events, as numbers
  maxReplaceableEventPubkeys,
  maxReplaceableEventsPerPubkey,
  maxAddressableEvents,
  StoreHorizon,              \* bound on the clock
  MaxUnknownReads            \* bound on the reads of keys that are not stored, of either map

ASSUME StoreAssumption ==
  /\ Times \subseteq Nat /\ StoreIds \subseteq Nat
  /\ maxReplaceableEventPubkeys \in Nat \ {0}
  /\ maxReplaceableEventsPerPubkey \in Nat \ {0}
  /\ maxAddressableEvents \in Nat \ {0}
  /\ MaxUnknownReads \in Nat

VARIABLES
  replaceableEvents,             \* partial function: pubkey to kind to event
  replaceableEventAccessTimes,
  addressableEvents,             \* partial function: address to event
  addressableEventAccessTimes,
  receivedReplaceable,           \* history: events received since the entry began
  receivedAddressable,           \* history: likewise
  replaceableUnknownReads,       \* history: how often a pubkey was asked for that is not stored
  addressableUnknownReads        \* history: likewise

replaceable == <<replaceableEvents, replaceableEventAccessTimes, receivedReplaceable,
                 replaceableUnknownReads>>
addressable == <<addressableEvents, addressableEventAccessTimes, receivedAddressable,
                 addressableUnknownReads>>
storeVars == <<replaceable, addressable>>

StoredEvent == [created_at : Times, id : StoreIds]

StoreInit ==
  /\ replaceableEvents = <<>>
  /\ replaceableEventAccessTimes = <<>>
  /\ addressableEvents = <<>>
  /\ addressableEventAccessTimes = <<>>
  /\ receivedReplaceable = [p \in StoreAuthors |-> [k \in StoreKinds |-> {}]]
  /\ receivedAddressable = [a \in Addresses |-> {}]
  /\ replaceableUnknownReads = 0 /\ addressableUnknownReads = 0

-----------------------------------------------------------------------------
\* accessTimes.set(k, now)
Touch(times, k) ==
  IF \E i \in DOMAIN times : times[i].key = k
  THEN [i \in DOMAIN times |-> IF times[i].key = k THEN [key |-> k, time |-> now] ELSE times[i]]
  ELSE Append(times, [key |-> k, time |-> now])

\* Mutant: the access time outlives the entry.
ForgetNothing(times, ks) == times

Forget(times, ks) == filter(times, [key : (StoreAuthors \cup Addresses) \ ks, time : Nat])

\* Mutant: the comparison is the wrong way round.
LatestKey(times) ==
  times[CHOOSE i \in DOMAIN times : \A j \in DOMAIN times : times[i].time >= times[j].time].key

\* The key that evictOldest...() finds: the first one with the smallest time.
OldestKey(times) ==
  LET oldest(i) == /\ \A j \in DOMAIN times : times[i].time <= times[j].time
                   /\ \A j \in 1 .. i - 1 : times[i].time < times[j].time
  IN times[CHOOSE i \in DOMAIN times : oldest(i)].key

\* Mutant: one entry too many.
EvictedLate(store, times, k, max) ==
  IF k \notin DOMAIN store /\ Cardinality(DOMAIN store) > max THEN {OldestKey(times)} ELSE {}

\* A new key evicts one when the map is full.  times: with the new key touched.
Evicted(store, times, k, max) ==
  IF k \notin DOMAIN store /\ Cardinality(DOMAIN store) >= max THEN {OldestKey(times)} ELSE {}

-----------------------------------------------------------------------------
\* Replaceable events.

\* Mutant: the last one to arrive wins.
ReplacesAlways(new, old) == TRUE

ReplacesReplaceable(new, old) == new.created_at > old.created_at

\* Mutant: one kind too many.
EvictableKindsLate(kindMap, k) ==
  IF k \notin DOMAIN kindMap /\ Cardinality(DOMAIN kindMap) > maxReplaceableEventsPerPubkey
  THEN {{o} : o \in DOMAIN kindMap}
  ELSE {{}}

\* A further kind evicts the kind with the oldest event when there are too many.
EvictableKinds(kindMap, k) ==
  IF k \notin DOMAIN kindMap /\ Cardinality(DOMAIN kindMap) >= maxReplaceableEventsPerPubkey
  THEN {{o} : o \in {i \in DOMAIN kindMap : \A j \in DOMAIN kindMap :
                       kindMap[i].created_at <= kindMap[j].created_at}}
  ELSE {{}}

processReplaceableEvent(p, k, e) ==
  LET times == Touch(replaceableEventAccessTimes, p)
      evicted == Evicted(replaceableEvents, times, p, maxReplaceableEventPubkeys)
      store == Delete(replaceableEvents, evicted)
      kindMap == IF p \in DOMAIN store THEN store[p] ELSE <<>>
      since == [q \in StoreAuthors |-> IF q \in evicted THEN [i \in StoreKinds |-> {}]
                                  ELSE receivedReplaceable[q]]
  IN /\ replaceableEventAccessTimes' = Forget(times, evicted)
     /\ IF k \in DOMAIN kindMap /\ ~ReplacesReplaceable(e, kindMap[k])
        THEN /\ replaceableEvents' = Put(store, p, kindMap)
             /\ receivedReplaceable' = [since EXCEPT ![p][k] = @ \cup {e}]
        ELSE \E ks \in EvictableKinds(kindMap, k) :
               /\ replaceableEvents' = Put(store, p, Put(Delete(kindMap, ks), k, e))
               /\ receivedReplaceable' =
                    [since EXCEPT ![p] = [i \in StoreKinds |-> IF i \in ks THEN {}
                                                          ELSE IF i = k THEN @[i] \cup {e}
                                                          ELSE @[i]]]
     /\ UNCHANGED <<replaceableUnknownReads, addressable, now>>

\* A read of a key that is not stored leaves an access time as well.
UnknownReads(store, k, reads) == reads + (IF k \in DOMAIN store THEN 0 ELSE 1)

getLatestReplaceableEvent(p) ==
  /\ replaceableUnknownReads' = UnknownReads(replaceableEvents, p, replaceableUnknownReads)
  /\ replaceableUnknownReads' <= MaxUnknownReads
  /\ replaceableEventAccessTimes' = Touch(replaceableEventAccessTimes, p)
  /\ UNCHANGED <<replaceableEvents, receivedReplaceable, addressable, now>>

-----------------------------------------------------------------------------
\* Addressable events.

\* Mutant: no tie-break.
ReplacesIfNewer(new, old) == new.created_at > old.created_at

ReplacesAddressable(new, old) ==
  \/ new.created_at > old.created_at
  \/ new.created_at = old.created_at /\ new.id < old.id

processAddressableEvent(a, e) ==
  LET times == Touch(addressableEventAccessTimes, a)
      evicted == Evicted(addressableEvents, times, a, maxAddressableEvents)
      store == Delete(addressableEvents, evicted)
      since == [b \in Addresses |-> IF b \in evicted THEN {} ELSE receivedAddressable[b]]
  IN /\ addressableEventAccessTimes' = Forget(times, evicted)
     /\ addressableEvents' = IF a \in DOMAIN store /\ ~ReplacesAddressable(e, store[a])
                             THEN store ELSE Put(store, a, e)
     /\ receivedAddressable' = [since EXCEPT ![a] = @ \cup {e}]
     /\ UNCHANGED <<addressableUnknownReads, replaceable, now>>

getLatestAddressableEvent(a) ==
  /\ addressableUnknownReads' = UnknownReads(addressableEvents, a, addressableUnknownReads)
  /\ addressableUnknownReads' <= MaxUnknownReads
  /\ addressableEventAccessTimes' = Touch(addressableEventAccessTimes, a)
  /\ UNCHANGED <<addressableEvents, receivedAddressable, replaceable, now>>

-----------------------------------------------------------------------------
\* The two maps share nothing but the clock.
ReplaceableNext ==
  \/ Tick(StoreHorizon) /\ UNCHANGED storeVars
  \/ \E p \in StoreAuthors :
       \/ getLatestReplaceableEvent(p)
       \/ \E k \in StoreKinds, e \in StoredEvent : processReplaceableEvent(p, k, e)

AddressableNext ==
  \/ Tick(StoreHorizon) /\ UNCHANGED storeVars
  \/ \E a \in Addresses :
       \/ getLatestAddressableEvent(a)
       \/ \E e \in StoredEvent : processAddressableEvent(a, e)

-----------------------------------------------------------------------------
\* Properties.

\* NIP-01: of the events of one address, the newest counts, and of equally new
\* ones that with the lowest id.
Precedes(e, f) ==
  \/ e.created_at > f.created_at
  \/ e.created_at = f.created_at /\ e.id < f.id

\* Whatever the order in which they arrive, the stored addressable event is the
\* one that precedes all others received since the address was last evicted.
AddressableConverges ==
  \A a \in DOMAIN addressableEvents :
    /\ addressableEvents[a] \in receivedAddressable[a]
    /\ \A e \in receivedAddressable[a] \ {addressableEvents[a]} :
         Precedes(addressableEvents[a], e)

\* The stored replaceable event is one of the newest received since its entry began.
ReplaceableIsNewest ==
  \A p \in DOMAIN replaceableEvents : \A k \in DOMAIN replaceableEvents[p] :
    /\ replaceableEvents[p][k] \in receivedReplaceable[p][k]
    /\ \A e \in receivedReplaceable[p][k] : e.created_at <= replaceableEvents[p][k].created_at

\* A map exceeds its limit by no more entries than there were reads of keys that it
\* did not hold (getLatestReplaceableEvent, getLatestAddressableEvent): the access
\* time that such a read leaves can be evicted in the place of one entry, once,
\* whatever is stored, read and evicted in between.
StoresBounded ==
  /\ Cardinality(DOMAIN replaceableEvents) <= maxReplaceableEventPubkeys + replaceableUnknownReads
  /\ Cardinality(DOMAIN addressableEvents) <= maxAddressableEvents + addressableUnknownReads
===============================================================================
