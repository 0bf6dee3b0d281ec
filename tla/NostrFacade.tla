----------------------------- MODULE NostrFacade -----------------------------
(***************************************************************************)
(* What the Nostr class (src/src/nip01/nostr.ts) does besides the          *)
(* subscriptions of NostrClient: callbacks for the events of all relays,   *)
(* publishing to all of them, authentication with one, the merging of what *)
(* they have stored or return, and direct messages.  One kind of relay     *)
(* event stands for all.  How a relay publishes is in RelayPublish; it     *)
(* always answers, and never with an error that is thrown.                 *)
(***************************************************************************)
EXTENDS RelayEventStore, Encryption

CONSTANTS
  FacadeUrls,     \* normalized relay URLs
  Callbacks,      \* functions given to on()
  PublishCalls,   \* calls of publishEvent
  MaxRelayObjects \* bound: relays made

VARIABLES
  facadeRelays,  \* per URL: the relay in the map, 0 for none
  relayUrls,     \* URLs of the relays made, by number
  eventCallbacks,
  attached,      \* per relay made: how often each callback is attached
  publishes,     \* per call: how it stands, whom it waits for, relayResults
  authentication \* the relay and the event of authenticateRelay

facadeVars == <<facadeRelays, relayUrls, eventCallbacks, attached, publishes, authentication>>

NoRelay == 0
NoAuthentication == [stage |-> "none"]

FacadeInit ==
  /\ facadeRelays = [u \in FacadeUrls |-> NoRelay]
  /\ relayUrls = <<>>
  /\ eventCallbacks = {}
  /\ attached = <<>>
  /\ publishes = [q \in PublishCalls |-> [stage |-> "idle"]]
  /\ authentication = NoAuthentication

MappedUrls == {u \in FacadeUrls : facadeRelays[u] # NoRelay}

-----------------------------------------------------------------------------
\* Relays and callbacks

\* A new relay gets every callback that on() has stored.
attachStored == [c \in Callbacks |-> IF c \in eventCallbacks THEN 1 ELSE 0]

addFacadeRelay(u) ==
  /\ u \notin MappedUrls /\ Len(relayUrls) < MaxRelayObjects
  /\ relayUrls' = Append(relayUrls, u)
  /\ facadeRelays' = [facadeRelays EXCEPT ![u] = Len(relayUrls')]
  /\ attached' = Append(attached, attachStored)
  /\ UNCHANGED <<eventCallbacks, publishes, authentication>>

removeFacadeRelay(u) ==
  /\ u \in MappedUrls
  /\ facadeRelays' = [facadeRelays EXCEPT ![u] = NoRelay]
  /\ UNCHANGED <<relayUrls, eventCallbacks, attached, publishes, authentication>>

\* A callback given twice is stored once, but attached again.
on(c) ==
  /\ \A r \in DOMAIN attached : attached[r][c] < 2  \* bound
  /\ eventCallbacks' = eventCallbacks \cup {c}
  /\ attached' = [r \in DOMAIN attached |->
                    IF facadeRelays[relayUrls[r]] = r THEN [attached[r] EXCEPT ![c] = @ + 1]
                                                      ELSE attached[r]]
  /\ UNCHANGED <<facadeRelays, relayUrls, publishes, authentication>>

-----------------------------------------------------------------------------
\* Publishing

publishEvent(q) ==
  /\ publishes[q].stage = "idle"
  /\ publishes' =
       [publishes EXCEPT ![q] =
          IF MappedUrls = {} THEN [stage |-> "over", asked |-> {}, results |-> <<>>, success |-> FALSE]
          ELSE [stage |-> "waiting", asked |-> MappedUrls, results |-> <<>>, success |-> FALSE]]
  /\ UNCHANGED <<facadeRelays, relayUrls, eventCallbacks, attached, authentication>>

\* enforcePublishRateLimit() throws (WindowLimiter).
RefusePublish(q) ==
  /\ publishes[q].stage = "idle" /\ MappedUrls # {}
  /\ publishes' = [publishes EXCEPT ![q] = [stage |-> "refused"]]
  /\ UNCHANGED <<facadeRelays, relayUrls, eventCallbacks, attached, authentication>>

\* Mutant: the answers are counted against the relays of the map.
allAnsweredOfMap(asked, results) == Cardinality(DOMAIN results) >= Cardinality(MappedUrls)

\* Promise.all over the relays that were asked.
allAnswered(asked, results) == DOMAIN results = asked

\* An answer, a timeout or a lost connection settles publish() of one relay,
\* even if that has left the map meanwhile.
RelayAnswers(q, u, success) ==
  /\ publishes[q].stage = "waiting" /\ u \in publishes[q].asked \ DOMAIN publishes[q].results
  /\ LET results == Put(publishes[q].results, u, success)
         over == allAnswered(publishes[q].asked, results)
     IN publishes' = [publishes EXCEPT
          ![q] = [stage |-> IF over THEN "over" ELSE "waiting", asked |-> @.asked, results |-> results,
                  success |-> over /\ \E v \in DOMAIN results : results[v]]]
  /\ UNCHANGED <<facadeRelays, relayUrls, eventCallbacks, attached, authentication>>

\* publishWithDetails counts what publishEvent returns.
publishDetails(result) ==
  [successCount |-> Cardinality({u \in DOMAIN result.results : result.results[u]}),
   failureCount |-> Cardinality({u \in DOMAIN result.results : ~result.results[u]})]

-----------------------------------------------------------------------------
\* Authentication: the relay is looked up before the event is signed.

authenticateRelay(u) ==
  /\ authentication = NoAuthentication /\ u \in MappedUrls
  /\ authentication' = [stage |-> "signing", relay |-> facadeRelays[u], names |-> u]
  /\ UNCHANGED <<facadeRelays, relayUrls, eventCallbacks, attached, publishes>>

\* relay.authenticate(), connected first if it is not, or the signing fails.
Authenticated ==
  /\ authentication.stage = "signing"
  /\ \/ authentication' = [authentication EXCEPT !.stage = "sent"]
     \/ authentication' = [authentication EXCEPT !.stage = "failed"]
  /\ UNCHANGED <<facadeRelays, relayUrls, eventCallbacks, attached, publishes>>

FacadeNext ==
  \/ \E u \in FacadeUrls : addFacadeRelay(u) \/ removeFacadeRelay(u) \/ authenticateRelay(u)
  \/ \E c \in Callbacks : on(c)
  \/ \E q \in PublishCalls : \/ publishEvent(q) \/ RefusePublish(q)
                             \/ \E u \in FacadeUrls, success \in BOOLEAN : RelayAnswers(q, u, success)
  \/ Authenticated

\* publishEvent() reports each relay that was in the map when it was called, and
\* only those, however the map changes meanwhile; it succeeds if one accepted.
\* No callback is missing on a relay of the map, and an AUTH goes to a relay
\* with the URL it names.
PublishIsAccounted ==
  /\ \A q \in PublishCalls : publishes[q].stage = "over" =>
       LET result == publishes[q]
           details == publishDetails(result)
       IN  /\ DOMAIN result.results = result.asked
           /\ result.success <=> \E u \in result.asked : result.results[u]
           /\ result.success <=> details.successCount > 0
           /\ details.successCount + details.failureCount = Cardinality(result.asked)
  /\ \A u \in MappedUrls, c \in eventCallbacks : attached[facadeRelays[u]][c] >= 1
  /\ authentication # NoAuthentication => relayUrls[authentication.relay] = authentication.names

-----------------------------------------------------------------------------
\* Merging.  Of each relay, in the order of the map, its event or NoEvent.

NoEvent == [created_at |-> -1, id |-> -1]

\* Mutant: the first of equally new events stays.
supersedesNewer(event, latest) == latest = NoEvent \/ event.created_at > latest.created_at

supersedes(event, latest) == latest = NoEvent \/ ReplacesAddressable(event, latest)

\* getLatestReplaceableEvent() and getLatestAddressableEvent().
getLatest(found) ==
  FoldLeft(LAMBDA latest, e : IF e # NoEvent /\ supersedes(e, latest) THEN e ELSE latest,
           NoEvent, found)

\* getAddressableEventsByPubkey() and ...ByKind(): of each address, the first of
\* the newest.  An item is an address and an event.
getAddressableEvents(items) ==
  FoldLeft(LAMBDA events, item :
             IF item.address \in DOMAIN events
                /\ ~(item.event.created_at > events[item.address].created_at)
             THEN events ELSE Put(events, item.address, item.event),
           <<>>, items)

\* Sorted by time, then by id; the first is returned.
fetchOne(events) ==
  LET sorted == SortSeq(events, Precedes) IN IF events = <<>> THEN NoEvent ELSE sorted[1]

\* Whatever the order of the relays, the event that precedes all others is
\* returned, the same whether it was stored or is fetched, and of each address
\* the newest.
MergeIsNewest(found, addresses) ==
  LET events == SelectSeq(found, LAMBDA e : e # NoEvent)
      items == [i \in DOMAIN events |-> [address |-> addresses[i], event |-> events[i]]]
      merged == getAddressableEvents(items)
  IN  /\ getLatest(found) = fetchOne(events)
      /\ events # <<>> => \A e \in Range(events) \ {getLatest(found)} : Precedes(getLatest(found), e)
      /\ DOMAIN merged = {i.address : i \in Range(items)}
      /\ \A i \in Range(items) :
           /\ merged[i.address].created_at >= i.event.created_at
           /\ [address |-> i.address, event |-> merged[i.address]] \in Range(items)

-----------------------------------------------------------------------------
\* Direct messages

publishDirectMessage(content, recipient, secret, tags) ==
  createSignedEvent(createDirectMessage(content, recipient, secret, tags), secret)

\* Mutant: with the key of the recipient.
otherPartyNamed(event) == TagsNamed(event.tags, "p")[1][2]

otherParty(event) == event.pubkey

\* Nostr.decryptDirectMessage(): a message to somebody else only causes a warning.
readDirectMessage(event, secret) ==
  LET named == TagsNamed(event.tags, "p")
  IN  IF event.kind # NostrKind.DirectMessage \/ named = <<>> THEN {Refused}
      ELSE IF Element(named[1], 2) = "" THEN {Refused}
      ELSE IF event.content[2] = {PublicKeyOf[secret], otherParty(event)} THEN {event.content[3]}
      ELSE {Refused, Garbage}

\* The recipient reads what was sent, and nobody else does: not even the sender,
\* since the message is taken to come from the other party.
DirectMessageReadsBack(content, recipient, secret, tags, reader) ==
  LET event == publishDirectMessage(content, recipient, secret, tags)
  IN  event # Refused =>
        IF PublicKeyOf[reader] = recipient THEN readDirectMessage(event, reader) = {content}
        ELSE content \notin readDirectMessage(event, reader)
=============================================================================
