# Specifications of SNSTR

TLA+ models of SNSTR, a TypeScript library of Nostr clients, relays and signers, with the
TLC runs that check them and TLAPS proofs. Paths are relative to the repository, whose root
is `src/` (so the implementation is `src/src/`, its tests `src/tests/`).

The modules describe what the code does. Where the code and one of its own comments or
documents disagree, the modules follow the code and [Disagreements](#disagreements) lists the
point. One of them has a property that states the comment and a run in which TLC finds it
violated (`Base64Fallback`); for the others there is no run.

- [The system](#the-system): inventory of the components
- [Modules](#modules): how state and actions correspond to the code
- [Runs](#runs), [Bounds](#bounds), [Fairness](#fairness), [Disagreements](#disagreements)
- [Proofs](#proofs)
- [Not modelled](#not-modelled) and the [Plan](#plan)

To check: `tlc -config X.cfg M`, where `PROJECT.json` lists the module `M` of each `X.cfg`,
and `tlapm` for each `...Proofs.tla`.

## The system

SNSTR runs on one JavaScript thread. What makes it hard is therefore not shared memory but
*when* things run: timers, socket callbacks, promise reactions (microtasks, which all run
before the next timer or socket event), `await`s in the middle of methods, and user
callbacks that call back into the library while one of its methods is half done.

### Components

| component | state | operations | interacts with | what is hard | what makes it correct |
|---|---|---|---|---|---|
| **Relay, connection** `nip01/relay.ts` | socket, `connected`, attempt and disconnect generations, the connect promise, shutdown observer and finalizer, reconnect timer and counter | `connect`, `disconnect`, `setAutoReconnect`, `setMaxReconnectAttempts`, socket handlers, timeout, reconnect timer | WebSocket (calls, callbacks), `utils/websocket.ts` (observer), user's event callbacks | handlers of old attempts, timeout against open, disconnect in flight, re-entrant callbacks | every connect settles; disconnect is final; no stale state; no leaked socket; retries go on up to the limit |
| **Relay, subscriptions** | subscriptions, event buffers and access times, pending validations, pending EOSE, timers | `subscribe`, `unsubscribe`, EVENT, EOSE, CLOSED, flush interval, eose timeout | validation (asynchronous), the connection, user's `onEvent`/`onEOSE` | EOSE against validation, unsubscribing in a callback, limits, lost connections | at most once, EOSE after its events, nothing lost but to a limit, unsubscribe is final |
| **Relay, publishing** | handlers of OK, Error and Disconnect per call, timers | `publish`, `authenticate` | the connection, `triggerEvent` | state checked before an `await`; handlers that remove themselves | every call settles once, success only if acknowledged, no handler left over |
| **Relay, stored events** | replaceable and addressable events, access times | processing of events, `getLatest...` | subscriptions (each valid event) | any order of arrival, ties, eviction | NIP-01's preferred event is kept; limits; least recently used goes first |
| **RelayPool** `nip01/relayPool.ts` | relays by URL; per call: counts, flags, timer | `addRelay`, `removeRelay`, `close`, `subscribe`, `querySync`, `get`, `publish` | several Relays | partial failure, merged EOSE, races of EOSE, timeout and return | one EOSE after all relays; queries resolve; nothing left open |
| **Nostr** `nip01/nostr.ts` | relays, subscriptions, rate-limit buckets, callbacks | `addRelay`, `publishEvent`, `subscribe`, `fetchMany`, `getLatest...`, `authenticateRelay` | Relays | rollback of a failed subscribe, relays changing during a fetch | all or nothing; counts match; limits hold |
| **Ephemeral relay** `utils/ephemeral-relay.ts` | sessions, subscriptions, cache | `start`, `close`, REQ, EVENT, CLOSE, `store` | WebSocket server, in-memory transport, shutdown observers | events in flight at close, OK before store | stored events match filters and limits; close drains |
| **In-memory transport** `utils/inMemoryWebSocket.ts` | socket pairs, registry by port | send, close, connect | Relay, ephemeral relay | both sides close, microtask order | in order, no delivery after close |
| **NIP-46 client** `nip46/client.ts`, `simple-client.ts` | pending requests, connection, auth windows | `connect`, `disconnect`, `sendRequest`, responses | Nostr, bunker | timeout against answer, disconnect during connect | each request settles once and leaves nothing |
| **NIP-46 bunker** `nip46/bunker.ts`, `simple-bunker.ts` | connected clients, permissions, seen requests, challenges, timers | `start`, `stop`, requests | Nostr, client, rate limiter | replay window, stop during a request | only authorized clients; each request once |
| **NIP-46 rate limiter** `nip46/utils/rate-limiter.ts` | request history per client | `isAllowed`, clean-up | bunker | three windows at their edges | never more than the limits in any window |
| **NIP-47 client** `nip47/client.ts` | initialization, pending requests, capabilities | `init`, `disconnect`, requests, notifications, retries | Nostr, service | generations, timeout against answer, retries of payments | each request settles once; nothing after disconnect |
| **NIP-47 service** `nip47/service.ts` | subscription, encryption scheme per request | `init`, `disconnect`, requests, notifications | Nostr, wallet | expiration during execution, repeated requests | expired requests are refused, replies match requests |
| **Events and validation** `nip01/event.ts`, `validation.ts` | none | create, validate | everything | boundary cases | agreement with NIP-01 |
| **Formats** NIP-02, 05, 07, 09, 10, 11, 17, 19, 21, 29, 42, 50, 56, 57, 65, 66, 70, 86, signers | little or none | builders, parsers, HTTP look-ups | | parsing | round trips, precedence |
| **Cryptography** NIP-04, NIP-44, `utils/crypto.ts` | none | encrypt, decrypt | | out of scope | |
| **Utilities** URLs, limits, logger, timers | none | normalize, validate | everything | | idempotent normalization |

`PROJECT.json` lists the files of each, the hazards found in them at their lines, and the
properties that cover each hazard.

## Modules

```
   RelayPool   NostrClient         over relays reduced to "connected" and "holds"
      |            |
   Relay  =  RelayConnection
             RelaySubscription  --implements-->  SubscriptionFeed
             RelayPublish      (over Arrays)
             RelayEventStore   (over Clock, Arrays)

   EphemeralRelay                  relay and in-memory transport   (over Arrays)

   RemoteSigning  =  Nip46Client + Nip46Bunker      over Nip46Wire
   WalletConnect  =  Nip47Client + Nip47Service     over Nip47Wire

   IndependentParts  =  RateLimiters, RelayEventStore, GroupState, RelayInfoCache   (over Clock)
                        SimpleSigning, NostrFacade, RelayManagement, Nip57 (the zap client)
                        conversions: Events (over Arrays), UserEvents, GroupEvents, Nip19,
                          Nip44, Nip57, Nip66, Encryption

   Base64Fallback                  the encoder without btoa and Buffer
```

One Relay is a single class whose four jobs share little state: subscriptions and publishes
see of the connection only whether it is there. Each job has a module, in which the other
jobs appear as a few actions (`link` in `RelaySubscription` and `RelayPublish`). `MC...`
modules only give the constants of a run their values. Each `...Proofs` module extends the
module it is about. `ComponentProofs` is about `Arrays`, `RelayPublish` and `EphemeralRelay`;
`IndependentPartsProofs` about everything in `IndependentParts`.

Every module has the same layout: constants and their assumptions, variables under the
code's names, one action per method or handler, `Next`, fairness, properties. Definitions
introduced by the comment "Mutant" are plausible mistakes in the definition that follows;
they are not used by the specifications and show, one at a time, that a property notices.

### RelayConnection

One JavaScript handler is one action, unless it fires an event to user callbacks. Then it is
split: what precedes `triggerEvent` pushes a frame onto `frames`, the matching `...Return`
action does the rest. If the constant `Reentrant` holds, user calls may run in between, as
they may in the code.

| code (`relay.ts`) | model |
|---|---|
| `connectionAttempt`, compared for equality only | `connectionAttempt`: the attempt that is still current, or none. Identities in `Attempts` are used again when nothing refers to them (`Fresh`), so the model never runs out of them |
| `disconnectGeneration` captured by an attempt | `superseded`: attempts during which `disconnect()` was called |
| `ws`, observer, finalizer, promise | the attempt each belongs to |
| the WebSocket of an attempt | `socket[a]`; "detached" when its handlers were replaced by no-ops |
| `connect()`, `disconnect()`, `set...()` | `Connect`, `Disconnect`, `SetAutoReconnect`, `SetMaxReconnectAttempts` |
| `onopen`, `onclose`, `onerror`, timeout | `SocketOpen`, `SocketClose`, `SocketError`, `ConnectionTimeout` and their `...Return` |
| `finalizeClose` | `FinalizeCloseBegin` (up to the event), `FinalizeCloseReturn` |
| shutdown observer (`utils/websocket.ts`) | `ObserverNotified` |
| `.catch()` and the clean-up `.then()` of the promise | `ConnectRejected`, `PromiseCleanup`: microtasks, which hold back timers |
| `scheduleReconnect` and its timer | `scheduleReconnect`, `ReconnectTimer`; the delay is abstracted |

`wanted` is a history variable: the user's last call was `connect()`.

### RelaySubscription and SubscriptionFeed

An EVENT message starts a validation; its two promise reactions are `EventValidated` (buffer
the event) and `ValidationCounted` (count it off, flush when it was the last, pass on a
pending EOSE). A flush takes the whole buffer and hands it over in `OnEvent` steps, during
which `running` says what to continue with: `FlushReturn` for the flush interval, then
`FinalizeEose` and `EoseReturn` for an EOSE. Buffers are sets and the order within one flush is left
out; access times have the resolution of `Date.now()`, so any buffer with an access time may
be the one that is evicted.

`SubscriptionFeed` is what a caller is promised: an event that arrived is handed over at most
once or given up, and onEOSE is called once per EOSE, only after what preceded that EOSE is no
longer waiting. `RelaySubscription` implements it under the mapping `Waiting` (events being
validated, buffered or in the batch being handed over) and `EoseDue`. Event and EOSE of
a subscription that ended may still be given up or delivered: the code hands over the rest of
a batch whose callback unsubscribes, and the abstract specification allows it.

### RelayPublish

`sendClientMessage` with its three handlers and its timer. `Visited` is the walk of
`triggerEvent` over the array from which each visited handler removes itself. `link` adds
"closing" (`connected` but the socket's `readyState` no longer OPEN) to the states of the
connection. `accepted` is a history variable.

### RelayEventStore

Both maps are partial functions; an access-time map is a sequence, because the insertion
order of a JavaScript `Map` decides between equally old entries. `now` is `Date.now()`.
`received...` is history: the events that came since the entry began. So is `...UnknownReads`:
how often a key was read that the map did not hold, which leaves an access time without an
entry. An eviction that takes such a key for the oldest removes no event.

### RelayPool

A relay is whether it is connected and which calls it holds a subscription of. `subscribe()`
is `Subscribe` (ensureRelay of every URL), `EnsureRelay` (one `connect()` settles, with a
result that the code does not look at), `SubscribeAll` (after `Promise.all`) and
`SubscribeReturns` (its promise is delivered; `querySync` stores the subscription and arms
its timeout). The constant `EarlyEose` says whether a relay's answer can come between the
last two; over a network it cannot, over the in-memory transport it can, since that queues
the answer as a microtask while `relay.subscribe()` still runs.

### NostrClient

The relays of the map are as in `RelayPool`, but the map itself changes during calls.
`subscribeDetailed` and `fetchManyDetailed` are one action each (they do not await); `Refuse`
stands for the rate limit and invalid filters; `cleanup` is the code's closure of that name,
reached from `ReceiveEose`, `FetchTimeout` and `Abort`. fetchMany counts EOSE messages and
compares the count with the size of the map at that moment (`Enough`); `leavers` marks the calls for
which the two have come apart because a relay that had answered was removed.

### NostrFacade

What else the class does: `attached` counts how often each callback of `on()` hangs on each
relay that was ever made, so that removing a relay and adding it again can be told apart from
keeping it. `publishEvent` asks the relays that are in the map (`asked`); `RelayAnswers` is one
`relay.publish()` settling, after which the map may look different. `authenticateRelay` holds the relay it
looked up while the event is signed. The merging of stored and of fetched events and direct
messages are operators.

### EphemeralRelay

A socket is a pair of ends (`client`, `server`). The server handles what the client sends at
once; what the server sends and both ends' close events are tasks of one first-in first-out
queue, `microtasks`, as in `utils/inMemoryWebSocket.ts`. `OnReq`, `OnClose` and `OnEvent` are
the session's handlers; `Validated` is the code after the one `await`, that of
`validateEvent`: acknowledge, store, forward. `Purge` is the timer that empties the
cache, `Close` and `CloseFinished` the shutdown with its promise. A filter is the set of events
it matches and a limit; how filters match is in `Events`. What one handler
sends to one end is one task. `told`, `lost` and `arrived` are history.

### RemoteSigning

`Nip46Client` and `Nip46Bunker` over `Nip46Wire`, whose events may arrive late, repeatedly, in
any order or never. A caller of the client is at one of the points where its call waits: for
the relays (`connectRelaysSettled`, `connectBunkerRelaysSettled`), for an answer (`settle`,
`requestTimeout`), or for a lost relay (`publishReconnected`). `cleanup` is the code's method
of that name, run by `disconnect()` and by a `connect()` that fails. The bunker handles a
request in one action, since its awaits are cryptography only; `used` is the map of request ids
with its two minutes reduced to "new", "old" and forgotten. Its operator approves challenges
(`resolveAuthChallenge`) when it likes. `executions` and `approved` are history.
`SimpleSigning` does the same for the two simple classes, which make a new key pair with every
`connect()` and check no request ids.

### WalletConnect

`Nip47Client` and `Nip47Service` over `Nip47Wire`. `init()` is `init`, `initRelaysSettled`,
`discovered`; its generation is kept per caller (`born`) and compared (`isCurrent`). A request
goes through "sealing" (asynchronous encryption), registration, publication and the wait for
an answer; `withRetry` is `retry`. The service keeps the encryption scheme of each
request in `stored` until it is answered, expires or the entry is dropped; the wallet may take
any time (`walletReturns`). `sendResponse` removes the entry before it encrypts and publishes; if
one of the two throws (`walletReturnsUnsent`, `handleEventRefused`), the request counts as `unsent`, and the
error that the catch clause of `handleEvent` may still send finds no entry. `dropped` and `unsent` are
history. `MaxFaults` counts what goes wrong: disconnections, lost relay
connections, a restarted service, repeated deliveries, dropped entries, answers refused by the
rate limit. A result too long for NIP-44 is no fault.

### IndependentParts

Parts that share no state at all are composed in one module in which a behaviour picks one of
them (`part`) and leaves the others alone: what one run would check of each is checked
together, and nothing is added or lost by it.

| part | code | model |
|---|---|---|
| `requestLimiter` | `nip46/utils/rate-limiter.ts` | histories of time stamps; `VerdictIsExact` compares each verdict with a count over the complete history |
| `windowLimiter` | `checkRateLimit` and its states in `nip01/nostr.ts` | fixed windows, reset and reconfiguration |
| `replaceableEvents`, `addressableEvents` | stored events of a Relay | see above; the two maps share only the clock |
| `groupState` | reducers of NIP-29 | a relay publishes snapshots and moderation events; the client has some of them, in any order |
| `infoCache` | `nip11/index.ts` | overlapping fetches, failures, clearing; an answer carries its date |
| `simpleSigning` | `nip46/simple-*.ts` | see above |
| `zapClient` | `nip57/client.ts` | the subscription of `collectZapReceipts`, its early EOSE and its timeout |
| `facade` | `nip01/nostr.ts` | see above |
| `management` | `nip86/index.ts` | calls that are signed, sent and read under one timer |

All other parts are conversions. They have no state: the initial states are the samples of
`MCIndependentParts`, and the invariants try the conversion on each.

| module | what is modelled |
|---|---|
| `Events` | builders and their checks, clock drift, ids and signatures, the validators of clients and of the ephemeral relay; filters: `validateFilter`, NIP-50, and what the ephemeral relay matches |
| `UserEvents` | NIP-02, 09, 10 (threads), 42, 56, 65 and 70: builders, parsers and predicates |
| `GroupEvents`, `Nip66`, `Nip57` | builders and parsers; validation of receipts, totals and invoices; zap splits, with weights as `parseInt` reads them, `NaN` included |
| `Nip19` | TLV entities byte by byte, with the limits of encoder and decoder |
| `Nip44`, `Encryption` | base64, padding and payload limits, and who can read what |

In `Events` and `Encryption` a hash is what it is taken of, a signature names the key and what
it signs, and a ciphertext its key and plaintext: forging is altering without the key, and
`Garbage` is what decrypting with a wrong key gives. Texts are single tokens, with tables
(`CanonicalUrl`, `NumberOf`, ...) for what the code's parsers make of them, except in `Nip19` and
`Nip44`, where bytes and lengths matter.

## Runs

Passing runs:

| run | shows |
|---|---|
| `RelayConnection` | three attempts at once, all settings, callbacks that call back: `ConnectedIsLive`, `NoSocketLeak` |
| `RelayConnectionLive` | callbacks that do not call back, reconnection on with a fixed limit: `PendingIsOwned`, `NoReconnectAfterDisconnect`; every `connect()` settles (`ConnectSettles`); a wanted connection is made or given up after the retries allowed (`ConnectOrGiveUp`) |
| `RelaySubscription` | two subscriptions that compete for one buffer of one event, with re-entrant callbacks: `NothingMissed`, `UnsubscribeIsFinal`, `ImplementsFeed` |
| `RelaySubscriptionEose` | a valid and an invalid event and two EOSE: `CountsMatch`, and with fairness `EoseReachesCaller` (after each EOSE a further call of onEOSE, unless the subscription ends), `AutoCloseEnds` |
| `RelayPublish` | `HandlersMatch`, `SuccessIsAcknowledged`, and with fairness `PublishSettles` |
| `RelayPool` | `EoseIsComplete`, `OverIsReleased`, and with fairness `QueryResolves` |
| `NostrClient` | `NothingLeftBehind`, and with fairness `FetchSettles` |
| `EphemeralRelay` | the cache holds the preferred events and nothing else, whatever the order (`CacheConverges`); no event that is stored and wanted falls between the stored ones of a REQ and the live ones (`ViewCoversCache`); a relay that closed has no session or client left (`CloseDrains`) |
| `RemoteSigning` | pending requests are exactly the calls that wait (`PendingMatches`); a repeated request is executed once (`ExecutedOnce`); a session was approved (`SessionIsApproved`); a connected client was accepted by the bunker (`ConnectedIsAccepted`) |
| `WalletConnect` | an initialized client is subscribed, whatever `disconnect()` interrupted (`InitializedIsSubscribed`); pending requests are awaited (`PendingIsAwaited`); a request that was answered has an answer that can be read, unless its scheme was dropped or a response could not be sent (`AnswerIsReadable`) |
| `IndependentParts` | `LimitsAreExact`, `AddressableConverges`, `ReplaceableIsNewest`, `StoresBounded`, `GroupIsReconstructed`, `ServedIsFresh`, `ConnectedHasSession`, `CallsEndCleanly` (zap receipts, publishing, management), `ForgeriesRefused` (events, receipts, gift wraps), `ConversionsReadBack` (every conversion) |

The run `Base64Fallback` ends in a violation; see [Disagreements](#disagreements).

Modules state some properties that no run lists, because a stronger or neighbouring one is
checked already: the `TypeOK` of each module, `NotStranded`, `RetriesWithinLimit`,
`NothingHeldBack`, `SentWhenOpen`, `ResultIsFinal`, `FetchIsComplete`, `NothingCutOff`,
`CloseSettles`, `ConnectedHasSigner`, `OneInitialization`, `SchemeIsSupported`. They hold in the same
instances.

### Bounds

- *Attempts.* Three: one that is current, one whose socket is still closing, one whose
  rejection is still queued; two in the run with liveness. Identities are reused, so the
  number of reconnections is unbounded. `RetryCap` caps `reconnectAttempts` where it is no
  longer compared with anything (limit 0 means unlimited). Limits 0 and 1 cover "unlimited"
  and "bounded"; the liveness run has limit 2, so that a retry can follow a retry, and a cap
  above it, so that one retry too many would show.
- *Subscriptions.* Two, limits of one buffer and one event: the smallest at which
  one subscription evicts another and an event pushes out an event. The second run has one
  subscription, two events and two EOSE, so that an EOSE falls before, between and after
  validations.
- *Publishes.* Three, two with the same event: the smallest in which a skipped handler hides
  behind a visited one, and another call is unaffected.
- *Event store.* More pubkeys, kinds and addresses than the limits (3, 2 and 3 for 1, 1 and 2), two
  timestamps, two ids, a clock of two instants: ties of every kind and an eviction that has
  a choice. `MaxUnknownReads = 1`: one read of a key that is not stored, with
  three pubkeys for a limit of one, so that a second entry too many would show.
- *Client.* Three relays, a fetch and a subscription: with two, a removed relay would leave
  no two others to compare the count with.
- *Pool.* Two good URLs and one invalid, a query and a subscription. `MaxEose = 1` in the
  passing runs is an assumption about relays: one EOSE per REQ; the code counts EOSE
  messages, not relays.

- *Ephemeral relay.* Two connections, one subscription id and four events: two that tie for
  one key, an invalid one that is newer, and one that replaces nothing; at most three tasks in the queue, and two starts: an event in flight
  can outlive a restart.
- *Remote signing.* Three requests by two callers: connect, disconnect and an operation, or
  two connects. One lapse: a restart of the bunker, or two minutes.
- *Wallet.* Two requests by two callers, one of which expires, one retry, one fault; the proofs
  cover any number.
- *Zap splits.* Up to three receivers, weights that are absent, zero, small, negative, followed by other
  text, and no number; amounts that divide and that do not.
- *Limiters.* The NIP-46 windows in proportion (1, 2 and 5 ticks with 2, 3 and 4 requests; the
  longest, `HourSpan`, is how long histories are kept),
  followed for nine ticks; two limits for the fixed window, which may change at any time.
- *Groups.* One pubkey, one role and four events, with two ids: a snapshot, moderation
  events on either side of it and a request; pubkeys do not affect each other.
- *Relay information.* Two fetches, a time to live of 2, five instants; the proof has no bounds.
- *Facade.* Two URLs and three relay objects, so that a URL can be removed and added again,
  one publish: publishes do not affect each other. *Management:* two calls, two signers.
- *Conversions.* Samples on both sides of every limit in the code (entries, lengths, kinds,
  paddings), and for builders every combination of the options given, absent, empty or
  malformed. Large limits are replaced by small ones where only their comparison matters
  (`MAX_TAG_COUNT`, `MAX_FILTER_VALUES`).

`CHECK_DEADLOCK FALSE` stands where the bounded system really stops: every subscription id
or call has been used and nothing is left to arrive.

### Fairness

Only what a JavaScript event loop guarantees is assumed: callbacks return, queued microtasks
run, due timers fire, and a socket that was closed reports it. Strong fairness is used where
an action can be blocked for a moment by another callback: the queues are first-in
first-out, so a turn is not lost. In `RelayConnection`, user code is assumed not to keep the
microtask queue from ever draining. Nothing is assumed of the relays at the other end: they
may never answer. `RelayPublish` and `RelayPool` assume that `connect()` settles, which
`RelayConnection` shows when callbacks do not call back. `EphemeralRelay`
assumes that queued microtasks run and validations end; `NostrClient` that timers fire.
`RemoteSigning`, `WalletConnect` and `IndependentParts` check safety only and assume nothing.

### Disagreements

`Base64Fallback`: without `btoa` and `Buffer`, both encoders (`nip44/index.ts:97`,
`nip04/web.ts:66`) never write padding, since they compare the index after it has stopped at the
end of the input; the comments at `nip44/index.ts:82` and `nip04/web.ts:55` call them RFC 4648
compliant. An IV of 16 bytes reads back as 18, and decryption says "Invalid IV length".

The modules follow the code in these points too, for which there is no run.

Relay, pool and client:

- `disconnect()` inside a Disconnect callback does not stop the reconnection: `finalizeClose`
  schedules it after the callback (`relay.ts:267`; `relay.ts:541` says never to).
- `connect()` inside the Disconnect callback of a `disconnect()` never settles, since
  `finalizeClose` invalidates the new attempt (`relay.ts:262`). `PendingIsOwned`,
  `NoReconnectAfterDisconnect` and `ConnectSettles` therefore need callbacks that do not call back.
- A lost connection settles only every other waiting publish at once: handlers remove
  themselves from the array being walked (`relay.ts:1089`; `types/nostr.ts:690`).
- Reading keys that are not stored creates access times, so that a later eviction removes nothing
  and a store outgrows its limit (`relay.ts:1442`, `1457`; the comments at 1322 and 1396 say "Ensure we don't exceed").
  `StoresBounded` states what does hold: each such read costs at most one entry too many.
- Where `Date.now()` has not advanced, the eviction that makes room for a new key may take that key for the
  oldest, if it was read before: the event is stored without an access time and is not evicted itself
  until its key is accessed again.
- An EOSE that precedes the return of `subscribe()`, as the in-memory transport allows,
  leaves the query's subscription open (`relayPool.ts:362`; `relayPool.ts:356`). The constant
  `EarlyEose` of `RelayPool` allows it.
- After a reconnection nothing is requested again (`relay.ts:276`); `nip01/README.md:147`
  promises "Proper subscription management across reconnects".
- If a relay that has sent EOSE is removed during a fetch, the fetch ends one answer too
  early (`nostr.ts:823`). If one is removed or sends CLOSED before its EOSE, the fetch waits
  for its timeout.
- `subscribe()` adds a buffer without regard to the limit (`relay.ts:873`), and the empty
  buffer of a CLOSED subscription stays (`relay.ts:1222`).
- Of two equally new replaceable events the first to arrive stays, whatever its id
  (`relay.ts:1339`; compare the remark at 1263). `ReplaceableIsNewest` says no more than that.
- A query without valid relays arms its timeout after it has resolved (`relayPool.ts:412`);
  a second EOSE of one relay counts for another (`relayPool.ts:261`); when all connections
  fail, onEOSE is not called (`relayPool.ts:154`; the comment at 310 and
  `tests/nip01/relay/relayPool.test.ts:475` disagree about this).
- `getAddressableEventsBy...` keeps the first relay's event of equally new ones, while
  `getLatest...` takes the smallest id. A callback given to `on()` twice hangs twice on the relays of
  that moment and once on later ones. `authenticateRelay` may reconnect a relay that was removed
  while the event was signed. A sender cannot read its own message back with
  `decryptDirectMessage`, which takes the other party to be the author (`nostr.ts:603`).
- `retryAfter` says "seconds until next request allowed" (`rate-limiter.ts:14`), but windows
  are inclusive: a request exactly that much later is still refused.

Ephemeral relay:

- An event whose validation is awaited when `close()` runs is stored after the cache was
  cleared, and served after a restart (compare
  `tests/utils/ephemeral-relay-lifecycle.test.ts:447`).
- What a client sends from `onopen` is lost in memory; regular events published twice are
  cached twice; an outdated replaceable event is not stored but broadcast; of equally new ones the
  largest id wins, not NIP-01's lowest.

NIP-46:

- `connect()` is documented to return "ack" or the secret; it also resolves with
  "auth_required" and counts as connected. `handleAuthChallenge` is never called.
- Connecting to another bunker without `disconnect()` keeps the cached public key of the user. A request
  that waits for a reconnection leaves the relay open after the clean-up. `disconnect()` during
  the relay phase of `connect()` does not stop it. After a lost relay connection client
  and bunker stay deaf, for nothing subscribes again.
- A second `start()` leaks an interval; `stop()` ends the clean-up of the rate limiter for good;
  `resolveAuthChallenge` removes only the first of several challenges of a client.
- `SimpleNIP46Bunker` does not check for replays. A second `connect()` of the simple client
  leaks the old subscription, and `disconnect()` ends only the first of its ids.

NIP-47:

- A request that two relays deliver is executed twice; the answer to the second copy falls
  back to NIP-04, as does one given after `disconnect()`, the time to live or the limit of
  1000 entries dropped the scheme, and a NIP-44 client ignores it until its timeout. `AnswerIsReadable`
  excludes dropped schemes.
- `sendResponse` removes the scheme of a request before it encrypts (`service.ts:692`). NIP-44 takes no
  more than 65535 bytes (`nip44/index.ts:221`); a longer result, such as a long list of transactions,
  throws, and the catch clause (`service.ts:639`) answers with an error for which no scheme is known, in NIP-04
  (the comment at `service.ts:694` says "Encrypt with the same scheme as the request"). A NIP-44 client
  cannot read it and waits for its timeout. The same happens, or there is no answer at all, if the rate
  limit refuses to publish a response (`nostr.ts:474`). `AnswerIsReadable` excludes requests with a response that
  could not be sent.
- "expired" may be answered while the payment goes on, and `withRetry` asks again under a new id
  after timeouts and expiration.
- An error answer or `disconnect()` while `publishEvent` is awaited rejects a promise nobody
  handles yet. `disconnect()` before registration lets a request be published later, when the
  relays are connected again. `init()` of the service is not guarded against `disconnect()`. A
  result of null is refused, so the call times out.

Conversions:

- NIP-19: a value longer than 255 bytes is encoded with its length modulo 256
  (`tests/nip19/validation.test.ts:140` expects it to be accepted) and does not read back, nor do kinds from
  2^31 on; the kind of an nevent is not encoded. `ReferenceReadsBack` is stated for the others.
- NIP-44: the MAC does not cover the version byte, so payloads marked version 0 or 1 decrypt
  like version 2. NIP-04: node detects a wrong key only by its padding; the web version accepts an IV
  with unused bits set, node refuses it.
- NIP-17: `verifySignature` is asynchronous and not awaited, so "Invalid seal signature" is
  never thrown; that a rumor is its author's rests on the encryption of the seal.
- NIP-57: `validateZapReceipt` does not compare the amount with the invoice
  (`client.ts:479` says so) and checks the signature of the request against the id it carries;
  `getTotalZapsReceived` counts a receipt from two relays twice; an anonymous zap always
  fails, since the all-zero public key is refused (`nip57/README.md:142` documents it).
- Zap splits: a weight that is no number becomes `NaN` (`nip57/index.ts:382`), and if another one is
  positive, so do the total and every amount (`411`, `418`); `nip57/README.md:288` promises "zap splitting according
  to weight specifications". Negative weights are added as they are, so that amounts may be negative,
  exceed the whole, or be none at all. `SplitIsFair` is stated for weights that are numbers and not negative.
- NIP-09: an addressable event with an empty `d` tag is never matched by its address, since
  `validateArrayAccess` returns the element. NIP-66: the builder takes frequencies and timeouts
  that the parser drops, and refuses the empty types that the parser returns. NIP-65: entries that are
  neither read nor write disappear. NIP-29: an added `h` or `d` tag of another group makes
  that group's filters match an event that its reducers drop; within one second ids decide, and
  `reduceGroupMembershipStatus` can say "granted" for a user a newer snapshot leaves out.
- Events: `createDirectMessage` with a further `p` tag makes an event the validator refuses;
  `createAddressableEvent` allows identifiers with ":", references to them are refused;
  `createEvent` allows kinds above 65535.
- NIP-11: an older, slower fetch overwrites a newer entry, and a fetch in flight when the cache
  is cleared fills it again. NIP-86: the timer starts after signing, so that a signer
  that never answers leaves the call pending; a body of `null` raises a TypeError.

## Proofs

The theorems hold for every value of the constants that the named assumptions allow: any set
of subscriptions, calls or relays, any limits and windows, and no bound that a run needs. Each
component's argument is an invariant that its steps preserve, because hardly one of the
properties is preserved on its own. TLC checked each such invariant on the component's run
before it was proved.

| module | theorem: property | inductive invariant |
|---|---|---|
| `RelayConnectionProofs` | `TypeCorrect`: `TypeOK`; `ConnectedLive`: `ConnectedIsLive`; `NoLeak`: `NoSocketLeak` | `LiveInv` |
| | `PendingOwned`: `PendingIsOwned`; `DisconnectIsFinal`: `NoReconnectAfterDisconnect` | `LiveInv` and `QuietInv`, which imply `IInv` |
| `RelaySubscriptionProofs` | `CountsAlwaysMatch`: `CountsMatch`; `NothingIsMissed`: `NothingMissed`; `UnsubscribeFinal`: `UnsubscribeIsFinal`; `FeedIsImplemented`: `ImplementsFeed` | `SubInv` |
| `RelayPoolProofs` | `EoseAlwaysComplete`: `EoseIsComplete`; `OverAlwaysReleased`: `OverIsReleased`; `OnEoseOnce` | `PoolInv` |
| `NostrClientProofs` | `NothingStaysBehind`: `NothingLeftBehind`; `FetchAlwaysComplete`: `FetchIsComplete` | `ClientInv` |
| `RemoteSigningProofs` | `PendingAlwaysMatches`: `PendingMatches`; `ExecutesOnce`: `ExecutedOnce`; `SessionApproved`: `SessionIsApproved`; `ConnectedAccepted`: `ConnectedIsAccepted` | `SigningInv` |
| `WalletConnectProofs` | `InitializedAlwaysSubscribed`: `InitializedIsSubscribed`; `PendingAlwaysAwaited`: `PendingIsAwaited`; `AnswerAlwaysReadable`: `AnswerIsReadable`; `SchemeAlwaysSupported`: `SchemeIsSupported`; `OneAttemptAtATime`: `OneInitialization` | `WalletInv` |
| `ComponentProofs` | `HandlersAlwaysMatch`: `HandlersMatch`; `SuccessAcknowledged`: `SuccessIsAcknowledged`; `SendsOnlyWhenOpen`: `SentWhenOpen` | `PublishInv` |
| | `CacheConvergesAlways`: `CacheConverges`; `ViewCoversCacheAlways`: `ViewCoversCache` | `EphemeralInv` |
| | `CloseDrainsAlways`: `CloseDrains`; `NothingCutOffAlways`: `NothingCutOff` | `EndsInv`, `QueueInv` |
| `IndependentPartsProofs` | `LimitsExact`: `LimitsAreExact` | `LimiterInv`, `WindowInv` |
| | `AddressableAlwaysConverges`: `AddressableConverges`; `ReplaceableAlwaysNewest`: `ReplaceableIsNewest`; `StoresAlwaysBounded`: `StoresBounded` | `AddressableInv`, `ReplaceableInv`, `BoundedInv` |
| | `InfoFresh`: `ServedIsFresh` | `InfoInv` |
| | `ConnectedAlwaysHasSession`: `ConnectedHasSession` | `SimpleInv` |
| | `CallsAlwaysEndCleanly`: `CallsEndCleanly` | `ZapInv`, `ManagementInv`, `FacadeInv` |
| | `GroupAlwaysReconstructed`: `GroupIsReconstructed` | `GroupInv` |
| | `ForgeriesAlwaysRefused`: `ForgeriesRefused`; `SecretsAlwaysReadBack`: four parts of `ConversionsReadBack` | samples never change |

Every theorem of `IndependentPartsProofs` is about `Spec` of `IndependentParts`, in which the parts
run side by side and share at most the clock, as in its run.

### Assumptions

Each module names what it assumes of its constants (`ASSUME ...Assumption`), which is their
types, that a "none" is no member of the set it is added to, and that sets are finite where
something is counted: the callers of the signing client, the URLs of pool and client, the windows of the
limiter, the sockets of the ephemeral relay. `SimpleAssumption` says besides that nobody needs a permission to
connect or disconnect. `ConversionAssumption` says what `normalizeRelayUrl` promises, that secret keys have
public keys, and that the two days by which messages are predated do not reach beyond the epoch;
`SamplesAssumption`, that samples have the types the builders take and that what a property is about was
made at all (a sample for which the builder throws has no event that could be forged). The run `IndependentParts`
evaluates both for its samples. Some theorems have a hypothesis besides; each but the last is a matter of how the library is used, and without it the property fails:

| theorem | hypothesis | without it |
|---|---|---|
| `Invariant`, `PendingOwned`, `DisconnectIsFinal` | `~Reentrant`: event callbacks do not call back into the relay | both properties fail (see the disagreements) |
| `EoseAlwaysComplete` | `MaxEose <= 1`: a relay sends one EOSE per subscription | a second EOSE of one relay counts for another |
| `OverAlwaysReleased` | `~EarlyEose`: no EOSE before `subscribe()` has returned | the query's subscription stays open |
| `ForgeriesAlwaysRefused`, `SecretsAlwaysReadBack` | `RefusedIsApart`: what stands for a throw is neither an event nor a text | a throw could pass for a result; in the code it cannot, and the model value of the run differs from all results |

### Arguments

*Connection.* What holds whatever callbacks do is `LiveInv`: an attempt that connects and is current has its
finalizer in place, which nobody has used yet (`FinalizerReady`), the observer waits for a socket that has opened
(`ObserverOpened`), and below any number of suspended handlers, those that close have already made the relay
unconnected (`ClosingFrames`). `ConnectedIsLive` and `NoSocketLeak` need no more. The promises do: take
`PendingIsOwned`. While a handler is suspended in a callback its attempt
is already invalidated, and the property alone does not say that the suspended handler will
settle the promise and not return early. `QuietInv` therefore adds, for callbacks that do not call back,

- `Sequential`: at most one handler is suspended, so that its two halves see the same state;
- `Settling`: each pending promise belongs either to the suspended handler, in the branch
  that settles it, or to the current attempt, with its timeout and its finalizer in place and
  the relay not connected;
- `Opening`: a socket of the current attempt that may still open has a pending promise;
- `Disconnecting`: a suspended close or timeout has already cleared `connected`, and a close
  that will schedule a reconnection was one of a connection the user still wants;
- `WantedAttempts`: an unsettled attempt that no `disconnect()` superseded is wanted, which
  is what entitles its rejection handler to schedule a reconnection.

*Subscriptions.* A message waits in one place at a time (`Places`); no id is subscribed twice,
so that what an ended subscription leaves cannot be taken for another's (`Arrivals`); and a
flush that an EOSE waits for finds nothing under validation (`Flushing`), because the counter
is exact. The same invariant carries the refinement: under `Waiting` and `EoseDue` every
step is a step of `SubscriptionFeed` or a stutter, and `Flushing` is what makes the step that
calls onEOSE one that the feed allows.

*Publishing.* Whoever settles calls takes them out of all the arrays of handlers at once, so that arrays,
timers and waiting calls stay the same set, each once. That the walk of the live array skips handlers only
settles fewer calls: `Visited` is a recursive function, and nothing about it is needed
but that it picks calls of the array that match.

*Pool.* `Told`, that onEOSE was called exactly if `eoseSent` is set; `Holding`, that what relays hold
of an open call is what its `close()` will release; `Counting`, that each counted EOSE is of another
relay; `Resolving`, that a query which resolves has its subscription.

*Client.* Only a call under way holds or listens (`Holding`); a relay that has answered is not
asked again and its answer is counted once, as long as none was lost (`Counting`).

*Remote signing.* The client's invariant (requests and callers correspond one to one,
`AwaitedApart`) and the bunker's (an execution that counts is remembered, `Remembered`) stand
alone. `ConnectedIsAccepted` crosses the wire and needs `Answered`: what answers under way can say. Requests
are never renumbered, so an answer that comes late still means what it meant.

*Wallet.* `Current`: the promise of `init()` is that of the one attempt of the current generation,
so that an attempt cancelled by `disconnect()` finds itself outdated when it wakes up.
`Subscribed`: `subIds` holds that attempt's subscription from the moment the relays are settled, or the one of
the attempt that succeeded, and never that of a cancelled attempt, whose clean-up therefore disturbs
nothing. `Registering`: calls wait for requests of their own, and exactly the registered ones are pending.
`Answering`, of the service: a copy that the wallet works on finds its scheme, unless the scheme was dropped,
another copy has been answered readably, or a response could not be sent.

*Limiters.* `Remembers`: the history of a client holds whatever may still count, whichever clean-ups ran;
`Tallies`: what count and start of a fixed window say of the calls that passed, which bounds
those of any window of that length by twice the limit. *Stored events* are those that
precede all that were received since the entry began, because precedence is a total order
(`PrecedenceOrders`). That a map exceeds its limit only by reads of unknown keys is not inductive: `Bounded`
counts the access times without an entry (`Stale`), one per such read at most, and an entry too many uses one up; and there
is always an entry with an access time, so that what a full map evicts for a new key was there before (`OldestIsOther`). *Relay information*: entries and fetches are dated no later than their
answers (`DatedBefore`).

*Simple signing.* `AwaitsMatch`: requests and the calls that wait for them correspond one to one. `ClientWhole`: whenever
the client is half connected, a call is under way that will make it whole. That its session exists is
known to two parties: the bunker granted it to a key (`GrantedKeys`), and it lasts until the bunker stops or the holder
of that key asks to end it, which only a client about to forget its signer does (`SessionsLast`). Late and repeated
events change nothing, since requests are never renumbered and keys never made twice.

*Calls.* A collection of receipts holds something only while it waits (`ZapInv`). A publish has results only of relays
it asked, which are finitely many, and is over when it has all (`PublishWhole`), whatever becomes of the map; the map's relays
carry every callback (`MapWhole`). A management call keeps its body, so that its header is still of that body (`RpcWhole`).

*Groups.* The state of the relay, and every snapshot it publishes, is what the last event about each user says
(`MembersAfter`, `AdminsAfter`). The reducers sort what they have and read it once, so they end with the last event of
their selection; the selection covers what the relay has if it lacks nothing since its snapshot, and then the last event
about a user is the same one (`ClientFinds`, `LastStands`).

*Forgeries and secrets.* The behaviours are short, a sample is chosen and stays; the work is in the definitions. A hash is the
sequence that is hashed and a signature names its key, so each of the changes that `Altered` lists breaks one equation of
`IdAndSignature` (`AlteredIsRefused`). A receipt is taken apart through the first tag of a name, and `FilterPicks`
says which tag that is. A MAC names keys, nonce and ciphertext (`MacsDiffer`), so whoever computes the same MAC has the
same keys (`PartiesRead`); wraps and seals apply that twice. A message of NIP-04 has no MAC: what a wrong key makes of it is `Garbage`,
unless it is refused.

*Ephemeral relay.* `CacheConverges` says what the cache is, not how it stays so. `CacheInv` adds that
no two events of one key are in it, and turns "the newest" round: for each event that came the cache
has one of its key at least as new, so that forgetting what a newer event replaced loses nothing. The place where `store()`
puts an event is right because the events that precede it are the front of a sorted array (`InitialSegment`,
`Inserted`). `ViewCoversCache` then needs that a REQ whose limit is no smaller than the cache gets
everything that matches (`StoredMatches`), that the cache never shrinks but to nothing (`StoreKeeps`), and that subscriptions
belong to sessions, whose sockets do not open again (`SessionsInv`). The transport is right because of the order of one queue
(`QueueOk`): an end's opening is before its messages and its closing after them, and what `close()`
awaits is behind the closing of every connection that the server knows, which are all that are not
closed (`EndsInv`).

`filter` is a recursive function, and the provers cannot use the library's induction theorems, which take an
operator. `ComponentProofs` goes round by way of a set: `<` on the naturals is well-founded as a relation, so
a non-empty set of counterexamples has a least member (`SetInduction`). That gives that the function exists,
which elements it picks and in which order; the histories of the limiter, the arrays of handlers and the tags that
validators read rest on it.

### Only model-checked

- Liveness (`ConnectSettles`, `ConnectOrGiveUp`, `EoseReachesCaller`, `AutoCloseEnds`, `PublishSettles`,
  `QueryResolves`, `FetchSettles`): the provers have neither fairness nor `ENABLED`.
- `ConversionsReadBack`, but for NIP-44, NIP-04, NIP-17 and NIP-42: the others fold, decode or sort sequences, and what a
  fold computes for every input is an induction over data. Also the comparison of MACs bit by bit (the provers do not
  know powers of two) and whether every builder's event is accepted, which is mostly a matter of the sample.
- `Base64Fallback`, a counterexample on bytes.

No safety property of a passing run is without a theorem but this last part of `ConversionsReadBack`.

## Not modelled

The length of delays (back-off and jitter), OK reasons and notices, logging, ciphers, curves
and hashes as bytes, HTTP but for its outcome, JSON. The order of events within one flush of a
Relay. A user callback that throws: the code catches it everywhere except around `onEOSE` of a
Relay (`relay.ts:1207`).

Of the ephemeral relay: the TCP transport and its shutdown, the routing of NIP-46 messages
(which ignores every field of a filter but `kinds` and `#p`) and the broadcast of unknown verbs. Of NIP-46: the
auth window of the browser, which nothing opens. Of NIP-47: notifications, refusals of the client's requests by the rate limit, URLs. Of
NIP-57: LNURL and the text of invoices. NIP-05, NIP-07, the signers and NIP-21 keep no state and
do one call each. `PROJECT.json` gives the status and the reason for each component.

## Plan

In order of importance:

1. Notifications of NIP-47, and liveness of `WalletConnect` and `RemoteSigning` under timers
   that fire.
2. Normalization of relay URLs, as an operator that is idempotent; `ConversionAssumption` assumes it.
