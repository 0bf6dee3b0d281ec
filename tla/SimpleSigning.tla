---------------------------- MODULE SimpleSigning ----------------------------
(***************************************************************************)
(* The simple client and bunker of NIP-46 (src/src/nip46/simple-client.ts, *)
(* simple-bunker.ts), talking through one relay.                           *)
(*                                                                         *)
(* The client has no flag that says it is connected: it holds the signer's *)
(* public key from the beginning of connect() on, a key pair of its own    *)
(* that every connect() makes anew, and the user's public key at the end.  *)
(* Calls overlap at their awaits; what lies between is one action.  Events *)
(* that were published arrive late, repeatedly, in any order or never.     *)
(***************************************************************************)
EXTENDS Naturals, Sequences, FiniteSets

CONSTANTS
  SimpleCallers,         \* calls of the client that may be in progress at once
  MaxSimpleRequests,     \* bound: requests in a behaviour
  MaxClientKeys,         \* bound: key pairs the client makes
  SimplePermissions,     \* operations that need a permission
  RequestedPermissions,  \* those the connection string asks for
  MaxBunkerStops         \* bound: how often the bunker stops

ASSUME SimpleAssumption ==
  /\ MaxSimpleRequests \in Nat /\ MaxClientKeys \in Nat /\ MaxBunkerStops \in Nat
  /\ RequestedPermissions \subseteq SimplePermissions
  /\ SimplePermissions \cap {"connect", "disconnect"} = {}  \* nobody needs one for these

VARIABLES
  signerKnown,     \* client: is signerPubkey set?
  clientKey,       \* client: its key pair, 0 before the first connect()
  userKnown,       \* client: is userPubkey set?
  subId,           \* client: the key whose responses it remembers to listen to, or 0
  pendingRequests, \* client: ids it has a handler for
  callStage,       \* client: where each call is
  callAwaits,      \* client: the request each call waits for, or 0
  keysMade,        \* client: key pairs made so far
  listening,       \* does the relay forward responses to the present key?
  asked,           \* requests made so far: [method, key, secret]
  atRelay,         \* ids of the request events the relay got
  answers,         \* response events the relay got: [id, result]
  bunkerHears,     \* bunker: is it started?
  sessionsOf,      \* bunker: clients, its sessions, from client keys to permissions
  bunkerStops,     \* how often the bunker stopped
  forgotten        \* history: keys whose sessions a stop ended

simpleClientVars == <<signerKnown, clientKey, userKnown, subId, pendingRequests, callStage,
                      callAwaits, keysMade, listening>>
simpleBunkerVars == <<bunkerHears, sessionsOf, bunkerStops, forgotten>>
relayedVars == <<atRelay, answers>>
simpleVars == <<simpleClientVars, asked, relayedVars, simpleBunkerVars>>

SimpleInit ==
  /\ signerKnown = FALSE /\ userKnown = FALSE /\ listening = FALSE /\ bunkerHears = TRUE
  /\ clientKey = 0 /\ subId = 0 /\ keysMade = 0 /\ bunkerStops = 0
  /\ pendingRequests = {} /\ atRelay = {} /\ answers = {} /\ forgotten = {}
  /\ asked = <<>> /\ sessionsOf = <<>>
  /\ callStage = [c \in SimpleCallers |-> "idle"]
  /\ callAwaits = [c \in SimpleCallers |-> 0]

-----------------------------------------------------------------------------
\* The client.

At(c, stage) ==
  /\ callStage' = [callStage EXCEPT ![c] = stage]
  /\ callAwaits' = [callAwaits EXCEPT ![c] = 0]

\* Call c asks the bunker and waits; what it waited for before is settled.
sendSimpleRequest(c, method, secret, stage) ==
  LET id == Len(asked) + 1
  IN /\ id <= MaxSimpleRequests
     /\ asked' = Append(asked, [method |-> method, key |-> clientKey, secret |-> secret])
     /\ pendingRequests' = (pendingRequests \ {callAwaits[c]}) \cup {id}
     /\ callStage' = [callStage EXCEPT ![c] = stage]
     /\ callAwaits' = [callAwaits EXCEPT ![c] = id]

\* The second half of disconnect(): unsubscribe, reject what is pending,
\* disconnect, forget the keys of user and signer.  Rejected calls of connect()
\* and disconnect() do the same once more and end, too.
simpleCleanup(c) ==
  LET over == {c} \cup {d \in SimpleCallers : callAwaits[d] \in pendingRequests}
  IN /\ signerKnown' = FALSE /\ userKnown' = FALSE /\ subId' = 0
     /\ listening' = FALSE /\ pendingRequests' = {}
     /\ callStage' = [d \in SimpleCallers |-> IF d \in over THEN "idle" ELSE callStage[d]]
     /\ callAwaits' = [d \in SimpleCallers |-> IF d \in over THEN 0 ELSE callAwaits[d]]
     /\ UNCHANGED <<clientKey, keysMade, asked>>

\* disconnect(), called by the application or by a connect() that fails.
leave(c) ==
  IF signerKnown /\ clientKey # 0
  THEN /\ sendSimpleRequest(c, "disconnect", FALSE, "farewell")
       /\ UNCHANGED <<signerKnown, clientKey, userKnown, subId, keysMade, listening>>
  ELSE simpleCleanup(c)

disconnectSimple(c) ==
  /\ callStage[c] = "idle"
  /\ leave(c)
  /\ UNCHANGED <<relayedVars, simpleBunkerVars>>

\* Mutant: the client keeps the key pair of its first connection.
generatedKeyOnce == IF clientKey # 0 THEN clientKey ELSE keysMade + 1

generatedKey == keysMade + 1

\* connect() up to the connection of its relays, or with a malformed string.
connectSimple(c) ==
  /\ callStage[c] = "idle"
  /\ \/ leave(c)
     \/ /\ keysMade < MaxClientKeys
        /\ signerKnown' = TRUE /\ clientKey' = generatedKey /\ keysMade' = keysMade + 1
        /\ listening' = FALSE
        /\ At(c, "relays")
        /\ UNCHANGED <<userKnown, subId, pendingRequests, asked>>
  /\ UNCHANGED <<relayedVars, simpleBunkerVars>>

\* connectToRelays() and the second after it are over.  The subscription is made
\* even if the signer has been forgotten meanwhile.
relaysSettled(c) ==
  /\ callStage[c] = "relays"
  /\ IF signerKnown
     THEN /\ listening' \in {listening, TRUE}
          /\ subId' = clientKey
          /\ \E secret \in BOOLEAN : sendSimpleRequest(c, "connect", secret, "connecting")
          /\ UNCHANGED <<signerKnown, clientKey, userKnown, keysMade>>
     ELSE simpleCleanup(c)
  /\ UNCHANGED <<relayedVars, simpleBunkerVars>>

\* Everything that only needs an answer: the operations, ping, getPublicKey.
requestSimple(c, method) ==
  /\ callStage[c] = "idle"
  /\ signerKnown /\ clientKey # 0
  /\ sendSimpleRequest(c, method, FALSE, "waiting")
  /\ UNCHANGED <<signerKnown, clientKey, userKnown, subId, keysMade, listening,
                 relayedVars, simpleBunkerVars>>

\* The promise of request id is settled, and the call that waits for it goes on.
settleSimple(id, ok) ==
  \E c \in SimpleCallers :
    /\ callAwaits[c] = id
    /\ \/ /\ callStage[c] = "farewell"
          /\ simpleCleanup(c)
       \/ /\ callStage[c] \in {"connecting", "identifying"} /\ ~ok
          /\ IF signerKnown
             THEN /\ sendSimpleRequest(c, "disconnect", FALSE, "farewell")
                  /\ UNCHANGED <<signerKnown, clientKey, userKnown, subId, keysMade, listening>>
             ELSE simpleCleanup(c)
       \/ /\ callStage[c] = "connecting" /\ ok
          /\ sendSimpleRequest(c, "get_public_key", FALSE, "identifying")
          /\ UNCHANGED <<signerKnown, clientKey, userKnown, subId, keysMade, listening>>
       \/ /\ \/ callStage[c] = "identifying" /\ ok /\ userKnown' = TRUE
             \/ callStage[c] = "waiting" /\ UNCHANGED userKnown
          /\ pendingRequests' = pendingRequests \ {id}
          /\ At(c, "idle")
          /\ UNCHANGED <<signerKnown, clientKey, subId, keysMade, listening, asked>>

\* handleResponse: what is not encrypted to the present key, or answers nothing
\* that is pending, is ignored.
handleSimpleResponse(answer) ==
  /\ listening
  /\ asked[answer.id].key = clientKey
  /\ answer.id \in pendingRequests
  /\ settleSimple(answer.id, answer.result # "error")
  /\ UNCHANGED <<relayedVars, simpleBunkerVars>>

\* Its time is up, or publishEvent() fails, though the bunker may get the
\* request yet or have answered it.
simpleTimeout(id) ==
  /\ id \in pendingRequests
  /\ settleSimple(id, FALSE)
  /\ UNCHANGED <<relayedVars, simpleBunkerVars>>

\* The relay, connected or reconnected for it, gets a request event.
reachesRelay(id) ==
  /\ id \notin atRelay
  /\ atRelay' = atRelay \cup {id}
  /\ UNCHANGED <<simpleClientVars, asked, answers, simpleBunkerVars>>

\* The connection is lost, and the subscriptions with it.
simpleRelayLost ==
  /\ listening
  /\ listening' = FALSE
  /\ UNCHANGED <<signerKnown, clientKey, userKnown, subId, pendingRequests, callStage, callAwaits,
                 keysMade, asked, relayedVars, simpleBunkerVars>>

-----------------------------------------------------------------------------
\* The bunker.

\* An answer that is lost on its way is one the client never handles.
sendResponse(id, result) == answers' = answers \cup {[id |-> id, result |-> result]}

isClientAuthorized(key) == key \in DOMAIN sessionsOf

\* A second connect() of a client replaces its session.
handleConnect(id, key) ==
  IF asked[id].secret
  THEN /\ sessionsOf' = [k \in DOMAIN sessionsOf \cup {key} |->
                           IF k = key THEN RequestedPermissions ELSE sessionsOf[k]]
       /\ sendResponse(id, "done")
  ELSE /\ UNCHANGED sessionsOf
       /\ sendResponse(id, "error")

handleDisconnect(id, key) ==
  IF isClientAuthorized(key)
  THEN /\ sessionsOf' = [k \in DOMAIN sessionsOf \ {key} |-> sessionsOf[k]]
       /\ sendResponse(id, "done")
  ELSE /\ UNCHANGED sessionsOf
       /\ sendResponse(id, "error")

\* Signing: permitted for every kind, or for the kind of the event.
handleSignEvent(key) ==
  isClientAuthorized(key) /\ sessionsOf[key] \cap {"sign_event", "sign_event:1"} # {}

\* The relay list, and encryption and decryption: permitted one by one.
handleNIP44(key, method) ==
  isClientAuthorized(key) /\ method \in {"nip44_encrypt", "nip44_decrypt"} \cap sessionsOf[key]

handleNIP04(key, method) ==
  isClientAuthorized(key) /\ method \in {"nip04_encrypt", "nip04_decrypt"} \cap sessionsOf[key]

handleGetRelays(key) == isClientAuthorized(key) /\ "get_relays" \in sessionsOf[key]

Granted(key, method) ==
  \/ method \in {"get_public_key", "ping"} /\ isClientAuthorized(key)
  \/ method = "sign_event" /\ handleSignEvent(key)
  \/ method = "get_relays" /\ handleGetRelays(key)
  \/ handleNIP44(key, method)
  \/ handleNIP04(key, method)

\* A request event, with all it awaits: nothing but its own cryptography, which
\* may fail for an operation.  One that the bunker never gets, because its relay
\* is lost, is never handled.
handleSimpleRequest(id) ==
  LET key == asked[id].key
      method == asked[id].method
  IN /\ bunkerHears
     /\ id \in atRelay
     /\ \/ method = "connect" /\ handleConnect(id, key)
        \/ method = "disconnect" /\ handleDisconnect(id, key)
        \/ /\ method \notin {"connect", "disconnect"}
           /\ UNCHANGED sessionsOf
           /\ \/ Granted(key, method) /\ sendResponse(id, "done")
              \/ (Granted(key, method) => method \in SimplePermissions) /\ sendResponse(id, "error")
     /\ UNCHANGED <<simpleClientVars, asked, atRelay, bunkerHears, bunkerStops, forgotten>>

\* start(); starting once more changes nothing the bunker keeps.
startSimple ==
  /\ ~bunkerHears
  /\ bunkerHears' = TRUE
  /\ UNCHANGED <<simpleClientVars, asked, relayedVars, sessionsOf, bunkerStops, forgotten>>

stopSimple ==
  /\ bunkerStops < MaxBunkerStops
  /\ bunkerStops' = bunkerStops + 1
  /\ bunkerHears' = FALSE
  /\ sessionsOf' = <<>>
  /\ forgotten' = forgotten \cup DOMAIN sessionsOf
  /\ UNCHANGED <<simpleClientVars, asked, relayedVars>>

\* The owner grants a session a permission or takes it away.
setClientPermission(key, permission) ==
  /\ key \in DOMAIN sessionsOf
  /\ \/ sessionsOf' = [sessionsOf EXCEPT ![key] = @ \cup {permission}]
     \/ sessionsOf' = [sessionsOf EXCEPT ![key] = @ \ {permission}]
  /\ UNCHANGED <<simpleClientVars, asked, relayedVars, bunkerHears, bunkerStops, forgotten>>

SimpleNext ==
  \/ \E c \in SimpleCallers :
       \/ connectSimple(c) \/ relaysSettled(c) \/ disconnectSimple(c)
       \/ \E method \in SimplePermissions : requestSimple(c, method)
  \/ \E answer \in answers : handleSimpleResponse(answer)
  \/ \E id \in DOMAIN asked :
       simpleTimeout(id) \/ reachesRelay(id) \/ handleSimpleRequest(id)
  \/ simpleRelayLost
  \/ startSimple \/ stopSimple
  \/ \E key \in 1 .. MaxClientKeys, permission \in SimplePermissions :
       setClientPermission(key, permission)

-----------------------------------------------------------------------------
\* Between calls of connect() and disconnect(), however these overlapped, the
\* client is all connected or all disconnected: it knows the user exactly if it
\* knows the signer and listens to the key it uses, and then the bunker has a
\* session for that key unless it was stopped.  In particular a farewell that
\* arrives late, or twice, does not end the session of a later connection.
ConnectedHasSession ==
  /\ pendingRequests = {callAwaits[c] : c \in SimpleCallers} \ {0}
  /\ (\A c \in SimpleCallers : callStage[c] \in {"idle", "waiting"}) =>
       /\ userKnown <=> signerKnown
       /\ subId = IF signerKnown THEN clientKey ELSE 0
       /\ userKnown => clientKey \in DOMAIN sessionsOf \cup forgotten
=============================================================================
