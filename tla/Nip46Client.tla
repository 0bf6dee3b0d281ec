----------------------------- MODULE Nip46Client -----------------------------
(***************************************************************************)
(* NostrRemoteSignerClient (nip46/client.ts): connect(), disconnect() and  *)
(* the calls that ask the bunker for something, made by several callers on *)
(* one client object.                                                      *)
(*                                                                         *)
(* The client runs on one thread, and its encryption and signatures are    *)
(* synchronous: a call is interrupted only where it waits for a relay to   *)
(* connect or for a response.  Those waits are the stages of a caller; all *)
(* the code from one wait to the next is one action.                       *)
(***************************************************************************)
EXTENDS Nip46Wire

CONSTANTS Callers   \* the calls that may be in progress at once

ASSUME CallersAssumption == IsFiniteSet(Callers)

VARIABLES connected,   \* the flag that guards every request
          signer,      \* is signerPubkey set?
          userPubkey,  \* is the user's public key cached?
          up,          \* is a relay of the current Nostr instance connected?
          listening,   \* is the subscription to responses alive on it?
          pending,     \* the keys of pendingRequests
          outgoing,    \* requests that wait for a relay to reconnect
          stage,       \* where each caller is
          awaits       \* the request each caller waits for, or 0

clientVars == <<connected, signer, userPubkey, up, listening, pending,
                outgoing, stage, awaits>>

Stages == {"idle", "relays", "bunkerRelays", "answer"}

ClientTypeOK ==
    /\ connected \in BOOLEAN /\ signer \in BOOLEAN /\ userPubkey \in BOOLEAN
    /\ up \in BOOLEAN /\ listening \in BOOLEAN
    /\ pending \subseteq Ids /\ outgoing \subseteq Ids
    /\ stage \in [Callers -> Stages]
    /\ awaits \in [Callers -> Ids \cup {0}]

ClientInit ==
    /\ connected = FALSE /\ signer = FALSE /\ userPubkey = FALSE
    /\ up = FALSE /\ listening = FALSE
    /\ pending = {} /\ outgoing = {}
    /\ stage = [c \in Callers |-> "idle"]
    /\ awaits = [c \in Callers |-> 0]

\* The calls of connect() in progress that have yet to send their request.
connecting == {c \in Callers : stage[c] \in {"relays", "bunkerRelays"}}

Returns(c) == /\ stage' = [stage EXCEPT ![c] = "idle"]
              /\ awaits' = [awaits EXCEPT ![c] = 0]

-----------------------------------------------------------------------------
\* cleanup(), called for caller c: every pending request is rejected, so that
\* the callers that wait for one return as well (those that were connecting
\* or disconnecting clean up again, which changes nothing).  It awaits nothing
\* that takes time.

\* Mutant: a cleanup that forgets requests without rejecting them.
cleanupForgets(c) ==
    /\ connected' = FALSE /\ signer' = FALSE /\ userPubkey' = FALSE
    /\ up' = FALSE /\ listening' = FALSE
    /\ pending' = {}
    /\ Returns(c)

\* Mutant: a cleanup that leaves the flag to disconnect().
cleanupKeepsConnected(c) ==
    /\ UNCHANGED connected
    /\ signer' = FALSE /\ userPubkey' = FALSE
    /\ up' = FALSE /\ listening' = FALSE
    /\ pending' = {}
    /\ LET over == {c} \cup {d \in Callers : awaits[d] \in pending}
       IN  /\ stage'  = [d \in Callers |-> IF d \in over THEN "idle" ELSE stage[d]]
           /\ awaits' = [d \in Callers |-> IF d \in over THEN 0 ELSE awaits[d]]

cleanup(c) ==
    /\ connected' = FALSE /\ signer' = FALSE /\ userPubkey' = FALSE
    /\ up' = FALSE /\ listening' = FALSE
    /\ pending' = {}
    /\ LET over == {c} \cup {d \in Callers : awaits[d] \in pending}
       IN  /\ stage'  = [d \in Callers |-> IF d \in over THEN "idle" ELSE stage[d]]
           /\ awaits' = [d \in Callers |-> IF d \in over THEN 0 ELSE awaits[d]]

\* sendRequest and sendEncryptedRequest: the request is registered and, when a
\* relay is connected (online), published at once; otherwise relay.publish
\* first reconnects.  A request that the rate limit of Nostr refuses is like
\* one that is lost and times out.
sendRequest(c, req, online) ==
    LET id == Len(asked) + 1
    IN  /\ Len(asked) + Cardinality(connecting \ {c}) < MaxRequests
        /\ asked' = Append(asked, req)
        /\ pending' = pending \cup {id}
        /\ requests' = IF online THEN requests \cup {id} ELSE requests
        /\ outgoing' = IF online THEN outgoing ELSE outgoing \cup {id}
        /\ stage' = [stage EXCEPT ![c] = "answer"]
        /\ awaits' = [awaits EXCEPT ![c] = id]

-----------------------------------------------------------------------------
\* connect() is called: it connects to the client's own relays first.
connect(c) ==
    /\ stage[c] = "idle"
    /\ Len(asked) + Cardinality(connecting) < MaxRequests
    /\ stage' = [stage EXCEPT ![c] = "relays"]
    /\ UNCHANGED <<connected, signer, userPubkey, up, listening, pending,
                   outgoing, awaits, wireVars>>

\* The last part of connect(): subscribe, then send the request.  A cleanup
\* that ran meanwhile has forgotten the signer, and the request cannot be sent.

subscribeAndAsk(c, online, known) ==
    IF known
    THEN /\ signer' = TRUE /\ up' = online /\ listening' = online
         /\ \E secret \in BOOLEAN :
                sendRequest(c, [method |-> "connect", secret |-> secret], online)
         /\ UNCHANGED <<connected, userPubkey, responses>>
    ELSE cleanup(c) /\ UNCHANGED <<outgoing, wireVars>>

\* connectToRelays() is over, whether a relay answered or not, and the
\* connection string is parsed: it is malformed, or names no relays, or names
\* some, and then the Nostr instance and its subscription are replaced and the
\* new one connects.
connectRelaysSettled(c) ==
    /\ stage[c] = "relays"
    /\ \/ cleanup(c) /\ UNCHANGED <<outgoing, wireVars>>
       \/ \E online \in {up, TRUE} : subscribeAndAsk(c, online, TRUE)
       \/ /\ signer' = TRUE /\ up' = FALSE /\ listening' = FALSE
          /\ stage' = [stage EXCEPT ![c] = "bunkerRelays"]
          /\ UNCHANGED <<connected, userPubkey, pending, outgoing, awaits, wireVars>>

connectBunkerRelaysSettled(c) ==
    /\ stage[c] = "bunkerRelays"
    /\ \E online \in {up, TRUE} : subscribeAndAsk(c, online, signer)

\* signEvent, the encryption calls, getUserPublicKey (unless cached), ping.
request(c, method) ==
    /\ stage[c] = "idle"
    /\ connected /\ signer
    /\ ~(method = "get_public_key" /\ userPubkey)
    /\ sendRequest(c, [method |-> method, secret |-> FALSE], up)
    /\ UNCHANGED <<connected, signer, userPubkey, up, listening, responses>>

\* disconnect() says goodbye if it is connected, then cleans up in any case.
disconnect(c) ==
    /\ stage[c] = "idle"
    /\ IF connected /\ signer
       THEN /\ sendRequest(c, [method |-> "disconnect", secret |-> FALSE], up)
            /\ UNCHANGED <<connected, signer, userPubkey, up, listening, responses>>
       ELSE cleanup(c) /\ UNCHANGED <<outgoing, wireVars>>

-----------------------------------------------------------------------------
\* A response accepts a connection unless it carries an error.

\* Mutant: any answer to connect will do.
acceptsAnything(result) == result \in Results

accepts(result) == result # "error"

\* The promise of request id is settled, by a response or by "timeout", and
\* the caller that awaits it goes on.

settle(id, result) ==
    \E c \in Callers :
      /\ awaits[c] = id
      /\ CASE asked[id].method = "disconnect" -> cleanup(c)
           [] asked[id].method = "connect" /\ (result = "timeout" \/ ~accepts(result))
                -> cleanup(c)
           [] OTHER ->
                /\ pending' = pending \ {id}
                /\ connected' = (connected \/ asked[id].method = "connect")
                /\ userPubkey' = (userPubkey \/ (asked[id].method = "get_public_key"
                                                 /\ result = "done"))
                /\ Returns(c)
                /\ UNCHANGED <<signer, up, listening>>

\* handleResponse: a response to a request that is not pending is ignored.
handleResponse(response) ==
    /\ listening
    /\ response \in responses
    /\ response.id \in pending
    /\ settle(response.id, response.result)
    /\ UNCHANGED <<outgoing, wireVars>>

requestTimeout(id) ==
    /\ id \in pending
    /\ settle(id, "timeout")
    /\ UNCHANGED <<outgoing, wireVars>>

\* A relay that relay.publish reconnects for request id answers, or does not;
\* the client does not look at the result.  The relay may be one of an
\* instance that connect() has replaced, and the client may have been cleaned
\* up: a reconnection leaves it with an open socket then.
publishReconnected(id) ==
    /\ id \in outgoing
    /\ outgoing' = outgoing \ {id}
    /\ \/ requests' = requests \cup {id} /\ up' \in {up, TRUE}
       \/ UNCHANGED <<requests, up>>
    /\ UNCHANGED <<connected, signer, userPubkey, listening, pending, stage,
                   awaits, asked, responses>>

\* The connection to the relays is lost, and with it the subscription: relays
\* do not request subscriptions again.
clientRelaysLost ==
    /\ up
    /\ up' = FALSE /\ listening' = FALSE
    /\ UNCHANGED <<connected, signer, userPubkey, pending, outgoing, stage,
                   awaits, wireVars>>

ClientNext ==
    \/ \E c \in Callers :
          \/ connect(c) \/ connectRelaysSettled(c) \/ connectBunkerRelaysSettled(c)
          \/ disconnect(c)
          \/ \E method \in Operations : request(c, method)
    \/ \E response \in responses : handleResponse(response)
    \/ \E id \in Ids : requestTimeout(id) \/ publishReconnected(id)
    \/ clientRelaysLost

-----------------------------------------------------------------------------
\* Every request that is registered has a caller that waits for it, and every
\* caller that waits has its request registered with a running timeout:
\* whichever of the response, the timeout and a cleanup comes first settles
\* it, and nothing is kept of a request that is settled (client.ts 121-167,
\* 522-557).
PendingMatches ==
    /\ pending = {awaits[c] : c \in Callers} \ {0}
    /\ \A c \in Callers : stage[c] = "answer" <=> awaits[c] # 0

\* A connected client knows whom to encrypt its requests for, however connect()
\* and disconnect() overlap (client.ts 174-287).
ConnectedHasSigner == connected => signer
=============================================================================
