---------------------------- MODULE Nip47Service ----------------------------
(***************************************************************************)
(* NostrWalletService (nip47/service.ts): init() and disconnect(), the     *)
(* handling of requests around the asynchronous wallet, and the map that   *)
(* remembers the encryption of each request until it is answered.          *)
(*                                                                         *)
(* handleEvent waits for the wallet and for the publication of the         *)
(* response; the code in between is one action, the encryption included,   *)
(* which may fail.  Nothing recognizes a request that is delivered again:  *)
(* every copy is executed.                                                 *)
(***************************************************************************)
EXTENDS Nip47Wire

VARIABLES hearing,    \* is the subscription to requests alive?
          stored,     \* the keys of requestEncryption (the value is always
                      \* the scheme of the request)
          delivered,  \* the requests that have been delivered
          working,    \* the copies of a request that wait for the wallet
          answering,  \* the copies whose response is being published
          dropped,    \* (history) requests whose stored scheme was dropped
          unsent      \* (history) requests with a response that could not be sent

serviceVars == <<hearing, stored, delivered, working, answering, dropped, unsent>>

Copies == [Ids -> 0 .. MaxFaults + 1]

ServiceTypeOK ==
    /\ hearing \in BOOLEAN
    /\ stored \subseteq Ids
    /\ delivered \subseteq Ids
    /\ working \in Copies /\ answering \in Copies
    /\ dropped \subseteq Ids /\ unsent \subseteq Ids

ServiceInit ==
    /\ hearing = FALSE
    /\ stored = {}
    /\ delivered = {}
    /\ working = [id \in Ids |-> 0]
    /\ answering = [id \in Ids |-> 0]
    /\ dropped = {} /\ unsent = {}

-----------------------------------------------------------------------------
publishInfoEvent == advertised' \in {advertised, TRUE}

\* init(), when the relays are connected: subscribe and publish the info
\* event, whether or not disconnect() was called meanwhile.  A lost connection
\* is like requests that are not delivered: relays do not request a
\* subscription again, and init() may be called again.
serviceInit ==
    /\ ~hearing
    /\ hearing' = TRUE
    /\ publishInfoEvent
    /\ UNCHANGED <<stored, delivered, working, answering, dropped, unsent,
                   asked, requests, responses, expired, faults, service>>

\* disconnect() empties the map; requests in progress go on without it.
serviceDisconnect ==
    /\ fault
    /\ hearing' = FALSE
    /\ stored' = {}
    /\ dropped' = dropped \cup stored
    /\ UNCHANGED <<delivered, working, answering, unsent>>

\* TTLMap: an entry is five minutes old, or it is the oldest of a thousand.
drop(id) ==
    /\ fault
    /\ id \in stored
    /\ stored' = stored \ {id}
    /\ dropped' = dropped \cup {id}
    /\ UNCHANGED <<hearing, delivered, working, answering, unsent>>

-----------------------------------------------------------------------------
\* sendResponse, up to the publication: the stored scheme, or NIP-04 if there
\* is none, and the entry is removed.  remembered is the content of the map.

\* Mutant: the entry is removed before it is read.
respondForgetful(id, result, remembered) ==
    /\ responses' = responses \cup {[id |-> id, result |-> result, scheme |-> "nip04"]}
    /\ stored' = remembered \ {id}
    /\ answering' = [answering EXCEPT ![id] = @ + 1]
    /\ UNCHANGED unsent

respond(id, result, remembered) ==
    /\ LET scheme == IF id \in remembered THEN asked[id].scheme ELSE "nip04"
       IN  responses' = responses \cup {[id |-> id, result |-> result, scheme |-> scheme]}
    /\ stored' = remembered \ {id}
    /\ answering' = [answering EXCEPT ![id] = @ + 1]
    /\ UNCHANGED unsent

\* sendResponse throws when the entry has already been removed.
respondFails(id) ==
    /\ stored' = stored \ {id}
    /\ unsent' = unsent \cup {id}

\* Nostr's rate limit refuses to publish the response.
refused == faults < MaxFaults /\ faults' = faults + 1

\* handleEvent, up to the call of the wallet.  A request that is expired, or
\* whose sender is not authorized, is answered at once in its own scheme, and
\* not again if that fails; one in a scheme the service does not support is
\* not answered at all.
handleEvent(id) ==
    /\ hearing
    /\ id \in requests
    /\ \/ id \notin delivered /\ UNCHANGED faults
       \/ id \in delivered /\ faults < MaxFaults /\ faults' = faults + 1
    /\ delivered' = delivered \cup {id}
    /\ \/ /\ id \in expired
          /\ respond(id, "expired", stored \cup {id})
          /\ UNCHANGED working
       \/ /\ id \notin expired /\ ~service.authorized
          /\ respond(id, "error", stored \cup {id})
          /\ UNCHANGED working
       \/ /\ id \notin expired /\ service.authorized
          /\ asked[id].scheme \in service.schemes
          /\ stored' = stored \cup {id}
          /\ working' = [working EXCEPT ![id] = @ + 1]
          /\ UNCHANGED <<responses, answering, unsent>>
       \/ /\ id \notin expired /\ service.authorized
          /\ asked[id].scheme \notin service.schemes
          /\ UNCHANGED <<stored, working, responses, answering, unsent>>
    /\ UNCHANGED <<hearing, dropped,
                   asked, requests, advertised, expired, service>>

\* The same, of a request that is answered at once, when that is refused.
handleEventRefused(id) ==
    /\ hearing
    /\ id \in requests
    /\ id \in expired \/ ~service.authorized
    /\ refused
    /\ delivered' = delivered \cup {id}
    /\ respondFails(id)
    /\ UNCHANGED <<hearing, working, answering, dropped,
                   asked, requests, responses, advertised, expired, service>>

\* handleRequest returns: with the wallet's result, or with an error of the
\* wallet, of the parameters, or because the method is not supported.
walletReturns(id, result) ==
    /\ working[id] > 0
    /\ working' = [working EXCEPT ![id] = @ - 1]
    /\ respond(id, result, stored)
    /\ UNCHANGED <<hearing, delivered, dropped,
                   asked, requests, advertised, expired, faults, service>>

\* Its result does not reach the client: NIP-44 takes no plaintext of more than
\* 65535 bytes, or publishing is refused.  The catch clause answers with an
\* error, for which the scheme is no longer known, or is refused as well.
walletReturnsUnsent(id) ==
    /\ working[id] > 0
    /\ working' = [working EXCEPT ![id] = @ - 1]
    /\ \/ id \in stored /\ asked[id].scheme = "nip44" /\ UNCHANGED faults
       \/ refused
    /\ respondFails(id)
    /\ \/ /\ responses' = responses \cup {[id |-> id, result |-> "error", scheme |-> "nip04"]}
          /\ answering' = [answering EXCEPT ![id] = @ + 1]
       \/ UNCHANGED <<responses, answering>>
    /\ UNCHANGED <<hearing, delivered, dropped,
                   asked, requests, advertised, expired, service>>

\* The expiration timer wins the race with the wallet, which goes on and whose
\* result is thrown away.
expirationFires(id) ==
    /\ id \in expired
    /\ walletReturns(id, "expired")

\* publishEvent has returned: what is left of the entry is removed, even one
\* that another copy of the request has stored.
serviceHandled(id) ==
    /\ answering[id] > 0
    /\ answering' = [answering EXCEPT ![id] = @ - 1]
    /\ stored' = stored \ {id}
    /\ UNCHANGED <<hearing, delivered, working, dropped, unsent, wireVars>>

ServiceNext ==
    \/ serviceInit \/ serviceDisconnect
    \/ \E id \in Ids :
          \/ drop(id) \/ handleEvent(id) \/ handleEventRefused(id) \/ walletReturnsUnsent(id)
          \/ walletReturns(id, "done") \/ walletReturns(id, "error")
          \/ expirationFires(id) \/ serviceHandled(id)

-----------------------------------------------------------------------------
\* A request that has been answered has an answer its client can read, in the
\* scheme of the request, unless the service disconnected while it was being
\* executed, took longer than the map remembers, or a response to it could not
\* be sent: whether or not the request was delivered twice, expired meanwhile,
\* or copies of it overtook each other (service.ts 611-690).
AnswerIsReadable ==
    \A response \in responses :
       response.id \in dropped \cup unsent
       \/ \E good \in responses : good.id = response.id /\ good.scheme = asked[response.id].scheme
=============================================================================
