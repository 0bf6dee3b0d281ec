------------------------------ MODULE Nip47Wire ------------------------------
(***************************************************************************)
(* What a wallet client and a wallet service share: the requests that have *)
(* been made, and the events that carry requests, responses and the        *)
(* service's advertisement through the relays.  A published event is never *)
(* taken back: it may be delivered late, in any order, once per relay, or  *)
(* never.  A request's id is its position in asked: the real one is the    *)
(* hash of an event with a random nonce.                                   *)
(***************************************************************************)
EXTENDS Naturals, FiniteSets, Sequences

CONSTANTS MaxRequests,  \* a bound: how many requests are made in a behaviour
          Methods,      \* the methods of the client besides get_info
          Expiring,     \* those that callers give an expiration time
          Services,     \* the configurations of the service to consider
          MaxFaults     \* a bound: how many faults a behaviour has

ASSUME BoundsAssumption == MaxRequests \in Nat /\ MaxFaults \in Nat

ASSUME MethodsAssumption ==
    /\ Methods \subseteq {"get_balance", "pay_invoice", "make_invoice", "lookup_invoice",
                          "list_transactions", "sign_message"}
    /\ Expiring \subseteq Methods

Schemes == {"nip04", "nip44"}

ASSUME ServicesAssumption ==
    Services \subseteq [schemes : (SUBSET Schemes) \ {{}}, authorized : BOOLEAN]

VARIABLES asked,       \* the requests made so far
          requests,    \* the ids of the requests that have been published
          responses,   \* the responses that have been published
          advertised,  \* has the service's info event been published?
          expired,     \* the requests whose expiration time has passed
          faults,      \* counts what MaxFaults bounds: disconnections, lost
                       \* connections, repeated deliveries and the like
          service      \* the configuration of the service, which never changes:
                       \* its encryption schemes, and whether this client is
                       \* among its authorizedClients

wireVars == <<asked, requests, responses, advertised, expired, faults, service>>

Ids == 1 .. MaxRequests

Request == [method : Methods \cup {"get_info"}, scheme : Schemes]

Results == {"done", "error", "expired"}

\* A response is encrypted with some scheme, not always that of its request.
Response == [id : Ids, scheme : Schemes, result : Results]

WireTypeOK == /\ asked \in Seq(Request)
              /\ Len(asked) <= MaxRequests
              /\ requests \subseteq DOMAIN asked
              /\ responses \subseteq Response
              /\ advertised \in BOOLEAN
              /\ expired \subseteq DOMAIN asked
              /\ faults \in 0 .. MaxFaults
              /\ service \in Services

WireInit == /\ asked = <<>> /\ requests = {} /\ responses = {}
            /\ advertised = FALSE /\ expired = {} /\ faults = 0
            /\ service \in Services

\* Time passes, and the expiration of a request is reached.
expire(id) ==
    /\ id \in DOMAIN asked \ expired
    /\ asked[id].method \in Expiring
    /\ expired' = expired \cup {id}
    /\ UNCHANGED <<asked, requests, responses, advertised, faults, service>>

\* One of the things that MaxFaults bounds happens, and nothing else on the wire.
fault == /\ faults < MaxFaults
         /\ faults' = faults + 1
         /\ UNCHANGED <<asked, requests, responses, advertised, expired, service>>
=============================================================================
