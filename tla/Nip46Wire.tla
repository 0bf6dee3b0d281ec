------------------------------ MODULE Nip46Wire ------------------------------
(***************************************************************************)
(* What a remote-signing client and a bunker share: the requests that have *)
(* been made, and the events that carry requests and responses through the *)
(* relays.  A published event is never taken back: it may be delivered     *)
(* late, in any order, several times (once per relay both sides use) or    *)
(* never.  A request's id is its position in asked, for ids are random and *)
(* never reused.                                                           *)
(***************************************************************************)
EXTENDS Naturals, FiniteSets, Sequences

CONSTANTS MaxRequests,  \* a bound: how many requests are made in a behaviour
          Operations    \* the methods besides connect and disconnect

ASSUME RequestsAssumption == MaxRequests \in Nat

ASSUME OperationsAssumption ==
    Operations \subseteq {"sign_event", "nip04_encrypt", "nip04_decrypt", "nip44_encrypt",
                         "nip44_decrypt", "get_public_key", "ping"}

VARIABLES asked,      \* the requests made so far
          requests,   \* the ids of the requests that have been published
          responses   \* the responses that have been published

wireVars == <<asked, requests, responses>>

Ids == 1 .. MaxRequests

\* A request; secret (is it the right one?) matters to connect only.
Request == [method : Operations \cup {"connect", "disconnect"}, secret : BOOLEAN]

Results == {"ack", "auth_required", "done", "error"}

Response == [id : Ids, result : Results]

WireTypeOK == /\ asked \in Seq(Request)
              /\ Len(asked) <= MaxRequests
              /\ requests \subseteq DOMAIN asked
              /\ responses \subseteq Response

WireInit == asked = <<>> /\ requests = {} /\ responses = {}
=============================================================================
