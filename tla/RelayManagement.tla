--------------------------- MODULE RelayManagement ---------------------------
(***************************************************************************)
(* The management API of relays, NIP-86 (src/src/nip86/index.ts): calls of *)
(* RelayManagementClient, which sign a request, send it and read the       *)
(* answer under one timeout, while the signer may be replaced.  The        *)
(* endpoint and the signers are external: they may fail, be late or never  *)
(* answer.                                                                 *)
(***************************************************************************)
EXTENDS Integers, FiniteSets, SequencesExt

CONSTANTS
  ManagementCalls,
  ManagementSigners,
  ManagementMethods  \* requests, each a method with its parameters

NoSigner == "none"
NoHeader == [signer |-> NoSigner]

VARIABLES
  managementSigner,  \* NoSigner or the signer to use
  rpc,               \* per call: its stage, its request, the header and the answer
  rpcTimers          \* calls whose timeout is running

managementVars == <<managementSigner, rpc, rpcTimers>>

ManagementInit ==
  /\ managementSigner = NoSigner
  /\ rpc = [c \in ManagementCalls |-> [stage |-> "idle"]]
  /\ rpcTimers = {}

\* What a convenience method passes: the reason only if there is one.
rpcParams(target, reason) == IF reason = "" THEN <<target>> ELSE <<target, reason>>

\* sanitizeManagementParams(): undefined becomes null, functions are refused and
\* so are circular references, numbers must be safe integers or fractions.
sanitizable(params) == Range(params) \cap {"function", "circular", "unsafe"} = {}
sanitizeManagementParams(params) ==
  [i \in DOMAIN params |-> IF params[i] = "undefined" THEN "null" ELSE params[i]]

\* The URL, the method and the hash of the body; a hash is what it is taken of.
createHttpAuthEventTemplate(body) == [u |-> "http", method |-> "POST", payload |-> body]

-----------------------------------------------------------------------------
setSigner(s) ==
  /\ managementSigner' = s
  /\ UNCHANGED <<rpc, rpcTimers>>

Sending(c, request, header) ==
  /\ rpc' = [rpc EXCEPT ![c] = [stage |-> "fetching", body |-> request, header |-> header]]
  /\ rpcTimers' = rpcTimers \cup {c}

\* The timer starts only when the request is signed.
call(c, method, params) ==
  /\ rpc[c].stage = "idle"
  /\ LET request == [method |-> method, params |-> sanitizeManagementParams(params)]
     IN IF ~sanitizable(params)
        THEN /\ rpc' = [rpc EXCEPT ![c] = [stage |-> "failed"]]
             /\ UNCHANGED rpcTimers
        ELSE IF managementSigner = NoSigner THEN Sending(c, request, NoHeader)
        ELSE /\ rpc' = [rpc EXCEPT ![c] = [stage |-> "signing", body |-> request,
                                           signer |-> managementSigner]]
             /\ UNCHANGED rpcTimers
  /\ UNCHANGED managementSigner

Signed(c) ==
  /\ rpc[c].stage = "signing"
  /\ \/ Sending(c, rpc[c].body,
                [signer |-> rpc[c].signer, event |-> createHttpAuthEventTemplate(rpc[c].body)])
     \/ /\ rpc' = [rpc EXCEPT ![c] = [stage |-> "failed"]]
        /\ UNCHANGED rpcTimers
  /\ UNCHANGED managementSigner

\* clearTimeout in the finally clause.
\* Mutant: only a call that succeeds clears its timer.
finallySucceeded(c, outcome) ==
  /\ rpc' = [rpc EXCEPT ![c] = outcome]
  /\ rpcTimers' = IF outcome.stage = "done" THEN rpcTimers \ {c} ELSE rpcTimers

finally(c, outcome) ==
  /\ rpc' = [rpc EXCEPT ![c] = outcome]
  /\ rpcTimers' = rpcTimers \ {c}

\* The headers arrive; the timer goes on for the body.
ResponseArrives(c, ok) ==
  /\ rpc[c].stage = "fetching"
  /\ rpc' = [rpc EXCEPT ![c] = [stage |-> "reading", body |-> @.body, header |-> @.header, ok |-> ok]]
  /\ UNCHANGED <<managementSigner, rpcTimers>>

RequestFails(c) ==
  /\ rpc[c].stage \in {"fetching", "reading"}
  /\ finally(c, [stage |-> "failed"])
  /\ UNCHANGED managementSigner

\* Mutant: a result counts although the response has an error as well.
acceptsAnyResult(ok, payload) == ok /\ payload.result # "missing"

accepts(ok, payload) == ok /\ payload.error = "" /\ payload.result # "missing"

\* payload: the parsed body; a result of null counts as missing.
BodyArrives(c, payload) ==
  /\ rpc[c].stage = "reading"
  /\ finally(c, IF accepts(rpc[c].ok, payload)
                THEN [stage |-> "done", body |-> rpc[c].body, header |-> rpc[c].header,
                      ok |-> rpc[c].ok, payload |-> payload]
                ELSE [stage |-> "failed"])
  /\ UNCHANGED managementSigner

\* The timer aborts the fetch, or the reading of its body, which then fails.
ManagementTimeout(c) ==
  /\ c \in rpcTimers
  /\ finally(c, [stage |-> "failed"])
  /\ UNCHANGED managementSigner

Payloads == [error : {"", "no"}, result : {"missing", "yes"}]

ManagementNext ==
  \/ \E s \in ManagementSigners \cup {NoSigner} : setSigner(s)
  \/ \E c \in ManagementCalls :
       \/ \E request \in ManagementMethods : call(c, request.method, request.params)
       \/ Signed(c) \/ RequestFails(c) \/ ManagementTimeout(c)
       \/ \E ok \in BOOLEAN : ResponseArrives(c, ok)
       \/ \E payload \in Payloads : BodyArrives(c, payload)

-----------------------------------------------------------------------------
\* A timer runs exactly while a call waits for the endpoint, a call succeeds only
\* with the result of a response that is in order, and a header authorizes the
\* very body it is sent with.
ManagementEnds ==
  /\ rpcTimers = {c \in ManagementCalls : rpc[c].stage \in {"fetching", "reading"}}
  /\ \A c \in ManagementCalls :
       /\ rpc[c].stage = "done" => rpc[c].ok /\ rpc[c].payload.error = "" /\ rpc[c].payload.result = "yes"
       /\ rpc[c].stage \in {"fetching", "reading", "done"} /\ rpc[c].header # NoHeader =>
            rpc[c].header.event.payload = rpc[c].body
=============================================================================
