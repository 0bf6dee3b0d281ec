----------------------------- MODULE Nip46Bunker -----------------------------
(***************************************************************************)
(* NostrRemoteSignerBunker (nip46/bunker.ts) with one client: its life     *)
(* cycle, the session and the auth challenges of the client, and the ids   *)
(* of the requests it has seen, which it forgets after two minutes.        *)
(*                                                                         *)
(* A request is handled in one action: the awaits inside it wait for       *)
(* nothing but synchronous cryptography, and the response is sent on the   *)
(* relay connection the request came in on.  Rate limiting is in           *)
(* RequestLimiter: a limited request is answered to "unknown", which no    *)
(* client waits for, and so is like a lost one.                            *)
(***************************************************************************)
EXTENDS Nip46Wire

CONSTANTS RequireAuthChallenge,  \* the option requireAuthChallenge
          DefaultPermissions,    \* the option defaultPermissions
          RequestedPermissions,  \* those that connect requests ask for
          MaxLapses,             \* a bound: how often ids grow old or are dropped
          Verdicts               \* what the custom permission handler says:
                                 \* "allow", "deny" or, without one, "default"

ASSUME BunkerAssumption == RequireAuthChallenge \in BOOLEAN /\ MaxLapses \in Nat

Permissions == DefaultPermissions \cup RequestedPermissions

VARIABLES running,      \* has start() returned, and not yet stop()?
          hearing,      \* is the subscription to requests alive?
          session,      \* does the client have a session?
          challenges,   \* the pending challenges, by the requests they answer
          used,         \* usedRequestIds: the ids seen, "fresh" or "old"
          executions,   \* (history) how often a request was executed since its
                        \* id may have been forgotten
          lapses,       \* how often stop() or two minutes have passed
          approved      \* (history) has the owner admitted the present session?

bunkerVars == <<running, hearing, session, challenges, used, executions, lapses, approved>>

BunkerTypeOK ==
    /\ running \in BOOLEAN
    /\ hearing \in BOOLEAN
    /\ session \in BOOLEAN
    /\ challenges \in Seq(Ids)
    /\ used \in [Ids -> {"no", "fresh", "old"}]
    /\ executions \in [Ids -> Nat]
    /\ lapses \in 0 .. MaxLapses
    /\ approved \in BOOLEAN

BunkerInit ==
    /\ running = FALSE /\ hearing = FALSE
    /\ session = FALSE /\ challenges = <<>>
    /\ used = [id \in Ids |-> "no"]
    /\ executions = [id \in Ids |-> 0]
    /\ lapses = 0
    /\ approved = FALSE

-----------------------------------------------------------------------------
\* start(): connect to the relays, then subscribe and start the cleanup
\* interval.  A relay may have failed to connect.
start == /\ ~running
         /\ running' = TRUE
         /\ hearing' \in BOOLEAN
         /\ UNCHANGED <<session, challenges, used, executions, lapses, approved>>

\* stop(): everything is forgotten, the ids of past requests too.
stop == /\ running
        /\ lapses < MaxLapses
        /\ lapses' = lapses + 1
        /\ running' = FALSE /\ hearing' = FALSE
        /\ session' = FALSE /\ challenges' = <<>>
        /\ used' = [id \in Ids |-> "no"]
        /\ executions' = [id \in Ids |-> 0]
        /\ approved' = FALSE

-----------------------------------------------------------------------------
\* isReplayAttack: an id that is remembered is refused, another is recorded.


passesReplayCheck(id) == used[id] = "no" /\ used' = [used EXCEPT ![id] = "fresh"]

\* hasPermission: the custom handler is asked about signatures only, and its
\* answer is final unless it leaves the decision to the permissions.
hasPermission(method, verdict) ==
    /\ session
    /\ \/ method = "sign_event" /\ verdict = "allow"
       \/ /\ method # "sign_event" \/ verdict = "default"
          /\ method \in Permissions

\* Does a connect request have to wait for the owner?  A client that has a
\* session is not asked again.

\* Mutant: a client that has been challenged already is let in.
challengedOnlyOnce == RequireAuthChallenge /\ ~session /\ challenges = <<>>

challenged == RequireAuthChallenge /\ ~session

\* The handlers: what they do, and the result they answer with.
handleConnect(id, result) ==
    \/ /\ ~asked[id].secret
       /\ result = "error"
       /\ UNCHANGED <<session, challenges, approved>>
    \/ /\ asked[id].secret /\ challenged
       /\ result = "auth_required"
       /\ challenges' = Append(challenges, id)
       /\ UNCHANGED <<session, approved>>
    \/ /\ asked[id].secret /\ ~challenged
       /\ result = "ack"
       /\ session' = TRUE
       /\ approved' = (approved \/ ~RequireAuthChallenge)
       /\ UNCHANGED challenges

handleDisconnect(result) ==
    /\ result = "ack"
    /\ session' = FALSE /\ approved' = FALSE
    /\ UNCHANGED challenges

\* Malformed parameters make signing and encrypting fail.
handleSignEvent(result) ==
    /\ \E verdict \in Verdicts :
          result \in {"error"} \cup {done \in {"done"} : hasPermission("sign_event", verdict)}
    /\ UNCHANGED <<session, challenges, approved>>

handleEncryption(method, result) ==
    /\ result \in {"error"} \cup {done \in {"done"} : hasPermission(method, "default")}
    /\ UNCHANGED <<session, challenges, approved>>

\* The routing of a request.  The public key and ping are for anyone.
handle(id, result) ==
    LET method == asked[id].method
    IN  CASE method = "connect"    -> handleConnect(id, result)
          [] method = "disconnect" -> handleDisconnect(result)
          [] method = "sign_event" -> handleSignEvent(result)
          [] method \in {"get_public_key", "ping"} ->
               result = "done" /\ UNCHANGED <<session, challenges, approved>>
          [] OTHER -> handleEncryption(method, result)

\* handleRequest, from the replay check to the response.
handleRequest(id) ==
    /\ hearing
    /\ id \in requests
    /\ passesReplayCheck(id)
    /\ executions' = [executions EXCEPT ![id] = @ + 1]
    /\ \E result \in Results :
          /\ handle(id, result)
          /\ responses' = responses \cup {[id |-> id, result |-> result]}
    /\ UNCHANGED <<running, hearing, lapses, asked, requests>>

-----------------------------------------------------------------------------
\* resolveAuthChallenge: the owner admits the client; the first of its
\* challenges decides what it may do, and further ones stay.
resolveAuthChallenge ==
    /\ challenges # <<>>
    /\ session' = TRUE
    /\ challenges' = Tail(challenges)
    /\ approved' = TRUE
    /\ UNCHANGED <<running, hearing, used, executions, lapses>>

\* The timer of a challenge, set when it is created, or cleanup(): the oldest
\* challenge expires first.  The timers run on after stop().
challengeExpires ==
    /\ challenges # <<>>
    /\ challenges' = Tail(challenges)
    /\ UNCHANGED <<running, hearing, session, used, executions, lapses, approved>>

\* More than two minutes pass without a request.
twoMinutesPass ==
    /\ lapses < MaxLapses
    /\ lapses' = lapses + 1
    /\ \E id \in Ids : used[id] = "fresh"
    /\ used' = [id \in Ids |-> IF used[id] = "fresh" THEN "old" ELSE used[id]]
    /\ executions' = [id \in Ids |-> 0]
    /\ UNCHANGED <<running, hearing, session, challenges, approved>>

\* The cleanup interval of a running bunker.

\* Mutant: the ids are forgotten whatever their age.
cleanupOldRequestIdsAll == used' = [id \in Ids |-> "no"]

cleanupOldRequestIds == used' = [id \in Ids |-> IF used[id] = "old" THEN "no" ELSE used[id]]

cleanupTick ==
    /\ running
    /\ \E id \in Ids : used[id] = "old"
    /\ cleanupOldRequestIds
    /\ UNCHANGED <<running, hearing, session, challenges, executions, lapses, approved>>

\* The connection to the relays is lost, and the subscription with it.
bunkerRelaysLost ==
    /\ hearing
    /\ hearing' = FALSE
    /\ UNCHANGED <<running, session, challenges, used, executions, lapses, approved>>

BunkerNext ==
    \/ \E id \in requests : handleRequest(id)
    \/ /\ \/ start \/ stop
          \/ resolveAuthChallenge \/ challengeExpires
          \/ twoMinutesPass \/ cleanupTick \/ bunkerRelaysLost
       /\ UNCHANGED wireVars

-----------------------------------------------------------------------------
\* A request is executed at most once within two minutes while the bunker runs,
\* however many relays deliver it and however often (bunker.ts 251-292).
ExecutedOnce == \A id \in Ids : executions[id] <= 1

\* With challenges required, a client has a session only if the owner has
\* admitted it since it last had none: not by asking twice, nor by a request
\* that was delayed until after its goodbye (bunker.ts 299-378, 542-649).
SessionIsApproved == session => approved
=============================================================================
