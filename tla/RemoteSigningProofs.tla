-------------------------- MODULE RemoteSigningProofs --------------------------
(***************************************************************************)
(* Proofs about RemoteSigning for any finite number of callers and any     *)
(* settings of the bunker: the client settles each call exactly once, the  *)
(* bunker executes each request at most once while it remembers, and a     *)
(* client that believes it is connected was accepted.                      *)
(*                                                                         *)
(* The first two are facts about one side each.  The third crosses the     *)
(* wire: Answered says what the bunker may have written in the answers     *)
(* that are under way, and since requests are never renumbered an answer   *)
(* that comes in late still means what it meant.                           *)
(***************************************************************************)
EXTENDS RemoteSigning, SequenceTheorems, FiniteSetTheorems, TLAPS

\* No two callers wait for one request, and nobody refers to one not yet made.
AwaitedApart ==
  /\ outgoing \subseteq DOMAIN asked
  /\ \A c \in Callers : awaits[c] <= Len(asked)
  /\ \A c, d \in Callers : awaits[c] = awaits[d] /\ awaits[c] # 0 => c = d

\* What may have been answered: to a connect request without the secret, errors only.
Answered ==
  \A response \in responses :
    /\ response.id \in DOMAIN asked
    /\ asked[response.id].method = "connect" =>
         \/ response.result = "error"
         \/ response.result \in {"ack", "auth_required"} /\ asked[response.id].secret

\* An execution that counts is remembered: its id is fresh.
Remembered == \A id \in Ids : executions[id] # 0 => executions[id] = 1 /\ used[id] = "fresh"

ClientInv == WireTypeOK /\ ClientTypeOK /\ PendingMatches /\ AwaitedApart

BunkerInv == BunkerTypeOK /\ Remembered /\ SessionIsApproved

SigningInv == ClientInv /\ BunkerInv /\ Answered /\ ConnectedIsAccepted

-----------------------------------------------------------------------------
\* Requests are appended: those already made keep their position.
LEMMA AskedGrows ==
  ASSUME asked \in Seq(Request), NEW req \in Request, asked' = Append(asked, req)
  PROVE  /\ asked' \in Seq(Request)
         /\ Len(asked') = Len(asked) + 1
         /\ Len(asked) \in Nat
         /\ DOMAIN asked = 1 .. Len(asked) /\ DOMAIN asked' = 1 .. Len(asked) + 1
         /\ \A i \in DOMAIN asked : asked'[i] = asked[i]
         /\ asked'[Len(asked) + 1] = req
OBVIOUS

\* The bound on requests leaves an id for one more.
LEMMA NextIdIsFree ==
  ASSUME WireTypeOK, NEW c, Len(asked) + Cardinality(connecting \ {c}) < MaxRequests
  PROVE  Len(asked) + 1 \in Ids
<1>1. IsFiniteSet(connecting \ {c})
  <2>1. connecting \ {c} \subseteq Callers
    BY DEF connecting
  <2>2. QED
    BY <2>1, CallersAssumption, FS_Subset
<1>2. Cardinality(connecting \ {c}) \in Nat
  BY <1>1, FS_CardinalityType
<1>3. Len(asked) \in Nat
  BY DEF WireTypeOK
<1>4. QED
  BY <1>2, <1>3, RequestsAssumption DEF Ids

-----------------------------------------------------------------------------
\* The client.

\* A caller that waits for nothing sends a request: it alone waits for the new id.
LEMMA SendRequestKeeps ==
  ASSUME ClientInv, NEW c \in Callers, awaits[c] = 0, NEW req \in Request, NEW online \in BOOLEAN,
         sendRequest(c, req, online), UNCHANGED responses,
         connected' \in BOOLEAN, signer' \in BOOLEAN, userPubkey' \in BOOLEAN,
         up' \in BOOLEAN, listening' \in BOOLEAN
  PROVE  ClientInv'
<1> DEFINE id == Len(asked) + 1
<1> USE DEF ClientInv
<1>1. /\ id \in Ids
      /\ asked' = Append(asked, req)
      /\ pending' = pending \cup {id}
      /\ requests' = IF online THEN requests \cup {id} ELSE requests
      /\ outgoing' = IF online THEN outgoing ELSE outgoing \cup {id}
      /\ stage' = [stage EXCEPT ![c] = "answer"]
      /\ awaits' = [awaits EXCEPT ![c] = id]
  BY NextIdIsFree DEF sendRequest
<1>2. /\ asked' \in Seq(Request)
      /\ Len(asked') = id
      /\ Len(asked) \in Nat
      /\ DOMAIN asked = 1 .. Len(asked) /\ DOMAIN asked' = 1 .. id
  BY <1>1, AskedGrows DEF WireTypeOK
<1>3. id <= MaxRequests /\ MaxRequests \in Nat
  BY <1>1, RequestsAssumption DEF Ids
<1> HIDE DEF id
<1>4. WireTypeOK'
  <2>1. id \in 1 .. id /\ 1 .. Len(asked) \subseteq 1 .. id
    BY <1>2 DEF id
  <2>2. QED
    BY <1>1, <1>2, <1>3, <2>1 DEF WireTypeOK
<1>5. ClientTypeOK'
  BY <1>1 DEF ClientTypeOK, Stages
<1>6. \A d \in Callers : awaits[d] \in Nat /\ awaits[d] <= Len(asked)
  BY DEF ClientTypeOK, Ids, AwaitedApart
<1>7. \A d \in Callers : awaits'[d] = IF d = c THEN id ELSE awaits[d]
  BY <1>1 DEF ClientTypeOK
<1>8. \A d \in Callers : stage'[d] = IF d = c THEN "answer" ELSE stage[d]
  BY <1>1 DEF ClientTypeOK
<1>9. id # 0 /\ \A d \in Callers : awaits[d] # id
  BY <1>2, <1>6 DEF id
<1>10. AwaitedApart'
  <2>1. outgoing' \subseteq 1 .. id
    <3>1. id \in 1 .. id /\ 1 .. Len(asked) \subseteq 1 .. id
      BY <1>2 DEF id
    <3>2. QED
      BY <1>1, <1>2, <3>1 DEF AwaitedApart
  <2>2. QED
    BY <1>2, <1>6, <1>7, <1>9, <2>1 DEF AwaitedApart, id
<1>11. pending' = {awaits'[d] : d \in Callers} \ {0}
  <2>1. pending = {awaits[d] : d \in Callers} \ {0}
    BY DEF PendingMatches
  <2>2. {awaits'[d] : d \in Callers} = {id} \cup {awaits[d] : d \in Callers \ {c}}
    BY <1>7
  <2>3. {awaits[d] : d \in Callers} = {0} \cup {awaits[d] : d \in Callers \ {c}}
    OBVIOUS
  <2>4. QED
    BY <1>1, <1>9, <2>1, <2>2, <2>3
<1>12. \A d \in Callers : stage'[d] = "answer" <=> awaits'[d] # 0
  BY <1>7, <1>8, <1>9 DEF PendingMatches
<1>13. QED
  BY <1>4, <1>5, <1>10, <1>11, <1>12 DEF PendingMatches

\* cleanup: the pending requests and those that wait for them go together.
LEMMA CleanupKeeps ==
  ASSUME ClientInv, NEW c \in Callers, cleanup(c), UNCHANGED <<outgoing, wireVars>>
  PROVE  ClientInv' /\ ~connected'
<1> DEFINE over == {c} \cup {d \in Callers : awaits[d] \in pending}
<1> USE DEF ClientInv
<1>1. /\ ~connected' /\ connected' \in BOOLEAN
      /\ pending' = {}
      /\ stage'  = [d \in Callers |-> IF d \in over THEN "idle" ELSE stage[d]]
      /\ awaits' = [d \in Callers |-> IF d \in over THEN 0 ELSE awaits[d]]
  BY DEF cleanup
<1>2. \A d \in Callers : awaits'[d] = 0 /\ stage'[d] # "answer"
  BY <1>1 DEF PendingMatches
<1>3. ClientTypeOK'
  BY <1>1 DEF cleanup, ClientTypeOK, Stages
<1>4. WireTypeOK' /\ Len(asked') \in Nat
  BY DEF WireTypeOK, wireVars
<1>5. AwaitedApart'
  BY <1>2, <1>4 DEF AwaitedApart, wireVars
<1>6. PendingMatches'
  BY <1>1, <1>2 DEF PendingMatches
<1>7. QED
  BY <1>1, <1>3, <1>4, <1>5, <1>6

\* A promise is settled: its one caller returns.
LEMMA SettleKeeps ==
  ASSUME ClientInv, NEW id \in pending, NEW result, settle(id, result),
         UNCHANGED <<outgoing, wireVars>>
  PROVE  ClientInv'
<1> USE DEF ClientInv
<1>1. PICK c \in Callers :
        /\ awaits[c] = id
        /\ CASE asked[id].method = "disconnect" -> cleanup(c)
             [] asked[id].method = "connect" /\ (result = "timeout" \/ ~accepts(result))
                  -> cleanup(c)
             [] OTHER ->
                  /\ pending' = pending \ {id}
                  /\ connected' = (connected \/ asked[id].method = "connect")
                  /\ userPubkey' = (userPubkey \/ (asked[id].method = "get_public_key"
                                                   /\ result = "done"))
                  /\ Returns(c)
                  /\ UNCHANGED <<signer, up, listening>>
  BY DEF settle
<1>2. CASE cleanup(c)
  BY <1>2, CleanupKeeps
<1>3. CASE /\ pending' = pending \ {id}
           /\ connected' = (connected \/ asked[id].method = "connect")
           /\ userPubkey' = (userPubkey \/ (asked[id].method = "get_public_key"
                                            /\ result = "done"))
           /\ Returns(c)
           /\ UNCHANGED <<signer, up, listening>>
  <2>1. /\ connected' \in BOOLEAN /\ userPubkey' \in BOOLEAN
        /\ stage' = [stage EXCEPT ![c] = "idle"] /\ awaits' = [awaits EXCEPT ![c] = 0]
    BY <1>3 DEF Returns, ClientTypeOK
  <2>2. ClientTypeOK'
    BY <1>3, <2>1 DEF ClientTypeOK, Stages
  <2>3. WireTypeOK' /\ Len(asked') \in Nat
    BY DEF WireTypeOK, wireVars
  <2>4. \A d \in Callers : /\ awaits'[d] = IF d = c THEN 0 ELSE awaits[d]
                           /\ stage'[d] = IF d = c THEN "idle" ELSE stage[d]
    BY <2>1 DEF ClientTypeOK
  <2>5. id # 0
    BY DEF PendingMatches
  <2>6. AwaitedApart'
    BY <2>3, <2>4 DEF AwaitedApart, wireVars
  <2>7. \A d \in Callers : awaits[d] = id => d = c
    BY <1>1, <2>5 DEF AwaitedApart
  <2>8. PendingMatches'
    BY <1>1, <1>3, <2>4, <2>5, <2>7 DEF PendingMatches
  <2>9. QED
    BY <2>2, <2>3, <2>6, <2>8
<1>4. QED
  BY <1>1, <1>2, <1>3

\* The continuation of connect() asks, unless a cleanup has forgotten the signer.
LEMMA SubscribeAndAskKeeps ==
  ASSUME ClientInv, NEW c \in Callers, awaits[c] = 0, NEW online \in BOOLEAN, NEW known,
         subscribeAndAsk(c, online, known)
  PROVE  ClientInv'
<1>1. CASE known
  <2>1. PICK secret \in BOOLEAN :
          sendRequest(c, [method |-> "connect", secret |-> secret], online)
    BY <1>1 DEF subscribeAndAsk
  <2>2. [method |-> "connect", secret |-> secret] \in Request
    BY DEF Request
  <2>3. /\ connected' \in BOOLEAN /\ signer' \in BOOLEAN /\ userPubkey' \in BOOLEAN
        /\ up' \in BOOLEAN /\ listening' \in BOOLEAN /\ UNCHANGED responses
    BY <1>1 DEF subscribeAndAsk, ClientInv, ClientTypeOK
  <2>4. QED
    BY <2>1, <2>2, <2>3, SendRequestKeeps
<1>2. CASE ~known
  BY <1>2, CleanupKeeps DEF subscribeAndAsk
<1>3. QED
  BY <1>1, <1>2

\* Steps that make no request and settle none.
LEMMA NothingAskedKeeps ==
  ASSUME ClientInv, UNCHANGED <<asked, responses, pending, awaits>>, ClientTypeOK',
         requests' \subseteq DOMAIN asked, outgoing' \subseteq DOMAIN asked,
         \A d \in Callers : stage'[d] = "answer" <=> stage[d] = "answer"
  PROVE  ClientInv'
<1>1. WireTypeOK'
  BY DEF ClientInv, WireTypeOK
<1>2. PendingMatches'
  BY DEF ClientInv, PendingMatches
<1>3. AwaitedApart'
  BY DEF ClientInv, AwaitedApart
<1>4. QED
  BY <1>1, <1>2, <1>3 DEF ClientInv

\* Every step of the client keeps its invariant.
LEMMA ClientStep ==
  ASSUME ClientInv, ClientNext
  PROVE  ClientInv'
<1>1. /\ ClientTypeOK /\ WireTypeOK /\ up \in BOOLEAN /\ Len(asked) \in Nat
      /\ requests \subseteq DOMAIN asked /\ outgoing \subseteq DOMAIN asked
      /\ \A c \in Callers : stage[c] # "answer" => awaits[c] = 0
  BY DEF ClientInv, ClientTypeOK, WireTypeOK, PendingMatches, AwaitedApart
<1>2. ASSUME NEW c \in Callers, connect(c) PROVE ClientInv'
  <2>1. ClientTypeOK' /\ \A d \in Callers : stage'[d] = "answer" <=> stage[d] = "answer"
    BY <1>1, <1>2 DEF connect, ClientTypeOK, Stages
  <2>2. QED
    BY <1>1, <1>2, <2>1, NothingAskedKeeps DEF connect, wireVars
<1>3. ASSUME NEW c \in Callers, connectRelaysSettled(c) PROVE ClientInv'
  <2>1. awaits[c] = 0
    BY <1>1, <1>3 DEF connectRelaysSettled
  <2>2. CASE cleanup(c) /\ UNCHANGED <<outgoing, wireVars>>
    BY <2>2, CleanupKeeps
  <2>3. ASSUME NEW online \in {up, TRUE}, subscribeAndAsk(c, online, TRUE) PROVE ClientInv'
    <3>1. online \in BOOLEAN
      BY <1>1
    <3>2. QED
      BY <2>1, <2>3, <3>1, SubscribeAndAskKeeps
  <2>4. CASE /\ signer' = TRUE /\ up' = FALSE /\ listening' = FALSE
             /\ stage' = [stage EXCEPT ![c] = "bunkerRelays"]
             /\ UNCHANGED <<connected, userPubkey, pending, outgoing, awaits, wireVars>>
    <3>1. ClientTypeOK' /\ \A d \in Callers : stage'[d] = "answer" <=> stage[d] = "answer"
      BY <1>1, <1>3, <2>4 DEF connectRelaysSettled, ClientTypeOK, Stages
    <3>2. QED
      BY <1>1, <2>4, <3>1, NothingAskedKeeps DEF wireVars
  <2>5. QED
    BY <1>3, <2>2, <2>3, <2>4 DEF connectRelaysSettled
<1>4. ASSUME NEW c \in Callers, connectBunkerRelaysSettled(c) PROVE ClientInv'
  <2>1. awaits[c] = 0
    BY <1>1, <1>4 DEF connectBunkerRelaysSettled
  <2>2. PICK online \in {up, TRUE} : subscribeAndAsk(c, online, signer)
    BY <1>4 DEF connectBunkerRelaysSettled
  <2>3. online \in BOOLEAN
    BY <1>1
  <2>4. QED
    BY <2>1, <2>2, <2>3, SubscribeAndAskKeeps
<1>5. ASSUME NEW c \in Callers, disconnect(c) PROVE ClientInv'
  <2>1. awaits[c] = 0 /\ [method |-> "disconnect", secret |-> FALSE] \in Request
    BY <1>1, <1>5 DEF disconnect, Request
  <2>2. CASE connected /\ signer
    BY <1>1, <1>5, <2>1, <2>2, SendRequestKeeps DEF disconnect, ClientTypeOK
  <2>3. CASE ~(connected /\ signer)
    BY <1>5, <2>3, CleanupKeeps DEF disconnect
  <2>4. QED
    BY <2>2, <2>3
<1>6. ASSUME NEW c \in Callers, NEW method \in Operations, request(c, method) PROVE ClientInv'
  <2>1. awaits[c] = 0 /\ [method |-> method, secret |-> FALSE] \in Request
    BY <1>1, <1>6 DEF request, Request
  <2>2. QED
    BY <1>1, <1>6, <2>1, SendRequestKeeps DEF request, ClientTypeOK
<1>7. ASSUME NEW response \in responses, handleResponse(response) PROVE ClientInv'
  BY <1>7, SettleKeeps DEF handleResponse
<1>8. ASSUME NEW id \in Ids, requestTimeout(id) PROVE ClientInv'
  BY <1>8, SettleKeeps DEF requestTimeout
<1>9. ASSUME NEW id \in Ids, publishReconnected(id) PROVE ClientInv'
  <2>1. ClientTypeOK'
    BY <1>1, <1>9 DEF publishReconnected, ClientTypeOK
  <2>2. requests' \subseteq DOMAIN asked /\ outgoing' \subseteq DOMAIN asked
    BY <1>1, <1>9 DEF publishReconnected
  <2>3. QED
    BY <1>9, <2>1, <2>2, NothingAskedKeeps DEF publishReconnected
<1>10. CASE clientRelaysLost
  <2>1. ClientTypeOK'
    BY <1>1, <1>10 DEF clientRelaysLost, ClientTypeOK
  <2>2. QED
    BY <1>1, <1>10, <2>1, NothingAskedKeeps DEF clientRelaysLost, wireVars
<1>11. QED
  BY <1>2, <1>3, <1>4, <1>5, <1>6, <1>7, <1>8, <1>9, <1>10 DEF ClientNext

-----------------------------------------------------------------------------
\* The bunker.

\* A request is executed when its id is not remembered, and then it is.
LEMMA HandleRequestKeeps ==
  ASSUME WireTypeOK, BunkerInv, NEW id \in requests, handleRequest(id)
  PROVE  BunkerInv'
<1> USE DEF BunkerInv
<1>1. id \in Ids
  BY RequestsAssumption DEF WireTypeOK, Ids
<1>2. PICK result \in Results : handle(id, result)
  BY DEF handleRequest
<1>3. /\ session' \in BOOLEAN /\ approved' \in BOOLEAN /\ challenges' \in Seq(Ids)
      /\ session' => approved'
  <2>1. CASE handleConnect(id, result)
    <3>1. challenges' \in Seq(Ids)
      BY <1>1, <2>1 DEF handleConnect, BunkerTypeOK
    <3>2. session' \in BOOLEAN /\ approved' \in BOOLEAN
      BY <2>1, BunkerAssumption DEF handleConnect, BunkerTypeOK
    <3>3. session' => approved'
      BY <2>1 DEF handleConnect, challenged, SessionIsApproved
    <3>4. QED
      BY <3>1, <3>2, <3>3
  <2>2. CASE handleDisconnect(result)
    BY <2>2 DEF handleDisconnect, BunkerTypeOK
  <2>3. CASE UNCHANGED <<session, challenges, approved>>
    BY <2>3 DEF BunkerTypeOK, SessionIsApproved
  <2>4. QED
    BY <1>2, <2>1, <2>2, <2>3 DEF handle, handleSignEvent, handleEncryption
<1>4. /\ used[id] = "no" /\ used' = [used EXCEPT ![id] = "fresh"]
      /\ executions' = [executions EXCEPT ![id] = @ + 1]
      /\ UNCHANGED <<running, hearing, lapses>>
  BY DEF handleRequest, passesReplayCheck
<1>5. executions[id] = 0
  BY <1>1, <1>4 DEF Remembered
<1>6. BunkerTypeOK'
  BY <1>1, <1>3, <1>4, <1>5 DEF BunkerTypeOK
<1>7. Remembered'
  BY <1>1, <1>4, <1>5 DEF Remembered, BunkerTypeOK
<1>8. QED
  BY <1>3, <1>6, <1>7 DEF SessionIsApproved

\* Every step of the bunker keeps its invariant.
LEMMA BunkerStep ==
  ASSUME WireTypeOK, BunkerInv, BunkerNext
  PROVE  BunkerInv'
<1> USE DEF BunkerInv, Remembered, SessionIsApproved
<1>1. ASSUME NEW id \in requests, handleRequest(id) PROVE BunkerInv'
  BY <1>1, HandleRequestKeeps
<1>2. CASE start
  BY <1>2 DEF start, BunkerTypeOK
<1>3. CASE stop
  <2>1. challenges' \in Seq(Ids) /\ lapses' \in 0 .. MaxLapses
    BY <1>3, BunkerAssumption DEF stop, BunkerTypeOK
  <2>2. BunkerTypeOK'
    BY <1>3, <2>1 DEF stop, BunkerTypeOK
  <2>3. QED
    BY <1>3, <2>2 DEF stop
<1>4. CASE resolveAuthChallenge
  BY <1>4 DEF resolveAuthChallenge, BunkerTypeOK
<1>5. CASE challengeExpires
  BY <1>5 DEF challengeExpires, BunkerTypeOK
<1>6. CASE twoMinutesPass
  BY <1>6, BunkerAssumption DEF twoMinutesPass, BunkerTypeOK
<1>7. CASE cleanupTick
  BY <1>7 DEF cleanupTick, cleanupOldRequestIds, BunkerTypeOK
<1>8. CASE bunkerRelaysLost
  BY <1>8 DEF bunkerRelaysLost, BunkerTypeOK
<1>9. QED
  BY <1>1, <1>2, <1>3, <1>4, <1>5, <1>6, <1>7, <1>8 DEF BunkerNext

-----------------------------------------------------------------------------
\* The wire between them.

\* Neither side takes back a request or an answer.
LEMMA WireGrows ==
  ASSUME ClientInv, BunkerInv, Answered, Next
  PROVE  /\ DOMAIN asked \subseteq DOMAIN asked'
         /\ \A i \in DOMAIN asked : asked'[i] = asked[i]
         /\ responses \subseteq responses'
<1>1. asked \in Seq(Request)
  BY DEF ClientInv, WireTypeOK
<1>2. ASSUME NEW req \in Request, asked' = Append(asked, req)
      PROVE  DOMAIN asked \subseteq DOMAIN asked' /\ \A i \in DOMAIN asked : asked'[i] = asked[i]
  <2>1. 1 .. Len(asked) \subseteq 1 .. Len(asked) + 1
    BY <1>1
  <2>2. QED
    BY <1>1, <1>2, <2>1, AskedGrows
<1>3. CASE BunkerNext
  BY <1>3 DEF BunkerNext, handleRequest, wireVars
<1>4. CASE ClientNext
  <2>1. UNCHANGED responses
    BY <1>4 DEF ClientNext, connect, connectRelaysSettled, connectBunkerRelaysSettled, disconnect,
                request, handleResponse, requestTimeout, publishReconnected, clientRelaysLost,
                subscribeAndAsk, wireVars
  <2>2. UNCHANGED asked \/ \E req \in Request : asked' = Append(asked, req)
    <3>1. \A method \in Operations \cup {"connect", "disconnect"}, secret \in BOOLEAN :
            [method |-> method, secret |-> secret] \in Request
      BY DEF Request
    <3>2. QED
      BY <1>4, <3>1 DEF ClientNext, connect, connectRelaysSettled, connectBunkerRelaysSettled,
                disconnect, request, handleResponse, requestTimeout, publishReconnected,
                clientRelaysLost, subscribeAndAsk, sendRequest, wireVars
  <2>3. QED
    BY <1>2, <2>1, <2>2
<1>5. QED
  BY <1>3, <1>4 DEF Next

\* What the bunker answers to a connect request respects its secret.
LEMMA AnsweredStep ==
  ASSUME ClientInv, BunkerInv, Answered, Next
  PROVE  Answered'
<1> SUFFICES ASSUME NEW response \in responses'
             PROVE  /\ response.id \in DOMAIN asked'
                    /\ asked'[response.id].method = "connect" =>
                         \/ response.result = "error"
                         \/ /\ response.result \in {"ack", "auth_required"}
                            /\ asked'[response.id].secret
  BY DEF Answered
<1>1. CASE response \in responses
  BY <1>1, WireGrows DEF Answered
<1>2. CASE response \notin responses
  <2>1. BunkerNext
    BY <1>2 DEF Next, ClientNext, connect, connectRelaysSettled, connectBunkerRelaysSettled,
                disconnect, request, handleResponse, requestTimeout, publishReconnected,
                clientRelaysLost, subscribeAndAsk, wireVars
  <2>2. PICK id \in requests : handleRequest(id)
    BY <1>2, <2>1 DEF BunkerNext, wireVars
  <2>3. PICK result \in Results : /\ handle(id, result)
                                 /\ responses' = responses \cup {[id |-> id, result |-> result]}
    BY <2>2 DEF handleRequest
  <2>4. response = [id |-> id, result |-> result] /\ UNCHANGED asked
    BY <1>2, <2>2, <2>3 DEF handleRequest
  <2>5. id \in DOMAIN asked
    BY DEF ClientInv, WireTypeOK
  <2>6. asked[id].method = "connect" => handleConnect(id, result)
    BY <2>3 DEF handle
  <2>7. QED
    BY <2>4, <2>5, <2>6 DEF handleConnect
<1>3. QED
  BY <1>1, <1>2

\* A client comes to believe it is connected by an answer without an error to a
\* connect request, which carried the secret.
LEMMA ConnectedStep ==
  ASSUME SigningInv, Next
  PROVE  ConnectedIsAccepted'
<1> DEFINE Accepted(rs, as) == \E response \in rs : /\ as[response.id].method = "connect"
                                                   /\ as[response.id].secret
                                                   /\ response.result \in {"ack", "auth_required"}
<1>1. Accepted(responses, asked) => Accepted(responses', asked')
  BY WireGrows DEF SigningInv, Answered
<1>2. CASE connected' => connected
  BY <1>1, <1>2 DEF SigningInv, ConnectedIsAccepted
<1>3. CASE connected' /\ ~connected
  <2>0. \A response \in responses : response.result \in Results
    <3>1. responses \subseteq Response
      BY DEF SigningInv, ClientInv, WireTypeOK
    <3>2. \A response \in Response : response.result \in Results
      BY DEF Response
    <3>3. QED
      BY <3>1, <3>2
  <2>1. PICK id \in pending, result \in Results \cup {"timeout"} :
          /\ settle(id, result) /\ UNCHANGED wireVars
          /\ (result = "timeout" \/ \E response \in responses :
                                      response.id = id /\ response.result = result)
    BY <1>3, <2>0 DEF Next, ClientNext, connect, connectRelaysSettled, connectBunkerRelaysSettled,
                disconnect, request, handleResponse, requestTimeout, publishReconnected,
                clientRelaysLost, subscribeAndAsk, cleanup, clientVars
  <2>2. asked[id].method = "connect" /\ result # "timeout" /\ accepts(result)
    BY <1>3, <2>1 DEF settle, cleanup
  <2>3. Accepted(responses, asked)
    BY <2>1, <2>2 DEF SigningInv, Answered, accepts
  <2>4. QED
    BY <1>1, <2>3 DEF ConnectedIsAccepted
<1>4. QED
  BY <1>2, <1>3

\* Nothing has been asked, and the bunker remembers nothing.
LEMMA SigningInitially == Init => SigningInv
<1> SUFFICES ASSUME Init PROVE SigningInv
  OBVIOUS
<1> USE DEF Init, WireInit, ClientInit, BunkerInit
<1>1. WireTypeOK
  BY RequestsAssumption DEF WireTypeOK
<1>2. ClientTypeOK /\ PendingMatches /\ AwaitedApart
  <2>1. ClientTypeOK
    BY DEF ClientTypeOK, Stages
  <2>2. PendingMatches
    BY DEF PendingMatches
  <2>3. AwaitedApart
    BY DEF AwaitedApart
  <2>4. QED
    BY <2>1, <2>2, <2>3
<1>3. BunkerTypeOK /\ Remembered /\ SessionIsApproved
  <2>1. lapses \in 0 .. MaxLapses /\ challenges \in Seq(Ids)
    BY BunkerAssumption
  <2>2. BunkerTypeOK
    BY <2>1 DEF BunkerTypeOK
  <2>3. Remembered /\ SessionIsApproved
    BY DEF Remembered, SessionIsApproved
  <2>4. QED
    BY <2>2, <2>3
<1>4. Answered /\ ConnectedIsAccepted
  BY DEF Answered, ConnectedIsAccepted
<1>5. QED
  BY <1>1, <1>2, <1>3, <1>4 DEF SigningInv, ClientInv, BunkerInv

\* Every step of either side keeps the invariant of both.
LEMMA SigningStep == SigningInv /\ [Next]_vars => SigningInv'
<1> SUFFICES ASSUME SigningInv, [Next]_vars PROVE SigningInv'
  OBVIOUS
<1>1. CASE UNCHANGED vars
  BY <1>1 DEF vars, wireVars, clientVars, bunkerVars, SigningInv, ClientInv, BunkerInv, WireTypeOK,
              ClientTypeOK, PendingMatches, AwaitedApart, BunkerTypeOK, Remembered,
              SessionIsApproved, Answered, ConnectedIsAccepted
<1>2. CASE Next
  <2>1. Answered' /\ ConnectedIsAccepted'
    BY <1>2, AnsweredStep, ConnectedStep DEF SigningInv
  <2>2. CASE ClientNext /\ UNCHANGED bunkerVars
    <3>1. ClientInv'
      BY <2>2, ClientStep DEF SigningInv
    <3>2. BunkerInv'
      BY <2>2 DEF SigningInv, bunkerVars, BunkerInv, BunkerTypeOK, Remembered, SessionIsApproved
    <3>3. QED
      BY <2>1, <3>1, <3>2 DEF SigningInv
  <2>3. CASE BunkerNext /\ UNCHANGED clientVars
    <3>1. BunkerInv'
      BY <2>3, BunkerStep DEF SigningInv, ClientInv
    <3>2. WireTypeOK' /\ UNCHANGED asked
      <4>1. UNCHANGED <<asked, requests>>
        BY <2>3 DEF BunkerNext, handleRequest, wireVars
      <4>2. requests \subseteq Ids
        BY RequestsAssumption DEF SigningInv, ClientInv, WireTypeOK, Ids
      <4>3. responses' \subseteq Response
        BY <2>3, <4>2 DEF BunkerNext, handleRequest, wireVars, Response, SigningInv, ClientInv,
                          WireTypeOK
      <4>4. QED
        BY <4>1, <4>3 DEF SigningInv, ClientInv, WireTypeOK
    <3>3. ClientInv'
      BY <2>3, <3>2 DEF clientVars, SigningInv, ClientInv, ClientTypeOK, PendingMatches,
                        AwaitedApart
    <3>4. QED
      BY <2>1, <3>1, <3>3 DEF SigningInv
  <2>4. QED
    BY <1>2, <2>2, <2>3 DEF Next
<1>3. QED
  BY <1>1, <1>2

\* The invariant of the two sides and the wire holds throughout.
THEOREM SigningInvariant == Spec => []SigningInv
  BY SigningInitially, SigningStep, PTL DEF Spec

\* Whichever of an answer, its timeout and a cleanup comes first settles a call,
\* once, and nothing is kept of it (client.ts 121-167, 522-557).
THEOREM PendingAlwaysMatches == Spec => []PendingMatches
<1>1. SigningInv => PendingMatches
  BY DEF SigningInv, ClientInv
<1>2. QED
  BY <1>1, SigningInvariant, PTL

\* A request is executed at most once while its id is remembered, however often
\* the relays deliver it (bunker.ts 251-292).
THEOREM ExecutesOnce == Spec => []ExecutedOnce
<1>1. SigningInv => ExecutedOnce
  BY DEF SigningInv, BunkerInv, Remembered, ExecutedOnce, BunkerTypeOK
<1>2. QED
  BY <1>1, SigningInvariant, PTL

\* With challenges required, only the owner's approval gives a client a session
\* (bunker.ts 299-378, 542-649).
THEOREM SessionApproved == Spec => []SessionIsApproved
<1>1. SigningInv => SessionIsApproved
  BY DEF SigningInv, BunkerInv
<1>2. QED
  BY <1>1, SigningInvariant, PTL

\* Over relays that lose, delay and repeat messages, a client that believes it is
\* connected was accepted by the bunker (client.ts 239-253).
THEOREM ConnectedAccepted == Spec => []ConnectedIsAccepted
<1>1. SigningInv => ConnectedIsAccepted
  BY DEF SigningInv
<1>2. QED
  BY <1>1, SigningInvariant, PTL
==============================================================================
