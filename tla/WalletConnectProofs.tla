-------------------------- MODULE WalletConnectProofs --------------------------
(***************************************************************************)
(* NIP-47 for any number of callers, requests and faults and every wallet  *)
(* service: an initialized client is subscribed, a registered request is   *)
(* awaited by one caller, an answered one has an answer its client can     *)
(* read, and what it asks is encrypted as the service understands.         *)
(*                                                                         *)
(* The client's invariant says which attempt to initialize is the current  *)
(* one and whose subscription is held (Attempts), and which calls have a   *)
(* request registered (Registering); the service's, that a copy of a       *)
(* request that the wallet works on finds its scheme, unless it has been   *)
(* dropped, or another copy has been answered or could not be (Answering). *)
(***************************************************************************)
EXTENDS WalletConnect, SequenceTheorems, TLAPS

WireInv ==
  /\ asked \in Seq(Request)
  /\ requests \subseteq DOMAIN asked
  /\ service \in Services

Types ==
  /\ initialized \in BOOLEAN /\ up \in BOOLEAN /\ methods \in BOOLEAN
  /\ generation \in Nat
  /\ initializing \in Callers \cup {NoCaller} /\ subs \in Callers \cup {NoCaller}
  /\ live \subseteq Callers
  /\ stage \in [Callers -> Stages]
  /\ task \in [Callers -> Methods \cup {"init", "get_info"}]
  /\ born \in [Callers -> Nat]
  /\ awaits \in [Callers -> Nat]
  /\ outcome \in [Callers -> Outcomes]
  /\ tries \in [Callers -> Nat]

\* Is call c in the middle of initialize()?
Attempting(c) == stage[c] # "idle" /\ task[c] = "init"

\* The promise of init() is that of the one attempt of this generation.
Current ==
  /\ \A c \in Callers : born[c] <= generation
  /\ \A c \in Callers : initializing = c <=> Attempting(c) /\ born[c] = generation

\* subIds holds the subscription of the current attempt, from the time when the
\* relays were settled, or that of the one that succeeded.
Subscribed ==
  /\ InitializedIsSubscribed
  /\ ~initialized =>
       subs = IF initializing # NoCaller /\ stage[initializing] # "relays"
              THEN initializing ELSE NoCaller
  /\ initialized => \A c \in Callers : Attempting(c) => subs # c

\* Only getBalance is tried again, and the relays are awaited only by init().
Retrying ==
  \A c \in Callers :
    /\ stage[c] = "pausing" => task[c] = "get_balance"
    /\ stage[c] \in {"relays", "discovering"} => task[c] = "init"

\* Has the call a request, and is it registered?
Asking(c) == stage[c] \in {"sealing", "publishing", "answer"}
Registered(c) == stage[c] \in {"publishing", "answer"} /\ outcome[c] = "none"

\* Each call waits for a request of its own, and exactly those of the registered
\* calls are pending.
Registering ==
  /\ \A c \in Callers : IF Asking(c) THEN awaits[c] \in DOMAIN asked ELSE awaits[c] = 0
  /\ \A c, d \in Callers : Asking(c) /\ awaits[c] = awaits[d] => c = d
  /\ \A c \in Callers : outcome[c] # "none" => stage[c] = "publishing"
  /\ pending = {awaits[c] : c \in {d \in Callers : Registered(d)}}

\* What the client knows of the service is right.
Knowing ==
  /\ methods \/ initialized => encryption = service.schemes
  /\ SchemeIsSupported

ClientInv == Types /\ Current /\ Subscribed /\ Retrying /\ Registering /\ Knowing

\* Is there an answer in the scheme of the request?
Answered(id) == \E response \in responses : response.id = id /\ response.scheme = asked[id].scheme

ServiceTypes ==
  /\ working \in [Ids -> Nat] /\ answering \in [Ids -> Nat]
  /\ responses \subseteq [id : DOMAIN asked, scheme : Schemes, result : Results]

Answering ==
  \A id \in Ids :
    /\ working[id] > 0 => id \in DOMAIN asked /\ (id \in stored \cup dropped \cup unsent \/ Answered(id))
    /\ answering[id] > 0 => id \in dropped \cup unsent \/ Answered(id)

ServiceInv == ServiceTypes /\ Answering /\ AnswerIsReadable

WalletInv == WireInv /\ ClientInv /\ ServiceInv

-----------------------------------------------------------------------------
\* One call changes its place; the others stay where they are.
Moves(c) ==
  /\ stage' \in [Callers -> Stages] /\ awaits' \in [Callers -> Nat] /\ outcome' \in [Callers -> Outcomes]
  /\ \A d \in Callers : d # c => stage'[d] = stage[d] /\ awaits'[d] = awaits[d] /\ outcome'[d] = outcome[d]

LEMMA EndsMoves ==
  ASSUME Types, NEW c \in Callers, Ends(c)
  PROVE  /\ Moves(c)
         /\ stage'[c] = "idle" /\ awaits'[c] = 0 /\ outcome'[c] = "none"
         /\ task' \in [Callers -> Methods \cup {"init", "get_info"}]
         /\ born' \in [Callers -> Nat] /\ tries' \in [Callers -> Nat] /\ born'[c] = 0
         /\ \A d \in Callers : d # c => task'[d] = task[d] /\ born'[d] = born[d]
  BY DEF Types, Ends, Moves, Stages, Outcomes

\* A call that is done with its request, if it had one, leaves it no longer pending.
LEMMA LeavesRegistering ==
  ASSUME Types, Registering, NEW c \in Callers, Moves(c),
         stage'[c] \in {"idle", "pausing", "relays", "discovering"}, awaits'[c] = 0, outcome'[c] = "none",
         asked' = asked, asked \in Seq(Request), pending' = pending \ {awaits[c]}
  PROVE  Registering'
<1> USE DEF Registering, Asking, Registered, Moves
<1>1. \A d \in Callers : IF Asking(d) THEN awaits[d] \in DOMAIN asked ELSE awaits[d] = 0
  OBVIOUS
<1>2. \A d \in Callers : IF Asking(d)' THEN awaits'[d] \in DOMAIN asked' ELSE awaits'[d] = 0
  OBVIOUS
<1>3. \A d, e \in Callers : Asking(d)' /\ awaits'[d] = awaits'[e] => d = e
  <2>1. 0 \notin DOMAIN asked
    OBVIOUS
  <2>2. QED
    BY <2>1
<1>4. \A d \in Callers : outcome'[d] # "none" => stage'[d] = "publishing"
  OBVIOUS
<1>5. pending' = {awaits'[d] : d \in {e \in Callers : Registered(e)'}}
  <2>1. ~Registered(c)' /\ \A d \in Callers \ {c} : Registered(d)' = Registered(d)
    OBVIOUS
  <2>2. \A d \in Callers \ {c} : Registered(d) => awaits[d] # awaits[c]
    OBVIOUS
  <2>3. QED
    BY <2>1, <2>2
<1>6. QED
  BY <1>2, <1>3, <1>4, <1>5

\* A call asks: its request is new, and not pending yet.
LEMMA AskRegisters ==
  ASSUME Types, Registering, asked \in Seq(Request), NEW c \in Callers, ~Asking(c),
         NEW method \in Methods \cup {"get_info"}, chooseEncryptionScheme \in Schemes,
         ask(c, method), outcome' = outcome, pending' = pending
  PROVE  /\ Registering' /\ Moves(c)
         /\ asked' \in Seq(Request)
         /\ DOMAIN asked' = DOMAIN asked \cup {Len(asked) + 1}
         /\ \A id \in DOMAIN asked : asked'[id] = asked[id]
         /\ asked'[Len(asked) + 1] = [method |-> method, scheme |-> chooseEncryptionScheme]
         /\ stage'[c] = "sealing"
<1>1. [method |-> method, scheme |-> chooseEncryptionScheme] \in Request
  BY DEF Request
<1>2. /\ asked' \in Seq(Request)
      /\ DOMAIN asked' = DOMAIN asked \cup {Len(asked) + 1}
      /\ \A id \in DOMAIN asked : asked'[id] = asked[id]
      /\ asked'[Len(asked) + 1] = [method |-> method, scheme |-> chooseEncryptionScheme]
      /\ Len(asked) + 1 \notin DOMAIN asked /\ Len(asked) + 1 \in Nat \ {0}
  BY <1>1 DEF ask
<1>3. /\ Moves(c) /\ stage'[c] = "sealing" /\ awaits'[c] = Len(asked) + 1 /\ outcome'[c] = outcome[c]
  BY <1>2 DEF Types, ask, Moves, Stages
<1>4. Registering'
  <2> USE DEF Registering, Asking, Registered, Moves
  <2>1. \A d \in Callers : IF Asking(d)' THEN awaits'[d] \in DOMAIN asked' ELSE awaits'[d] = 0
    BY <1>2, <1>3
  <2>2. \A d, e \in Callers : Asking(d)' /\ awaits'[d] = awaits'[e] => d = e
    <3>1. \A d \in Callers : d # c => awaits'[d] # Len(asked) + 1 /\ awaits'[d] = awaits[d]
      BY <1>2, <1>3
    <3>2. \A d \in Callers : d # c => Asking(d)' = Asking(d)
      BY <1>3
    <3> HIDE DEF Asking
    <3>3. QED
      BY <1>3, <3>1, <3>2
  <2>3. \A d \in Callers : outcome'[d] # "none" => stage'[d] = "publishing"
    BY <1>3
  <2>4. pending' = {awaits'[d] : d \in {e \in Callers : Registered(e)'}}
    <3>1. ~Registered(c)' /\ ~Registered(c) /\ \A d \in Callers \ {c} : Registered(d)' = Registered(d)
      BY <1>3
    <3>2. pending = {awaits[d] : d \in {e \in Callers : Registered(e)}}
      OBVIOUS
    <3>3. \A d \in Callers \ {c} : awaits'[d] = awaits[d]
      BY <1>3
    <3> HIDE DEF Registered
    <3>4. QED
      BY ONLY <3>1, <3>2, <3>3, pending' = pending
  <2>5. QED
    BY <2>1, <2>2, <2>3, <2>4
<1>5. QED
  BY <1>2, <1>3, <1>4

-----------------------------------------------------------------------------
\* The end of an attempt.  One that disconnect() has cancelled disturbs nothing.
LEMMA FailKeeps ==
  ASSUME Types, Current, Subscribed, NEW c \in Callers, Attempting(c),
         initFails(c), generation' = generation
  PROVE  /\ Current' /\ Subscribed'
         /\ initialized' \in BOOLEAN /\ (initialized' => initialized)
         /\ initializing' \in Callers \cup {NoCaller} /\ subs' \in Callers \cup {NoCaller}
         /\ live' \subseteq Callers
<1> USE DEF initFails, promiseSettled
<1>0. /\ Moves(c) /\ stage'[c] = "idle" /\ born'[c] = 0
      /\ \A d \in Callers : d # c => task'[d] = task[d] /\ born'[d] = born[d]
  BY EndsMoves
<1>1. \A d \in Callers : Attempting(d)' <=> d # c /\ Attempting(d)
  BY <1>0 DEF Attempting, Moves
<1>2. NoCaller \notin Callers
  BY ClientAssumption
<1>3. Current'
  BY <1>0, <1>1, <1>2 DEF Current, Types
<1>4. Subscribed'
  <2>1. CASE born[c] = generation
    <3>1. initializing = c /\ ~initialized
      BY <1>2, <2>1 DEF Current, Subscribed, InitializedIsSubscribed
    <3>2. subs \in {c, NoCaller} /\ live \subseteq {subs}
      BY <1>2, <3>1 DEF Subscribed, InitializedIsSubscribed
    <3>3. initializing' = NoCaller /\ ~initialized' /\ subs' = NoCaller
      BY <2>1, <3>1, <3>2
    <3>4. live' = {}
      <4>1. NoCaller \notin live
        BY <1>2 DEF Types
      <4>2. QED
        BY <3>2, <4>1
    <3>5. QED
      BY <3>3, <3>4 DEF Subscribed, InitializedIsSubscribed
  <2>2. CASE born[c] # generation
    <3>1. initializing # c /\ initializing' = initializing /\ initialized' = initialized
      BY <1>2, <2>2 DEF Current
    <3>2. subs # c
      BY <1>2, <3>1 DEF Subscribed
    <3>3. subs' = subs /\ live' \subseteq live
      BY <3>2
    <3>4. initializing # NoCaller => stage'[initializing] = stage[initializing]
      BY <1>0, <3>1 DEF Moves, Types
    <3>5. InitializedIsSubscribed'
      BY <3>1, <3>3 DEF Subscribed, InitializedIsSubscribed
    <3>6. ~initialized' =>
             subs' = IF initializing' # NoCaller /\ stage'[initializing'] # "relays"
                     THEN initializing' ELSE NoCaller
      <4>1. ~initialized => subs = IF initializing # NoCaller /\ stage[initializing] # "relays"
                                   THEN initializing ELSE NoCaller
        BY DEF Subscribed
      <4>2. QED
        BY ONLY <3>1, <3>3, <3>4, <4>1
    <3>7. initialized' => \A d \in Callers : Attempting(d)' => subs' # d
      BY <1>1, <3>1, <3>3 DEF Subscribed
    <3>8. QED
      BY ONLY <3>5, <3>6, <3>7 DEF Subscribed
  <2>3. QED
    BY <2>1, <2>2
<1>5. /\ initialized' \in BOOLEAN /\ (initialized' => initialized)
  BY DEF Types
<1>6. QED
  BY <1>3, <1>4, <1>5 DEF Types

LEMMA SucceedKeeps ==
  ASSUME Types, Current, Subscribed, NEW c \in Callers, Attempting(c), isCurrent(c), stage[c] # "relays",
         initSucceeds(c), generation' = generation
  PROVE  /\ Current' /\ Subscribed' /\ initialized'
         /\ initializing' \in Callers \cup {NoCaller} /\ UNCHANGED <<live, subs>>
<1> USE DEF initSucceeds, promiseSettled, isCurrent
<1>0. /\ Moves(c) /\ stage'[c] = "idle" /\ born'[c] = 0
      /\ \A d \in Callers : d # c => task'[d] = task[d] /\ born'[d] = born[d]
  BY EndsMoves
<1>1. \A d \in Callers : Attempting(d)' <=> d # c /\ Attempting(d)
  BY <1>0 DEF Attempting, Moves
<1>2. NoCaller \notin Callers
  BY ClientAssumption
<1>3. Current'
  BY <1>0, <1>1, <1>2 DEF Current, Types
<1>4. initializing = c /\ ~initialized /\ subs = c
  BY <1>2 DEF Current, Subscribed, InitializedIsSubscribed
<1>5. Subscribed'
  BY <1>1, <1>2, <1>4 DEF Subscribed, InitializedIsSubscribed
<1>6. QED
  BY <1>3, <1>4, <1>5

\* A call that is no attempt to initialize, or an attempt that goes on beyond the
\* relays, leaves what init() has made alone.
LEMMA PlaceKeeps ==
  ASSUME Types, Current, Subscribed, NEW c \in Callers, Moves(c),
         Attempting(c)' <=> Attempting(c),
         Attempting(c) => born'[c] = born[c] /\ (stage'[c] = "relays" <=> stage[c] = "relays"),
         born'[c] <= generation,
         \A d \in Callers : d # c => task'[d] = task[d] /\ born'[d] = born[d],
         UNCHANGED <<initialized, generation, initializing, subs, live>>
  PROVE  Current' /\ Subscribed'
<1>0. NoCaller \notin Callers
  BY ClientAssumption
<1>1. \A d \in Callers : Attempting(d)' <=> Attempting(d)
  BY DEF Attempting, Moves
<1>2. Current'
  BY <1>1 DEF Current
<1>3. initializing # NoCaller => (stage'[initializing] = "relays" <=> stage[initializing] = "relays")
  <2>1. CASE initializing = c
    BY <2>1 DEF Current
  <2>2. CASE initializing # c
    BY <2>2 DEF Types, Moves
  <2>3. QED
    BY <2>1, <2>2
<1>4. InitializedIsSubscribed'
  BY DEF Subscribed, InitializedIsSubscribed
<1>5. ~initialized' =>
         subs' = IF initializing' # NoCaller /\ stage'[initializing'] # "relays"
                 THEN initializing' ELSE NoCaller
  <2>1. ~initialized => subs = IF initializing # NoCaller /\ stage[initializing] # "relays"
                               THEN initializing ELSE NoCaller
    BY DEF Subscribed
  <2>2. QED
    BY ONLY <1>3, <2>1, UNCHANGED <<initialized, initializing, subs>>
<1>6. initialized' => \A d \in Callers : Attempting(d)' => subs' # d
  BY <1>1 DEF Subscribed
<1>7. Subscribed'
  BY ONLY <1>4, <1>5, <1>6 DEF Subscribed
<1>8. QED
  BY <1>2, <1>7

\* The request of a call that is not registered is not pending.
LEMMA NotPending ==
  ASSUME Registering, NEW c \in Callers, Asking(c), ~Registered(c)
  PROVE  awaits[c] \notin pending
  BY DEF Registering, Registered, Asking

\* The promise of a request is settled and the call goes on.
LEMMA GoesOnKeeps ==
  ASSUME WireInv, ClientInv, NEW c \in Callers, NEW result, Asking(c), goesOn(c, result),
         up' \in BOOLEAN, UNCHANGED <<generation, asked, service>>, pending' = pending \ {awaits[c]}
  PROVE  ClientInv'
<1> USE DEF ClientInv
<1>0. asked \in Seq(Request) /\ SchemeIsSupported' /\ generation' \in Nat
  BY DEF WireInv, Knowing, SchemeIsSupported, Types
<1>1. ASSUME Ends(c), methods' \in BOOLEAN, initialized' \in BOOLEAN,
             initializing' \in Callers \cup {NoCaller}, subs' \in Callers \cup {NoCaller},
             live' \subseteq Callers
      PROVE  Types' /\ Retrying' /\ Registering'
  <2>1. /\ Moves(c) /\ stage'[c] = "idle" /\ awaits'[c] = 0 /\ outcome'[c] = "none"
        /\ task' \in [Callers -> Methods \cup {"init", "get_info"}]
        /\ born' \in [Callers -> Nat] /\ tries' \in [Callers -> Nat]
        /\ \A d \in Callers : d # c => task'[d] = task[d] /\ born'[d] = born[d]
    BY <1>1, EndsMoves
  <2>2. Types'
    BY <1>0, <1>1, <2>1 DEF Types, Moves
  <2>3. Retrying'
    BY <2>1 DEF Retrying, Moves
  <2>4. Registering'
    BY <1>0, <2>1, LeavesRegistering
  <2>5. QED
    BY <2>2, <2>3, <2>4
<1>2. ASSUME task[c] = "init", isCurrent(c), NEW known \in BOOLEAN, learns(known, service.schemes),
             initSucceeds(c)
      PROVE  ClientInv'
  <2>1. Attempting(c) /\ stage[c] # "relays"
    BY <1>2 DEF Attempting, Asking
  <2>2. /\ Current' /\ Subscribed' /\ initialized'
        /\ initializing' \in Callers \cup {NoCaller} /\ UNCHANGED <<live, subs>>
    BY <1>2, <2>1, SucceedKeeps
  <2>3. Ends(c) /\ methods' = known /\ encryption' = service.schemes /\ initialized' = TRUE
    BY <1>2 DEF initSucceeds, learns
  <2>4. Types' /\ Retrying' /\ Registering'
    BY <1>1, <1>2, <2>2, <2>3 DEF Types
  <2>5. Knowing'
    BY <1>0, <2>3 DEF Knowing
  <2>6. QED
    BY <2>2, <2>4, <2>5
<1>3. ASSUME task[c] = "init", initFails(c), UNCHANGED <<methods, encryption>>
      PROVE  ClientInv'
  <2>1. Attempting(c)
    BY <1>3 DEF Attempting, Asking
  <2>2. /\ Current' /\ Subscribed' /\ initialized' \in BOOLEAN /\ (initialized' => initialized)
        /\ initializing' \in Callers \cup {NoCaller} /\ subs' \in Callers \cup {NoCaller}
        /\ live' \subseteq Callers
    BY <1>3, <2>1, FailKeeps
  <2>3. Types' /\ Retrying' /\ Registering'
    <3>1. Ends(c) /\ methods' \in BOOLEAN
      BY <1>3 DEF initFails, Types
    <3>2. QED
      BY <1>1, <2>2, <3>1
  <2>4. Knowing'
    BY <1>0, <1>3, <2>2 DEF Knowing
  <2>5. QED
    BY <2>2, <2>3, <2>4
<1>4. ASSUME task[c] # "init", Ends(c), UNCHANGED <<initialized, initializing, subs, live>>,
             \/ UNCHANGED <<methods, encryption>>
             \/ methods' \in BOOLEAN /\ encryption' = service.schemes
      PROVE  ClientInv'
  <2>1. Types' /\ Retrying' /\ Registering'
    BY <1>1, <1>4 DEF Types
  <2>2. Current' /\ Subscribed'
    <3>1. /\ Moves(c) /\ stage'[c] = "idle" /\ born'[c] = 0
          /\ \A d \in Callers : d # c => task'[d] = task[d] /\ born'[d] = born[d]
      BY <1>4, EndsMoves
    <3>2. ~Attempting(c) /\ ~Attempting(c)' /\ born'[c] <= generation
      BY <1>4, <3>1 DEF Attempting, Types
    <3>3. QED
      BY <1>4, <3>1, <3>2, PlaceKeeps
  <2>3. Knowing'
    BY <1>0, <1>4 DEF Knowing
  <2>4. QED
    BY <2>1, <2>2, <2>3
<1>5. ASSUME retries(c, result), tries' = [tries EXCEPT ![c] = @ + 1],
             stage' = [stage EXCEPT ![c] = "pausing"], awaits' = [awaits EXCEPT ![c] = 0],
             outcome' = [outcome EXCEPT ![c] = "none"],
             UNCHANGED <<initialized, initializing, subs, live, methods, encryption, task, born>>
      PROVE  ClientInv'
  <2>1. /\ Moves(c) /\ stage'[c] = "pausing" /\ awaits'[c] = 0 /\ outcome'[c] = "none"
        /\ tries' \in [Callers -> Nat] /\ task[c] = "get_balance"
    BY <1>5 DEF Types, Moves, Stages, Outcomes, retries
  <2>2. Types'
    BY <1>0, <1>5, <2>1 DEF Types, Moves
  <2>3. Retrying'
    BY <1>5, <2>1 DEF Retrying, Moves
  <2>4. Registering'
    BY <1>0, <2>1, LeavesRegistering
  <2>5. Current' /\ Subscribed'
    <3>1. ~Attempting(c) /\ ~Attempting(c)' /\ born'[c] <= generation
      BY <1>5, <2>1 DEF Attempting, Current
    <3>2. QED
      BY <1>5, <2>1, <3>1, PlaceKeeps
  <2>6. Knowing'
    BY <1>0, <1>5 DEF Knowing
  <2>7. QED
    BY <2>2, <2>3, <2>4, <2>5, <2>6
<1>6. QED
  BY <1>2, <1>3, <1>4, <1>5 DEF goesOn, learns

-----------------------------------------------------------------------------
\* A client that knows the service, or prefers what it can, chooses a scheme.
LEMMA ChoosesScheme ==
  ASSUME Types
  PROVE  /\ chooseEncryptionScheme \in Schemes
         /\ service \in Services /\ encryption = service.schemes =>
              chooseEncryptionScheme \in service.schemes
<1>1. chooseEncryptionScheme \in Schemes
  BY ClientAssumption DEF chooseEncryptionScheme, Schemes
<1>2. ASSUME service \in Services, encryption = service.schemes
      PROVE  chooseEncryptionScheme \in service.schemes
  <2>1. service.schemes \in (SUBSET Schemes) \ {{}}
    BY <1>2, ServicesAssumption
  <2>2. QED
    BY <1>2, <2>1 DEF chooseEncryptionScheme, Schemes
<1>3. QED
  BY <1>1, <1>2

\* A call makes a request: get_info, or one of an initialized client.
LEMMA AskKeeps ==
  ASSUME WireInv, ClientInv, NEW c \in Callers, ~Asking(c), stage[c] # "relays",
         NEW method \in Methods \cup {"get_info"}, method = "get_info" \/ initialized,
         ask(c, method), Attempting(c)' <=> Attempting(c),
         UNCHANGED <<initialized, generation, initializing, subs, live, up, methods, encryption,
                     pending, born, outcome, tries>>,
         task' \in [Callers -> Methods \cup {"init", "get_info"}],
         \A d \in Callers : d # c => task'[d] = task[d]
  PROVE  WireInv' /\ ClientInv'
<1> USE DEF ClientInv, WireInv
<1>1. /\ Registering' /\ Moves(c) /\ stage'[c] = "sealing"
      /\ asked' \in Seq(Request)
      /\ DOMAIN asked' = DOMAIN asked \cup {Len(asked) + 1}
      /\ \A id \in DOMAIN asked : asked'[id] = asked[id]
      /\ asked'[Len(asked) + 1] = [method |-> method, scheme |-> chooseEncryptionScheme]
  BY ChoosesScheme, AskRegisters
<1>2. WireInv'
  BY <1>1 DEF ask
<1>3. Types'
  BY <1>1 DEF Types, Moves
<1>4. Current' /\ Subscribed'
  BY <1>1, PlaceKeeps DEF Current
<1>5. Retrying'
  BY <1>1 DEF Retrying, Moves
<1>6. Knowing'
  <2>1. service' = service
    BY DEF ask
  <2>2. ASSUME NEW id \in DOMAIN asked', asked'[id].method # "get_info"
        PROVE  asked'[id].scheme \in service.schemes
    <3>1. CASE id \in DOMAIN asked
      BY <1>1, <2>2, <3>1 DEF Knowing, SchemeIsSupported
    <3>2. CASE id = Len(asked) + 1
      <4>1. initialized /\ asked'[id].scheme = chooseEncryptionScheme
        BY <1>1, <2>2, <3>2
      <4>2. QED
        BY <4>1, ChoosesScheme DEF Knowing
    <3>3. QED
      BY <1>1, <3>1, <3>2
  <2>3. QED
    BY <2>1, <2>2 DEF Knowing, SchemeIsSupported
<1>7. QED
  BY <1>1, <1>2, <1>3, <1>4, <1>5, <1>6

\* init() and what it does when the relays are settled and when it knows the service.
LEMMA InitKeeps ==
  ASSUME WireInv, ClientInv, NEW c \in Callers, init(c) \/ initRelaysSettled(c) \/ discovered(c)
  PROVE  WireInv' /\ ClientInv'
<1> USE DEF ClientInv
<1>0. NoCaller \notin Callers /\ asked \in Seq(Request)
  BY ClientAssumption DEF WireInv
<1>1. CASE init(c)
  <2> USE <1>1 DEF init
  <2>1. WireInv' /\ Knowing'
    BY DEF WireInv, Knowing, SchemeIsSupported, wireVars
  <2>2. Types' /\ Moves(c) /\ stage'[c] = "relays" /\ task'[c] = "init" /\ born'[c] = generation
        /\ \A d \in Callers : d # c => task'[d] = task[d] /\ born'[d] = born[d]
    BY DEF Types, Moves, Stages
  <2>3. Attempting(c)' /\ ~Attempting(c) /\ \A d \in Callers : d # c => Attempting(d)' = Attempting(d)
    BY <2>2 DEF Attempting, Moves
  <2>4. Current'
    BY <1>0, <2>2, <2>3 DEF Current, Types
  <2>5. Subscribed'
    <3>1. subs = NoCaller
      BY DEF Subscribed
    <3>2. QED
      BY <1>0, <2>2, <3>1 DEF Subscribed, InitializedIsSubscribed
  <2>6. Retrying'
    BY <2>2 DEF Retrying, Moves
  <2>7. Registering'
    <3>1. ~Asking(c) /\ awaits[c] = 0 /\ outcome[c] = "none"
      BY DEF Registering, Asking
    <3>2. 0 \notin pending
      BY <1>0 DEF Registering, Registered, Asking
    <3>3. QED
      BY <1>0, <2>2, <3>1, <3>2, LeavesRegistering DEF wireVars
  <2>8. QED
    BY <2>1, <2>2, <2>4, <2>5, <2>6, <2>7
<1>2. ASSUME stage[c] \in {"relays", "discovering"}, initFails(c),
             up' \in BOOLEAN, UNCHANGED <<generation, methods, encryption, pending, wireVars>>
      PROVE  WireInv' /\ ClientInv'
  <2>1. Attempting(c)
    BY <1>2 DEF Attempting, Retrying
  <2>2. /\ Current' /\ Subscribed' /\ initialized' \in BOOLEAN /\ (initialized' => initialized)
        /\ initializing' \in Callers \cup {NoCaller} /\ subs' \in Callers \cup {NoCaller}
        /\ live' \subseteq Callers
    BY <1>2, <2>1, FailKeeps
  <2>3. /\ Moves(c) /\ stage'[c] = "idle" /\ awaits'[c] = 0 /\ outcome'[c] = "none"
        /\ task' \in [Callers -> Methods \cup {"init", "get_info"}]
        /\ born' \in [Callers -> Nat] /\ tries' \in [Callers -> Nat]
        /\ \A d \in Callers : d # c => task'[d] = task[d]
    BY <1>2, EndsMoves DEF initFails
  <2>4. Types'
    BY <1>2, <2>2, <2>3 DEF Types, Moves
  <2>5. Retrying'
    BY <2>3 DEF Retrying, Moves
  <2>6. Registering'
    <3>1. awaits[c] = 0 /\ 0 \notin pending
      BY <1>0, <1>2 DEF Registering, Registered, Asking
    <3>2. QED
      BY <1>0, <1>2, <2>3, <3>1, LeavesRegistering DEF wireVars
  <2>7. WireInv' /\ Knowing'
    BY <1>2, <2>2 DEF WireInv, Knowing, SchemeIsSupported, wireVars
  <2>8. QED
    BY <2>2, <2>4, <2>5, <2>6, <2>7
<1>3. CASE initRelaysSettled(c)
  <2>1. CASE initFails(c)
    BY <1>2, <1>3, <2>1 DEF initRelaysSettled, Types
  <2>2. CASE ~initFails(c)
    <3>1. PICK online \in {up, TRUE} : up' = online /\ setupSubscription(c, online)
      BY <1>3, <2>2 DEF initRelaysSettled
    <3>2. /\ stage[c] = "relays" /\ born[c] = generation
          /\ stage' = [stage EXCEPT ![c] = "discovering"]
          /\ UNCHANGED <<initialized, initializing, task, born, awaits, outcome, tries,
                         generation, methods, encryption, pending, wireVars>>
      BY <1>3, <2>2 DEF initRelaysSettled, isCurrent
    <3>3. Attempting(c) /\ initializing = c /\ ~initialized
      BY <1>0, <3>2 DEF Attempting, Retrying, Current, Subscribed, InitializedIsSubscribed
    <3>4. subs = NoCaller /\ live = {}
      <4>1. subs = NoCaller
        BY <3>2, <3>3 DEF Subscribed
      <4>2. QED
        BY <1>0, <4>1 DEF Subscribed, InitializedIsSubscribed, Types
    <3>5. subs' = c /\ live' \in {{}, {c}}
      BY <3>1, <3>4 DEF setupSubscription
    <3>6. Types' /\ Moves(c) /\ stage'[c] = "discovering"
      BY <3>1, <3>2, <3>5 DEF Types, Moves, Stages
    <3>7. \A d \in Callers : Attempting(d)' <=> Attempting(d)
      BY <3>2, <3>3, <3>6 DEF Attempting, Moves
    <3>8. Current'
      BY <3>2, <3>7 DEF Current
    <3>9. Subscribed'
      BY <1>0, <3>2, <3>3, <3>5, <3>6 DEF Subscribed, InitializedIsSubscribed
    <3>10. Retrying'
      BY <3>2, <3>6 DEF Retrying, Moves
    <3>11. Registering'
      <4>1. awaits[c] = 0 /\ outcome[c] = "none" /\ 0 \notin pending
        BY <1>0, <3>2 DEF Registering, Registered, Asking
      <4>2. QED
        BY <1>0, <3>2, <3>6, <4>1, LeavesRegistering DEF wireVars
    <3>12. WireInv' /\ Knowing'
      BY <3>2 DEF WireInv, Knowing, SchemeIsSupported, wireVars
    <3>13. QED
      BY <3>6, <3>8, <3>9, <3>10, <3>11, <3>12
  <2>3. QED
    BY <2>1, <2>2
<1>4. CASE discovered(c)
  <2>0. /\ stage[c] = "discovering" /\ UNCHANGED <<generation, up, methods, encryption, pending>>
        /\ up \in BOOLEAN /\ Attempting(c)
    BY <1>4 DEF discovered, Types, Attempting, Retrying
  <2>1. CASE initFails(c) /\ UNCHANGED wireVars
    BY <1>2, <2>0, <2>1
  <2>2. CASE isCurrent(c) /\ methods /\ initSucceeds(c) /\ UNCHANGED wireVars
    <3>1. /\ Current' /\ Subscribed' /\ initialized'
          /\ initializing' \in Callers \cup {NoCaller} /\ UNCHANGED <<live, subs>>
      BY <2>0, <2>2, SucceedKeeps
    <3>2. /\ Moves(c) /\ stage'[c] = "idle" /\ awaits'[c] = 0 /\ outcome'[c] = "none"
          /\ task' \in [Callers -> Methods \cup {"init", "get_info"}]
          /\ born' \in [Callers -> Nat] /\ tries' \in [Callers -> Nat]
          /\ \A d \in Callers : d # c => task'[d] = task[d]
          /\ initialized' = TRUE
      BY <2>2, EndsMoves DEF initSucceeds
    <3>3. Types'
      BY <2>0, <3>1, <3>2 DEF Types, Moves
    <3>4. Retrying'
      BY <3>2 DEF Retrying, Moves
    <3>5. Registering'
      <4>1. awaits[c] = 0 /\ 0 \notin pending
        BY <1>0, <2>0 DEF Registering, Registered, Asking
      <4>2. QED
        BY <1>0, <2>0, <2>2, <3>2, <4>1, LeavesRegistering DEF wireVars
    <3>6. WireInv' /\ Knowing'
      BY <2>0, <2>2 DEF WireInv, Knowing, SchemeIsSupported, wireVars
    <3>7. QED
      BY <3>1, <3>3, <3>4, <3>5, <3>6
  <2>3. CASE /\ ask(c, "get_info")
             /\ UNCHANGED <<initialized, initializing, subs, live, task, born, outcome, tries>>
    <3>1. ~Asking(c) /\ stage[c] # "relays" /\ "get_info" \in Methods \cup {"get_info"}
          /\ stage'[c] = "sealing" /\ task' = task
      BY <2>0, <2>3 DEF Asking, ask, Types
    <3>2. Attempting(c)' <=> Attempting(c)
      BY <2>0, <3>1 DEF Attempting
    <3>3. QED
      BY <2>0, <2>3, <3>1, <3>2, AskKeeps DEF Types
  <2>4. QED
    BY <1>4, <2>1, <2>2, <2>3 DEF discovered
<1>5. QED
  BY <1>1, <1>3, <1>4

-----------------------------------------------------------------------------
\* A request is registered, published, answered or given up.
LEMMA RegisterKeeps ==
  ASSUME WireInv, ClientInv, NEW c \in Callers, register(c)
  PROVE  WireInv' /\ ClientInv'
<1> USE DEF ClientInv
<1>0. /\ stage[c] = "sealing" /\ Asking(c) /\ ~Registered(c) /\ outcome[c] = "none"
      /\ awaits[c] \in DOMAIN asked /\ awaits[c] \notin pending
      /\ asked \in Seq(Request) /\ up \in BOOLEAN
      /\ UNCHANGED <<generation, up, asked, service>>
  BY NotPending DEF register, Registering, Asking, Registered, WireInv, Types
<1>1. WireInv'
  BY <1>0 DEF WireInv, register
<1>2. CASE goesOn(c, "retriable") /\ UNCHANGED pending
  BY <1>0, <1>1, <1>2, GoesOnKeeps
<1>3. CASE /\ pending' = pending \cup {awaits[c]}
           /\ stage' = [stage EXCEPT ![c] = "publishing"]
           /\ UNCHANGED <<initialized, initializing, subs, live, methods, encryption, task,
                          born, awaits, outcome, tries>>
  <2>1. Types' /\ Moves(c) /\ stage'[c] = "publishing"
    BY <1>0, <1>3 DEF Types, Moves, Stages
  <2>2. Current' /\ Subscribed'
    BY <1>0, <1>3, <2>1, PlaceKeeps DEF Attempting, Current
  <2>3. Retrying'
    BY <1>3, <2>1 DEF Retrying, Moves
  <2>4. Registering'
    <3>1. \A d \in Callers : Asking(d)' = Asking(d)
      BY <1>0, <2>1 DEF Asking, Moves
    <3>2. \A d \in Callers : Registered(d)' <=> d = c \/ Registered(d)
      BY <1>0, <1>3, <2>1 DEF Registered, Moves
    <3>3. pending' = {awaits'[d] : d \in {e \in Callers : Registered(e)'}}
      <4>1. pending = {awaits[d] : d \in {e \in Callers : Registered(e)}}
        BY DEF Registering
      <4>2. QED
        BY ONLY <1>3, <3>2, <4>1, c \in Callers
    <3>4. \A d \in Callers : outcome'[d] # "none" => stage'[d] = "publishing"
      BY <1>3, <2>1 DEF Registering, Moves
    <3>5. QED
      BY <1>0, <1>3, <3>1, <3>3, <3>4 DEF Registering
  <2>5. Knowing'
    BY <1>0, <1>3 DEF Knowing, SchemeIsSupported
  <2>6. QED
    BY <1>1, <2>1, <2>2, <2>3, <2>4, <2>5
<1>4. QED
  BY <1>2, <1>3 DEF register

LEMMA PublishKeeps ==
  ASSUME WireInv, ClientInv, NEW c \in Callers, publishReconnected(c) \/ published(c)
  PROVE  WireInv' /\ ClientInv'
<1> USE DEF ClientInv
<1>1. CASE publishReconnected(c)
  <2>1. WireInv'
    BY <1>1 DEF publishReconnected, WireInv, Registering, Asking
  <2>2. Types' /\ Current' /\ Retrying' /\ Knowing'
    BY <1>1 DEF publishReconnected, Types, Current, Attempting, Retrying, Knowing, SchemeIsSupported
  <2>3. Subscribed' /\ Registering'
    BY <1>1 DEF publishReconnected, Subscribed, InitializedIsSubscribed, Attempting, Registering,
                Asking, Registered
  <2>4. QED
    BY <2>1, <2>2, <2>3
<1>2. CASE published(c)
  <2>0. /\ stage[c] = "publishing" /\ Asking(c) /\ up \in BOOLEAN
        /\ UNCHANGED <<generation, up, pending, asked, service>>
    BY <1>2 DEF published, Asking, Types, wireVars
  <2>1. WireInv'
    BY <1>2 DEF published, WireInv, wireVars
  <2>2. CASE outcome[c] # "none" /\ goesOn(c, outcome[c])
    <3>1. awaits[c] \notin pending
      BY <2>0, <2>2, NotPending DEF Registered
    <3>2. QED
      BY <2>0, <2>1, <2>2, <3>1, GoesOnKeeps
  <2>3. CASE /\ outcome[c] = "none"
             /\ stage' = [stage EXCEPT ![c] = "answer"]
             /\ UNCHANGED <<initialized, initializing, subs, live, methods, encryption, task,
                            born, awaits, outcome, tries>>
    <3>1. Types' /\ Moves(c) /\ stage'[c] = "answer"
      BY <2>0, <2>3 DEF Types, Moves, Stages
    <3>2. Current' /\ Subscribed'
      BY <2>0, <2>3, <3>1, PlaceKeeps DEF Attempting, Current
    <3>3. Retrying'
      BY <2>3, <3>1 DEF Retrying, Moves
    <3>4. Registering'
      <4>1. \A d \in Callers : Asking(d)' = Asking(d) /\ Registered(d)' = Registered(d)
        BY <2>0, <2>3, <3>1 DEF Asking, Registered, Moves
      <4>2. \A d \in Callers : outcome'[d] # "none" => stage'[d] = "publishing"
        BY <2>3, <3>1 DEF Registering, Moves
      <4>3. QED
        BY <2>0, <2>3, <4>1, <4>2 DEF Registering
    <3>5. Knowing'
      BY <2>0, <2>3 DEF Knowing, SchemeIsSupported
    <3>6. QED
      BY <2>1, <3>1, <3>2, <3>3, <3>4, <3>5
  <2>4. QED
    BY <1>2, <2>2, <2>3 DEF published
<1>3. QED
  BY <1>1, <1>2

LEMMA SettleKeeps ==
  ASSUME WireInv, ClientInv,
         \/ \E response \in responses : handleResponse(response)
         \/ \E c \in Callers : requestTimeout(c)
  PROVE  WireInv' /\ ClientInv'
<1> USE DEF ClientInv
<1>0. /\ UNCHANGED <<generation, up, asked, requests, service>>
      /\ up \in BOOLEAN /\ asked \in Seq(Request)
  BY DEF handleResponse, requestTimeout, Types, WireInv, wireVars
<1>1. WireInv'
  BY <1>0 DEF WireInv
<1>2. ASSUME NEW c \in Callers, requestTimeout(c)
      PROVE  ClientInv'
  BY <1>0, <1>2, GoesOnKeeps DEF requestTimeout, Asking
<1>3. ASSUME NEW response \in responses, handleResponse(response)
      PROVE  ClientInv'
  <2>1. PICK c \in Callers, result \in Outcomes \ {"none"} :
           /\ awaits[c] = response.id
           /\ \/ /\ stage[c] = "publishing"
                 /\ outcome' = [outcome EXCEPT ![c] = result]
                 /\ UNCHANGED <<initialized, initializing, subs, live, methods, encryption,
                                stage, task, born, awaits, tries>>
              \/ stage[c] = "answer" /\ goesOn(c, result)
    BY <1>3 DEF handleResponse
  <2>2. pending' = pending \ {awaits[c]}
    BY <1>3, <2>1 DEF handleResponse
  <2>3. CASE stage[c] = "answer" /\ goesOn(c, result)
    BY <1>0, <2>2, <2>3, GoesOnKeeps DEF Asking
  <2>4. CASE /\ stage[c] = "publishing"
             /\ outcome' = [outcome EXCEPT ![c] = result]
             /\ UNCHANGED <<initialized, initializing, subs, live, methods, encryption,
                            stage, task, born, awaits, tries>>
    <3>1. Types' /\ Moves(c) /\ outcome'[c] # "none"
      BY <1>0, <2>4 DEF Types, Moves
    <3>2. Current' /\ Subscribed' /\ Retrying'
      BY <1>0, <2>4 DEF Current, Attempting, Subscribed, InitializedIsSubscribed, Retrying
    <3>3. Registering'
      <4>1. \A d \in Callers : Asking(d)' = Asking(d)
        BY <2>4 DEF Asking
      <4>2. ~Registered(c)' /\ \A d \in Callers \ {c} : Registered(d)' = Registered(d)
        BY <2>4, <3>1 DEF Registered, Moves
      <4>3. \A d \in Callers \ {c} : Registered(d) => awaits[d] # awaits[c]
        BY <2>4 DEF Registering, Registered, Asking
      <4>4. pending' = {awaits'[d] : d \in {e \in Callers : Registered(e)'}}
        <5>1. pending = {awaits[d] : d \in {e \in Callers : Registered(e)}}
          BY DEF Registering
        <5>2. awaits' = awaits
          BY <2>4
        <5>3. QED
          BY ONLY <2>2, <4>2, <4>3, <5>1, <5>2
      <4>5. \A d \in Callers : outcome'[d] # "none" => stage'[d] = "publishing"
        BY <2>4, <3>1 DEF Registering, Moves
      <4>6. QED
        BY <1>0, <2>4, <4>1, <4>4, <4>5 DEF Registering
    <3>4. Knowing'
      BY <1>0, <2>4 DEF Knowing, SchemeIsSupported
    <3>5. QED
      BY <3>1, <3>2, <3>3, <3>4
  <2>5. QED
    BY <2>1, <2>3, <2>4
<1>4. QED
  BY <1>1, <1>2, <1>3

\* A caller makes a request, or tries it again.
LEMMA RequestKeeps ==
  ASSUME WireInv, ClientInv, NEW c \in Callers,
         retry(c) \/ \E method \in Methods \cup {"get_info"} : request(c, method)
  PROVE  WireInv' /\ ClientInv'
<1> USE DEF ClientInv
<1>1. ASSUME NEW method \in Methods \cup {"get_info"}, request(c, method)
      PROVE  WireInv' /\ ClientInv'
  <2>1. /\ ~Asking(c) /\ stage[c] = "idle" /\ initialized /\ method # "init"
        /\ ask(c, method) /\ stage'[c] = "sealing" /\ task'[c] = method
        /\ UNCHANGED <<initialized, generation, initializing, subs, live, up, methods, encryption,
                       pending, born, outcome, tries>>
        /\ task' \in [Callers -> Methods \cup {"init", "get_info"}]
        /\ \A d \in Callers : d # c => task'[d] = task[d]
    BY <1>1, MethodsAssumption DEF request, Asking, ask, Types
  <2>2. ~Attempting(c) /\ ~Attempting(c)'
    BY <2>1 DEF Attempting
  <2>3. QED
    BY <2>1, <2>2, AskKeeps
<1>2. CASE retry(c) /\ initialized
  <2>1. /\ ~Asking(c) /\ stage[c] = "pausing" /\ task[c] = "get_balance"
        /\ ask(c, task[c]) /\ UNCHANGED <<task, born, outcome, tries>> /\ stage'[c] = "sealing"
        /\ UNCHANGED <<initialized, generation, initializing, subs, live, up, methods, encryption,
                       pending>>
    BY <1>2 DEF retry, Asking, ask, Types, Retrying
  <2>2. ~Attempting(c) /\ ~Attempting(c)'
    BY <2>1 DEF Attempting
  <2>3. task[c] \in Methods \cup {"get_info"}
    BY <2>1 DEF Types
  <2>4. QED
    BY <1>2, <2>1, <2>2, <2>3, AskKeeps DEF Types
<1>3. CASE retry(c) /\ ~initialized
  <2>1. /\ stage[c] = "pausing" /\ task[c] = "get_balance" /\ Ends(c) /\ UNCHANGED wireVars
        /\ UNCHANGED <<initialized, generation, initializing, subs, live, up, methods, encryption,
                       pending>>
    BY <1>3 DEF retry, Retrying
  <2>2. /\ Moves(c) /\ stage'[c] = "idle" /\ awaits'[c] = 0 /\ outcome'[c] = "none"
        /\ task' \in [Callers -> Methods \cup {"init", "get_info"}]
        /\ born' \in [Callers -> Nat] /\ tries' \in [Callers -> Nat] /\ born'[c] = 0
        /\ \A d \in Callers : d # c => task'[d] = task[d] /\ born'[d] = born[d]
    BY <2>1, EndsMoves
  <2>3. WireInv' /\ Knowing'
    BY <2>1 DEF WireInv, Knowing, SchemeIsSupported, wireVars
  <2>4. Types'
    BY <2>1, <2>2 DEF Types, Moves
  <2>5. Current' /\ Subscribed'
    <3>1. ~Attempting(c) /\ ~Attempting(c)' /\ born'[c] <= generation
      BY <2>1, <2>2 DEF Attempting, Types
    <3>2. QED
      BY <2>1, <2>2, <3>1, PlaceKeeps
  <2>6. Retrying'
    BY <2>2 DEF Retrying, Moves
  <2>7. Registering'
    <3>1. asked \in Seq(Request)
      BY DEF WireInv
    <3>2. awaits[c] = 0 /\ 0 \notin pending
      BY <2>1, <3>1 DEF Registering, Registered, Asking
    <3>3. QED
      BY <2>1, <2>2, <3>1, <3>2, LeavesRegistering DEF wireVars
  <2>8. QED
    BY <2>3, <2>4, <2>5, <2>6, <2>7
<1>4. QED
  BY <1>1, <1>2, <1>3

LEMMA DisconnectKeeps ==
  ASSUME WireInv, ClientInv, disconnect
  PROVE  WireInv' /\ ClientInv'
<1> USE DEF ClientInv
<1> DEFINE again(c) == c \in Rejected /\ retries(c, "retriable")
           over(c)  == c \in Rejected /\ ~retries(c, "retriable")
<1>0. /\ NoCaller \notin Callers /\ generation \in Nat /\ asked \in Seq(Request)
      /\ UNCHANGED <<asked, requests, service>>
      /\ generation' = generation + 1 /\ initialized' = FALSE /\ initializing' = NoCaller
      /\ subs' = NoCaller /\ live' = {} /\ up' = FALSE /\ methods' = FALSE /\ pending' = {}
  BY ClientAssumption DEF disconnect, Types, WireInv, fault, learns
<1>1. ASSUME NEW c \in Callers
      PROVE  /\ again(c) => /\ stage[c] = "answer" /\ task[c] = "get_balance"
                            /\ stage'[c] = "pausing" /\ task'[c] = task[c] /\ born'[c] = born[c]
                            /\ awaits'[c] = 0 /\ outcome'[c] = outcome[c] /\ tries'[c] = tries[c] + 1
             /\ over(c) => /\ stage[c] = "answer" /\ stage'[c] = "idle" /\ task'[c] = "init"
                           /\ born'[c] = 0 /\ awaits'[c] = 0 /\ outcome'[c] = outcome[c]
                           /\ tries'[c] = 0
             /\ ~again(c) /\ ~over(c) =>
                  /\ stage[c] # "answer" /\ stage'[c] = stage[c] /\ task'[c] = task[c]
                  /\ born'[c] = born[c] /\ awaits'[c] = awaits[c] /\ tries'[c] = tries[c]
                  /\ outcome'[c] = IF stage[c] = "publishing" /\ outcome[c] = "none"
                                   THEN "retriable" ELSE outcome[c]
  BY <1>1 DEF disconnect, Rejected, retries
<1>2. Types'
  <2>1. /\ stage' \in [Callers -> Stages] /\ awaits' \in [Callers -> Nat]
        /\ outcome' \in [Callers -> Outcomes] /\ tries' \in [Callers -> Nat]
        /\ task' \in [Callers -> Methods \cup {"init", "get_info"}] /\ born' \in [Callers -> Nat]
    BY DEF disconnect, Types, Stages, Outcomes
  <2>2. initialized' \in BOOLEAN /\ up' \in BOOLEAN /\ methods' \in BOOLEAN
    BY ONLY <1>0, Zenon
  <2>3. generation' \in Nat /\ live' \subseteq Callers
    BY ONLY <1>0
  <2>4. initializing' \in Callers \cup {NoCaller} /\ subs' \in Callers \cup {NoCaller}
    BY ONLY <1>0
  <2>5. QED
    BY ONLY <2>1, <2>2, <2>3, <2>4 DEF Types
<1> HIDE DEF again, over
<1>3. Current' /\ Subscribed'
  <2>1. \A c \in Callers : born'[c] <= generation
    BY <1>0, <1>1 DEF Current
  <2>2. \A c \in Callers : born'[c] \in Nat
    BY <1>2 DEF Types
  <2>3. QED
    BY <1>0, <2>1, <2>2 DEF Current, Subscribed, InitializedIsSubscribed
<1>4. Retrying'
  BY <1>1 DEF Retrying
<1>5. Registering'
  <2>1. \A c \in Callers : Asking(c)' => Asking(c) /\ awaits'[c] = awaits[c]
    BY <1>1 DEF Asking
  <2>2. \A c \in Callers : ~Asking(c)' => awaits'[c] = 0
    BY <1>1 DEF Registering, Asking
  <2>3. \A c \in Callers : ~Registered(c)'
    BY <1>1 DEF Registered
  <2>4. \A c \in Callers : outcome'[c] # "none" => stage'[c] = "publishing"
    BY <1>1 DEF Registering
  <2>5. \A c \in Callers : IF Asking(c)' THEN awaits'[c] \in DOMAIN asked' ELSE awaits'[c] = 0
    BY <1>0, <2>1, <2>2 DEF Registering
  <2>6. \A c, d \in Callers : Asking(c)' /\ awaits'[c] = awaits'[d] => c = d
    <3>1. \A d \in Callers : awaits'[d] \in {awaits[d], 0}
      BY <1>1
    <3>2. 0 \notin DOMAIN asked
      BY <1>0
    <3>3. QED
      BY <2>1, <3>1, <3>2 DEF Registering
  <2>7. QED
    BY <1>0, <2>3, <2>4, <2>5, <2>6 DEF Registering
<1>6. WireInv' /\ Knowing'
  BY <1>0 DEF WireInv, Knowing, SchemeIsSupported
<1>7. QED
  BY <1>2, <1>3, <1>4, <1>5, <1>6

LEMMA ClientStep ==
  ASSUME WireInv, ClientInv, ClientNext
  PROVE  WireInv' /\ ClientInv'
<1> USE DEF ClientInv
<1>1. CASE handleInfoEvent
  <2>1. WireInv' /\ Types' /\ Current' /\ Retrying'
    BY <1>1 DEF handleInfoEvent, learns, wireVars, WireInv, Types, Current, Attempting, Retrying
  <2>2. Subscribed' /\ Registering'
    BY <1>1 DEF handleInfoEvent, wireVars, Subscribed, InitializedIsSubscribed, Attempting,
                Registering, Asking, Registered
  <2>3. Knowing'
    BY <1>1 DEF handleInfoEvent, learns, wireVars, Knowing, SchemeIsSupported
  <2>4. QED
    BY <2>1, <2>2, <2>3
<1>2. CASE clientRelaysLost
  <2>1. WireInv' /\ Types' /\ Current' /\ Retrying'
    BY <1>2 DEF clientRelaysLost, fault, WireInv, Types, Current, Attempting, Retrying
  <2>2. Subscribed' /\ Registering'
    BY <1>2 DEF clientRelaysLost, fault, Subscribed, InitializedIsSubscribed, Attempting,
                Registering, Asking, Registered
  <2>3. Knowing'
    BY <1>2 DEF clientRelaysLost, fault, Knowing, SchemeIsSupported
  <2>4. QED
    BY <2>1, <2>2, <2>3
<1>3. QED
  BY <1>1, <1>2, InitKeeps, RegisterKeeps, PublishKeeps, SettleKeeps, RequestKeeps, DisconnectKeeps
  DEF ClientNext

-----------------------------------------------------------------------------
\* The service.  What the client does leaves the answers alone.
LEMMA ClientKeepsAsked ==
  ASSUME WireInv, ClientInv, ClientNext
  PROVE  /\ responses' = responses
         /\ DOMAIN asked \subseteq DOMAIN asked'
         /\ \A id \in DOMAIN asked : asked'[id] = asked[id]
<1>1. ASSUME NEW c \in Callers, NEW method \in Methods \cup {"get_info"}, ask(c, method)
      PROVE  /\ responses' = responses
             /\ DOMAIN asked \subseteq DOMAIN asked'
             /\ \A id \in DOMAIN asked : asked'[id] = asked[id]
  <2>1. [method |-> method, scheme |-> chooseEncryptionScheme] \in Request
    BY ChoosesScheme DEF ClientInv, Request
  <2>2. QED
    BY <1>1, <2>1 DEF ask, WireInv
<1>2. CASE UNCHANGED <<asked, responses>>
  BY <1>2
<1>3. \/ UNCHANGED <<asked, responses>>
      \/ \E c \in Callers, method \in Methods \cup {"get_info"} : ask(c, method)
  <2>1. ASSUME NEW c \in Callers, retry(c)
        PROVE  UNCHANGED <<asked, responses>> \/ \E method \in Methods \cup {"get_info"} : ask(c, method)
    <3>1. task[c] \in Methods \cup {"get_info"}
      BY <2>1 DEF retry, ClientInv, Types, Retrying
    <3>2. QED
      BY <2>1, <3>1 DEF retry, wireVars
  <2>2. ASSUME NEW c \in Callers, discovered(c)
        PROVE  UNCHANGED <<asked, responses>> \/ \E method \in Methods \cup {"get_info"} : ask(c, method)
    BY <2>2 DEF discovered, wireVars
  <2>3. ASSUME NEW c \in Callers, init(c) \/ initRelaysSettled(c) \/ register(c)
                 \/ publishReconnected(c) \/ published(c) \/ requestTimeout(c)
        PROVE  UNCHANGED <<asked, responses>>
    BY <2>3 DEF init, initRelaysSettled, register, publishReconnected, published, requestTimeout,
                wireVars
  <2>4. ASSUME NEW c \in Callers, NEW method \in Methods \cup {"get_info"}, request(c, method)
        PROVE  ask(c, method)
    BY <2>4 DEF request
  <2>5. ASSUME \/ \E response \in responses : handleResponse(response)
               \/ handleInfoEvent \/ disconnect \/ clientRelaysLost
        PROVE  UNCHANGED <<asked, responses>>
    BY <2>5 DEF handleResponse, handleInfoEvent, disconnect, clientRelaysLost, fault, wireVars
  <2>6. QED
    BY <2>1, <2>2, <2>3, <2>4, <2>5 DEF ClientNext
<1>4. QED
  BY <1>1, <1>2, <1>3

LEMMA ClientKeepsService ==
  ASSUME WireInv, ClientInv, ServiceInv, ClientNext, UNCHANGED serviceVars
  PROVE  ServiceInv'
<1>1. /\ responses' = responses
      /\ DOMAIN asked \subseteq DOMAIN asked'
      /\ \A id \in DOMAIN asked : asked'[id] = asked[id]
  BY ClientKeepsAsked
<1>2. ServiceTypes'
  BY <1>1 DEF ServiceInv, ServiceTypes, serviceVars
<1>3. \A id \in DOMAIN asked : Answered(id) => Answered(id)'
  BY <1>1 DEF Answered
<1>4. Answering'
  <2>1. ASSUME NEW response \in responses
        PROVE  response.id \in DOMAIN asked
    BY DEF ServiceInv, ServiceTypes
  <2>2. \A id \in Ids : Answered(id) => id \in DOMAIN asked
    BY <2>1 DEF Answered
  <2>3. QED
    BY <1>1, <1>3, <2>2 DEF ServiceInv, Answering, serviceVars
<1>5. AnswerIsReadable'
  <2>1. ASSUME NEW response \in responses
        PROVE  response.id \in DOMAIN asked
    BY DEF ServiceInv, ServiceTypes
  <2>2. QED
    BY <1>1, <2>1 DEF ServiceInv, AnswerIsReadable, serviceVars
<1>6. QED
  BY <1>2, <1>4, <1>5 DEF ServiceInv

\* An answer: in the scheme of the request, if that is remembered.  What is
\* assumed of a request that is not is what makes the answer harmless.
LEMMA RespondKeeps ==
  ASSUME ServiceInv, NEW id \in Ids, id \in DOMAIN asked, asked \in Seq(Request),
         NEW result \in Results, NEW remembered, stored \subseteq remembered,
         respond(id, result, remembered),
         id \in remembered \cup dropped \cup unsent \/ Answered(id),
         UNCHANGED <<asked, dropped>>,
         working' \in [Ids -> Nat],
         \A other \in Ids : working'[other] > 0 => working[other] > 0
  PROVE  ServiceInv'
<1> USE DEF ServiceInv
<1> DEFINE scheme == IF id \in remembered THEN asked[id].scheme ELSE "nip04"
           answer == [id |-> id, result |-> result, scheme |-> scheme]
<1>1. scheme \in Schemes
  <2>1. asked[id] \in Request
    BY ElementOfSeq
  <2>2. asked[id].scheme \in Schemes
    BY <2>1 DEF Request
  <2>3. QED
    BY <2>2 DEF Schemes
<1>2. /\ responses' = responses \cup {answer} /\ stored' = remembered \ {id} /\ unsent' = unsent
      /\ answering' = [answering EXCEPT ![id] = @ + 1]
  BY DEF respond
<1>3. answer.id = id /\ answer.scheme = scheme /\ answer \in [id : DOMAIN asked, scheme : Schemes, result : Results]
  BY <1>1
<1> HIDE DEF answer
<1>4. \A other \in Ids : Answered(other) => Answered(other)'
  BY <1>2 DEF Answered
<1>5. id \in dropped \cup unsent \/ Answered(id)'
  <2>1. CASE id \in remembered
    BY <1>2, <1>3, <2>1 DEF Answered
  <2>2. QED
    BY <1>4, <2>1
<1>6. ServiceTypes'
  BY <1>2, <1>3 DEF ServiceTypes
<1>7. Answering'
  <2>1. ASSUME NEW other \in Ids, working'[other] > 0
        PROVE  other \in DOMAIN asked /\ (other \in stored' \cup dropped \cup unsent \/ Answered(other)')
    BY <1>2, <1>4, <1>5, <2>1 DEF Answering
  <2>2. ASSUME NEW other \in Ids, answering'[other] > 0
        PROVE  other \in dropped \cup unsent \/ Answered(other)'
    BY <1>2, <1>4, <1>5, <2>2 DEF Answering, ServiceTypes
  <2>3. QED
    BY <1>2, <2>1, <2>2 DEF Answering
<1>8. AnswerIsReadable'
  <2>1. ASSUME NEW response \in responses
        PROVE  response.id \in dropped \cup unsent
               \/ \E good \in responses' : /\ good.id = response.id
                                               /\ good.scheme = asked[response.id].scheme
    BY <1>2 DEF AnswerIsReadable
  <2>2. id \in dropped \cup unsent \/ \E good \in responses' : good.id = id /\ good.scheme = asked[id].scheme
    BY <1>5 DEF Answered
  <2>3. QED
    BY <1>2, <1>3, <2>1, <2>2 DEF AnswerIsReadable
<1>9. QED
  BY <1>6, <1>7, <1>8

\* A response that cannot be sent takes the scheme away from all copies of its
\* request; what is sent instead, if anything, is an answer to that request.
LEMMA FailureKeeps ==
  ASSUME ServiceInv, NEW id \in Ids, id \in DOMAIN asked, respondFails(id),
         UNCHANGED <<asked, dropped>>,
         NEW sent \in SUBSET [id : {id}, scheme : Schemes, result : Results],
         responses' = responses \cup sent,
         working' \in [Ids -> Nat], answering' \in [Ids -> Nat],
         \A other \in Ids : working'[other] > 0 => working[other] > 0,
         \A other \in Ids \ {id} : answering'[other] > 0 => answering[other] > 0
  PROVE  ServiceInv'
<1> USE DEF ServiceInv, respondFails
<1>1. /\ \A other \in Ids : Answered(other) => Answered(other)'
      /\ \A other \in Ids \ {id} : other \in stored => other \in stored'
      /\ id \in unsent' /\ unsent \subseteq unsent'
  BY DEF Answered
<1>2. ServiceTypes'
  BY DEF ServiceTypes
<1>3. Answering'
  BY <1>1 DEF Answering
<1>4. AnswerIsReadable'
  BY <1>1 DEF AnswerIsReadable
<1>5. QED
  BY <1>2, <1>3, <1>4

LEMMA ServiceStep ==
  ASSUME WireInv, ServiceInv, ServiceNext
  PROVE  WireInv' /\ ServiceInv'
<1>0. asked \in Seq(Request) /\ requests \subseteq DOMAIN asked
  BY DEF WireInv
<1>1. CASE serviceInit
  <2>1. WireInv' /\ ServiceTypes' /\ Answering'
    BY <1>1 DEF serviceInit, WireInv, ServiceInv, ServiceTypes, Answering, Answered
  <2>2. QED
    BY <1>1, <2>1 DEF serviceInit, ServiceInv, AnswerIsReadable
<1>2. CASE serviceDisconnect
  <2>1. WireInv' /\ ServiceTypes' /\ Answering'
    BY <1>2 DEF serviceDisconnect, fault, WireInv, ServiceInv, ServiceTypes, Answering, Answered
  <2>2. QED
    BY <1>2, <2>1 DEF serviceDisconnect, fault, ServiceInv, AnswerIsReadable
<1>3. ASSUME NEW id \in Ids, drop(id)
      PROVE  WireInv' /\ ServiceInv'
  <2>1. WireInv' /\ ServiceTypes' /\ Answering'
    BY <1>3 DEF drop, fault, WireInv, ServiceInv, ServiceTypes, Answering, Answered
  <2>2. QED
    BY <1>3, <2>1 DEF drop, fault, ServiceInv, AnswerIsReadable
<1>4. ASSUME NEW id \in Ids, serviceHandled(id)
      PROVE  WireInv' /\ ServiceInv'
  <2>1. WireInv'
    BY <1>4 DEF serviceHandled, wireVars, WireInv
  <2>2. ServiceTypes'
    BY <1>4 DEF serviceHandled, wireVars, ServiceInv, ServiceTypes
  <2>3. id \in dropped \cup unsent \/ Answered(id)
    BY <1>4 DEF serviceHandled, ServiceInv, Answering
  <2>4. \A other \in Ids : answering'[other] > 0 => answering[other] > 0
    BY <1>4 DEF serviceHandled, ServiceInv, ServiceTypes
  <2>5. Answering'
    BY <1>4, <2>3, <2>4 DEF serviceHandled, wireVars, ServiceInv, Answering, Answered
  <2>6. AnswerIsReadable'
    BY <1>4 DEF serviceHandled, wireVars, ServiceInv, AnswerIsReadable
  <2>7. QED
    BY <2>1, <2>2, <2>5, <2>6 DEF ServiceInv
<1>5. ASSUME NEW id \in Ids, NEW result \in Results, walletReturns(id, result)
      PROVE  WireInv' /\ ServiceInv'
  <2>1. WireInv'
    BY <1>5 DEF walletReturns, WireInv
  <2>2. /\ id \in DOMAIN asked /\ (id \in stored \cup dropped \cup unsent \/ Answered(id))
        /\ respond(id, result, stored) /\ UNCHANGED <<asked, dropped>>
        /\ working' \in [Ids -> Nat]
        /\ \A other \in Ids : working'[other] > 0 => working[other] > 0
    BY <1>5 DEF walletReturns, ServiceInv, ServiceTypes, Answering
  <2>3. QED
    BY <1>0, <2>1, <2>2, RespondKeeps
<1>6. ASSUME NEW id \in Ids, handleEvent(id)
      PROVE  WireInv' /\ ServiceInv'
  <2>1. WireInv'
    BY <1>6 DEF handleEvent, WireInv
  <2>2. id \in DOMAIN asked /\ UNCHANGED <<asked, dropped>>
    BY <1>0, <1>6 DEF handleEvent
  <2>3. ASSUME NEW result \in Results, respond(id, result, stored \cup {id}), UNCHANGED working
        PROVE  ServiceInv'
    <3>1. /\ working' \in [Ids -> Nat]
          /\ \A other \in Ids : working'[other] > 0 => working[other] > 0
      BY <2>3 DEF ServiceInv, ServiceTypes
    <3>2. QED
      BY <1>0, <2>2, <2>3, <3>1, RespondKeeps
  <2>4. CASE /\ stored' = stored \cup {id} /\ working' = [working EXCEPT ![id] = @ + 1]
             /\ UNCHANGED <<responses, answering, unsent>>
    <3>1. ServiceTypes'
      BY <2>2, <2>4 DEF ServiceInv, ServiceTypes
    <3>2. \A other \in Ids : working'[other] > 0 => other = id \/ working[other] > 0
      BY <2>4 DEF ServiceInv, ServiceTypes
    <3>3. Answering'
      BY <2>2, <2>4, <3>2 DEF ServiceInv, Answering, Answered
    <3>4. QED
      BY <2>1, <2>2, <2>4, <3>1, <3>3 DEF ServiceInv, AnswerIsReadable
  <2>5. CASE UNCHANGED <<stored, working, responses, answering, unsent>>
    BY <2>1, <2>2, <2>5 DEF ServiceInv, ServiceTypes, Answering, Answered, AnswerIsReadable
  <2>6. QED
    BY <1>6, <2>1, <2>3, <2>4, <2>5 DEF handleEvent, Results
<1>7. ASSUME NEW id \in Ids, handleEventRefused(id)
      PROVE  WireInv' /\ ServiceInv'
  <2>1. WireInv' /\ id \in DOMAIN asked
    BY <1>0, <1>7 DEF handleEventRefused, WireInv
  <2>2. /\ working' \in [Ids -> Nat] /\ answering' \in [Ids -> Nat]
        /\ working' = working /\ answering' = answering
    BY <1>7 DEF handleEventRefused, ServiceInv, ServiceTypes
  <2>3. responses' = responses \cup {}
    BY <1>7 DEF handleEventRefused
  <2>4. respondFails(id) /\ UNCHANGED <<asked, dropped>>
    BY <1>7 DEF handleEventRefused
  <2>5. ServiceInv'
    BY <2>1, <2>2, <2>3, <2>4, FailureKeeps
  <2>6. QED
    BY <2>1, <2>5
<1>8. ASSUME NEW id \in Ids, walletReturnsUnsent(id)
      PROVE  WireInv' /\ ServiceInv'
  <2>1. WireInv' /\ id \in DOMAIN asked
    BY <1>8 DEF walletReturnsUnsent, WireInv, ServiceInv, Answering
  <2>2. /\ working' \in [Ids -> Nat] /\ answering' \in [Ids -> Nat]
        /\ \A other \in Ids : working'[other] > 0 => working[other] > 0
        /\ \A other \in Ids \ {id} : answering'[other] > 0 => answering[other] > 0
    BY <1>8 DEF walletReturnsUnsent, ServiceInv, ServiceTypes
  <2>3. PICK sent \in SUBSET [id : {id}, scheme : Schemes, result : Results] : responses' = responses \cup sent
    <3>1. [id |-> id, result |-> "error", scheme |-> "nip04"] \in [id : {id}, scheme : Schemes, result : Results]
      BY DEF Schemes, Results
    <3>2. responses' = responses \cup {[id |-> id, result |-> "error", scheme |-> "nip04"]} \/ responses' = responses \cup {}
      BY <1>8 DEF walletReturnsUnsent
    <3>3. QED
      BY <3>1, <3>2
  <2>4. respondFails(id) /\ UNCHANGED <<asked, dropped>>
    BY <1>8 DEF walletReturnsUnsent
  <2>5. ServiceInv'
    BY <2>1, <2>2, <2>3, <2>4, FailureKeeps
  <2>6. QED
    BY <2>1, <2>5
<1>9. QED
  BY <1>1, <1>2, <1>3, <1>4, <1>5, <1>6, <1>7, <1>8 DEF ServiceNext, expirationFires, Results

-----------------------------------------------------------------------------
LEMMA WalletInitially == Init => WalletInv
<1> SUFFICES ASSUME Init PROVE WalletInv
  OBVIOUS
<1> USE DEF Init, WireInit, ClientInit, ServiceInit
<1>1. WireInv
  BY DEF WireInv
<1>2. Types
  BY DEF Types, Stages, Outcomes
<1>3. Current /\ Subscribed /\ Retrying
  BY ClientAssumption DEF Current, Subscribed, InitializedIsSubscribed, Retrying, Attempting
<1>4. Registering /\ Knowing
  BY DEF Registering, Asking, Registered, Knowing, SchemeIsSupported
<1>5. ServiceInv
  BY DEF ServiceInv, ServiceTypes, Answering, AnswerIsReadable
<1>6. QED
  BY <1>1, <1>2, <1>3, <1>4, <1>5 DEF WalletInv, ClientInv

LEMMA WalletStep == WalletInv /\ [Next]_vars => WalletInv'
<1> SUFFICES ASSUME WalletInv, [Next]_vars PROVE WalletInv'
  OBVIOUS
<1> USE DEF WalletInv
<1>1. ASSUME UNCHANGED <<asked, requests, service, clientVars>>
      PROVE  ClientInv'
  <2>1. Types' /\ Current' /\ Retrying' /\ Knowing'
    BY <1>1 DEF clientVars, ClientInv, Types, Current, Attempting, Retrying, Knowing, SchemeIsSupported
  <2>2. Subscribed' /\ Registering'
    BY <1>1 DEF clientVars, ClientInv, Subscribed, InitializedIsSubscribed, Attempting, Registering,
                Asking, Registered
  <2>3. QED
    BY <2>1, <2>2 DEF ClientInv
<1>2. ASSUME UNCHANGED <<asked, responses, serviceVars>>
      PROVE  ServiceInv'
  BY <1>2 DEF serviceVars, ServiceInv, ServiceTypes, Answering, Answered, AnswerIsReadable
<1>3. CASE ClientNext /\ UNCHANGED serviceVars
  BY <1>3, ClientStep, ClientKeepsService
<1>4. CASE ServiceNext /\ UNCHANGED clientVars
  <2>1. UNCHANGED <<asked, requests, service>>
    BY <1>4 DEF ServiceNext, serviceInit, serviceDisconnect, drop, handleEvent, walletReturns,
                handleEventRefused, walletReturnsUnsent, expirationFires, serviceHandled, fault, wireVars
  <2>2. QED
    BY <1>1, <1>4, <2>1, ServiceStep
<1>5. CASE \E id \in Ids : expire(id) /\ UNCHANGED <<clientVars, serviceVars>>
  <2>1. UNCHANGED <<asked, requests, responses, service>> /\ UNCHANGED <<clientVars, serviceVars>>
    BY <1>5 DEF expire
  <2>2. WireInv'
    BY <2>1 DEF WireInv
  <2>3. QED
    BY <1>1, <1>2, <2>1, <2>2
<1>6. CASE UNCHANGED vars
  <2>1. UNCHANGED <<asked, requests, responses, service>> /\ UNCHANGED <<clientVars, serviceVars>>
    BY <1>6 DEF vars, wireVars
  <2>2. WireInv'
    BY <2>1 DEF WireInv
  <2>3. QED
    BY <1>1, <1>2, <2>1, <2>2
<1>7. QED
  BY <1>3, <1>4, <1>5, <1>6 DEF Next

\* What init(), disconnect(), requests and answers keep of each other, whatever
\* the number of callers, requests and faults (client.ts 268-342, 881-1035;
\* service.ts 560-760).
THEOREM WalletInvariant == Spec => []WalletInv
  BY WalletInitially, WalletStep, PTL DEF Spec

\* An initialized client is subscribed, and no subscription is lost sight of.
THEOREM InitializedAlwaysSubscribed == Spec => []InitializedIsSubscribed
<1>1. WalletInv => InitializedIsSubscribed
  BY DEF WalletInv, ClientInv, Subscribed
<1>2. QED
  BY <1>1, WalletInvariant, PTL

\* Two attempts of one generation to initialize the client are never under way.
THEOREM OneAttemptAtATime == Spec => []OneInitialization
<1>1. WalletInv => OneInitialization
  BY DEF WalletInv, ClientInv, Current, Attempting, OneInitialization
<1>2. QED
  BY <1>1, WalletInvariant, PTL

\* Registered requests and the callers that wait for them correspond.
THEOREM PendingAlwaysAwaited == Spec => []PendingIsAwaited
<1>1. WalletInv => PendingIsAwaited
  BY DEF WalletInv, ClientInv, Registering, Registered, PendingIsAwaited
<1>2. QED
  BY <1>1, WalletInvariant, PTL

\* Whatever an initialized client asks is encrypted in a scheme of the service.
THEOREM SchemeAlwaysSupported == Spec => []SchemeIsSupported
<1>1. WalletInv => SchemeIsSupported
  BY DEF WalletInv, ClientInv, Knowing
<1>2. QED
  BY <1>1, WalletInvariant, PTL

\* A request that is answered has an answer its client can read, unless the
\* service had to forget its scheme or could not send a response to it.
THEOREM AnswerAlwaysReadable == Spec => []AnswerIsReadable
<1>1. WalletInv => AnswerIsReadable
  BY DEF WalletInv, ServiceInv
<1>2. QED
  BY <1>1, WalletInvariant, PTL
=============================================================================
