----------------------------- MODULE Nip47Client -----------------------------
(***************************************************************************)
(* NostrWalletConnectClient (nip47/client.ts): init(), disconnect() and    *)
(* the requests of several callers on one client object.                   *)
(*                                                                         *)
(* The stages of a caller are the points where its call is suspended.  A   *)
(* call of init() that finds one in progress shares its promise and is not *)
(* a caller of its own.  "sealing" is the only suspension that lasts no    *)
(* longer than the current task (encryption and hashing): whatever the     *)
(* program does after it made the call, in the same task, comes before the *)
(* request is registered.                                                  *)
(***************************************************************************)
EXTENDS Nip47Wire

CONSTANTS Callers,         \* the calls that may be in progress at once
          NoCaller,        \* not a caller
          Preferred,       \* the option preferredEncryption
          MaxRetries       \* the option maxRetries of withRetry

ASSUME ClientAssumption ==
    NoCaller \notin Callers /\ Preferred \in Schemes
    /\ MaxRetries \in Nat

VARIABLES initialized,
          generation,   \* lifecycleGeneration
          initializing, \* whose initialize() initializationPromise stands for
          subs,         \* whose subscription subIds holds
          live,         \* whose subscriptions exist on a connected relay
          up,           \* is a relay connected?
          methods,      \* is supportedMethods non-empty?
          encryption,   \* supportedEncryption
          pending,      \* the keys of pendingRequests
          stage,        \* where each caller is
          task,         \* what it does: "init" or a method
          born,         \* the generation each initialize() belongs to
          awaits,       \* the request each caller has made, or 0
          outcome,      \* how that was settled while it was being published
          tries         \* how often withRetry has tried it again

clientVars == <<initialized, generation, initializing, subs, live, up, methods, encryption,
                pending, stage, task, born, awaits, outcome, tries>>

Stages == {"idle", "relays", "discovering", "sealing", "publishing", "answer", "pausing"}

\* A retriable error is one of the network, a timeout or an expired request.
Outcomes == {"none", "done", "error", "retriable"}

ClientTypeOK ==
    /\ initialized \in BOOLEAN /\ up \in BOOLEAN /\ methods \in BOOLEAN
    /\ generation \in 0 .. MaxFaults
    /\ initializing \in Callers \cup {NoCaller}
    /\ subs \in Callers \cup {NoCaller}
    /\ live \subseteq Callers
    /\ encryption \subseteq Schemes
    /\ pending \subseteq Ids
    /\ stage \in [Callers -> Stages]
    /\ task \in [Callers -> Methods \cup {"init", "get_info"}]
    /\ born \in [Callers -> 0 .. MaxFaults]
    /\ awaits \in [Callers -> Ids \cup {0}]
    /\ outcome \in [Callers -> Outcomes]
    /\ tries \in [Callers -> 0 .. MaxRetries]

ClientInit ==
    /\ initialized = FALSE /\ generation = 0
    /\ initializing = NoCaller /\ subs = NoCaller /\ live = {}
    /\ up = FALSE
    /\ methods = FALSE /\ encryption = {}
    /\ pending = {}
    /\ stage = [c \in Callers |-> "idle"]
    /\ task = [c \in Callers |-> "init"]
    /\ born = [c \in Callers |-> 0]
    /\ awaits = [c \in Callers |-> 0]
    /\ outcome = [c \in Callers |-> "none"]
    /\ tries = [c \in Callers |-> 0]

\* Places in asked that are kept for the requests that calls in progress may
\* still make of their own accord.
Owed(c) == CASE stage[c] \in {"relays", "discovering"} -> 1
             [] stage[c] = "pausing"                   -> MaxRetries - tries[c] + 1
             [] task[c] = "get_balance"                -> MaxRetries - tries[c]
             [] OTHER                                  -> 0

reserved == {place \in Callers \X (1 .. MaxRetries + 1) : place[2] <= Owed(place[1])}

\* May a call start that makes up to n requests?
room(n) == Len(asked) + Cardinality(reserved) + n <= MaxRequests

Ends(c) == /\ stage'   = [stage EXCEPT ![c] = "idle"]
           /\ awaits'  = [awaits EXCEPT ![c] = 0]
           /\ outcome' = [outcome EXCEPT ![c] = "none"]
           /\ tries'   = [tries EXCEPT ![c] = 0]
           /\ task'    = [task EXCEPT ![c] = "init"]
           /\ born'    = [born EXCEPT ![c] = 0]

-----------------------------------------------------------------------------
\* The end of initialize(), and of the promise that init() has stored.

\* Mutant: the promise is forgotten even if it is already that of a later call.
promiseSettledAny(c) == initializing' = NoCaller

promiseSettled(c) == initializing' = IF initializing = c THEN NoCaller ELSE initializing

\* The catch clause: undo what this attempt has set up, and no more.

\* Mutant: a cancelled attempt resets the client whoever it belongs to now.
initFailsLoudly(c) ==
    /\ live' = live \ {c}
    /\ subs' = NoCaller
    /\ initialized' = FALSE
    /\ promiseSettled(c)
    /\ Ends(c)

initFails(c) ==
    /\ live' = live \ {c}
    /\ subs' = IF subs = c THEN NoCaller ELSE subs
    /\ initialized' = IF born[c] = generation THEN FALSE ELSE initialized
    /\ promiseSettled(c)
    /\ Ends(c)

initSucceeds(c) ==
    /\ initialized' = TRUE
    /\ promiseSettled(c)
    /\ Ends(c)
    /\ UNCHANGED <<live, subs>>

\* init(): unless it is done or under way, connect to the relays.
init(c) ==
    /\ stage[c] = "idle"
    /\ ~initialized /\ initializing = NoCaller
    /\ room(1)
    /\ initializing' = c
    /\ stage' = [stage EXCEPT ![c] = "relays"]
    /\ task' = [task EXCEPT ![c] = "init"]
    /\ born' = [born EXCEPT ![c] = generation]
    /\ UNCHANGED <<initialized, generation, subs, live, up, methods, encryption,
                   pending, awaits, outcome, tries, wireVars>>

\* assertInitializationCurrent
isCurrent(c) == born[c] = generation

\* The attempt's own subscription, alive if a relay is connected.
setupSubscription(c, online) ==
    /\ live' = IF online THEN live \cup {c} ELSE live
    /\ subs' = c

\* connectToRelays has returned, whether a relay answered or not: subscribe and
\* wait for capabilities.
initRelaysSettled(c) ==
    /\ stage[c] = "relays"
    /\ \/ /\ ~isCurrent(c)
          /\ initFails(c)
          /\ UNCHANGED up
       \/ /\ isCurrent(c)
          /\ \E online \in {up, TRUE} :
                /\ up' = online
                /\ setupSubscription(c, online)
          /\ stage' = [stage EXCEPT ![c] = "discovering"]
          /\ UNCHANGED <<initialized, initializing, task, born, awaits, outcome, tries>>
    /\ UNCHANGED <<generation, methods, encryption, pending, wireVars>>

\* chooseEncryptionScheme
chooseEncryptionScheme ==
    IF Preferred \in encryption THEN Preferred
    ELSE IF "nip44" \in encryption THEN "nip44" ELSE "nip04"

\* sendRequest, up to the encryption of the request.
ask(c, method) ==
    /\ asked' = Append(asked, [method |-> method, scheme |-> chooseEncryptionScheme])
    /\ awaits' = [awaits EXCEPT ![c] = Len(asked) + 1]
    /\ stage' = [stage EXCEPT ![c] = "sealing"]
    /\ UNCHANGED <<requests, responses, advertised, expired, faults, service>>

\* The three seconds that initialize() waits for the info event are over; if it
\* did not come, the client asks for it, which is allowed before it is
\* initialized.
discovered(c) ==
    /\ stage[c] = "discovering"
    /\ \/ /\ ~isCurrent(c)
          /\ initFails(c)
          /\ UNCHANGED wireVars
       \/ /\ isCurrent(c) /\ methods
          /\ initSucceeds(c)
          /\ UNCHANGED wireVars
       \/ /\ isCurrent(c) /\ ~methods
          /\ ask(c, "get_info")
          /\ UNCHANGED <<initialized, initializing, subs, live, task, born, outcome, tries>>
    /\ UNCHANGED <<generation, up, methods, encryption, pending>>

\* getInfo, getBalance, payInvoice and the like.
request(c, method) ==
    /\ stage[c] = "idle"
    /\ initialized
    /\ room(IF method = "get_balance" THEN 1 + MaxRetries ELSE 1)
    /\ ask(c, method)
    /\ task' = [task EXCEPT ![c] = method]
    /\ UNCHANGED <<initialized, generation, initializing, subs, live, up, methods, encryption,
                   pending, born, outcome, tries>>

-----------------------------------------------------------------------------
\* A capability snapshot replaces the one before it.

\* Mutant: the schemes that come with it are ignored.
learnsMethods(known, schemes) == methods' = known /\ UNCHANGED encryption

learns(known, schemes) == methods' = known /\ encryption' = schemes

\* withRetry, which getBalanceWithRetry applies to getBalance.

retries(c, result) ==
    task[c] = "get_balance" /\ result = "retriable" /\ tries[c] < MaxRetries

\* The promise of sendRequest is settled with result and the publication is
\* over: the caller goes on.  get_info's answer is a valid snapshot, whose
\* list of methods may be empty, or is rejected.
goesOn(c, result) ==
    \/ /\ task[c] = "init" /\ isCurrent(c) /\ result = "done"
       /\ \E known \in BOOLEAN : learns(known, service.schemes)
       /\ initSucceeds(c)
    \/ /\ task[c] = "init"
       /\ initFails(c)
       /\ UNCHANGED <<methods, encryption>>
    \/ /\ task[c] = "get_info" /\ result = "done"
       /\ \E known \in BOOLEAN : learns(known, service.schemes)
       /\ Ends(c)
       /\ UNCHANGED <<initialized, initializing, subs, live>>
    \/ /\ task[c] # "init"
       /\ ~retries(c, result)
       /\ Ends(c)
       /\ UNCHANGED <<initialized, initializing, subs, live, methods, encryption>>
    \/ /\ retries(c, result)
       /\ tries' = [tries EXCEPT ![c] = @ + 1]
       /\ stage' = [stage EXCEPT ![c] = "pausing"]
       /\ awaits' = [awaits EXCEPT ![c] = 0]
       /\ outcome' = [outcome EXCEPT ![c] = "none"]
       /\ UNCHANGED <<initialized, initializing, subs, live, methods, encryption, task, born>>

\* The delay before a retry is over; the client may have been disconnected.
retry(c) ==
    /\ stage[c] = "pausing"
    /\ \/ /\ initialized
          /\ ask(c, task[c])
          /\ UNCHANGED <<task, born, outcome, tries>>
       \/ /\ ~initialized
          /\ Ends(c)
          /\ UNCHANGED wireVars
    /\ UNCHANGED <<initialized, generation, initializing, subs, live, up, methods, encryption,
                   pending>>

\* The request is encrypted: it is registered and published, at once if a relay
\* is connected.  Nostr's rate limit may refuse it, and then it is forgotten.
register(c) ==
    /\ stage[c] = "sealing"
    /\ \/ /\ pending' = pending \cup {awaits[c]}
          /\ requests' = IF up THEN requests \cup {awaits[c]} ELSE requests
          /\ stage' = [stage EXCEPT ![c] = "publishing"]
          /\ UNCHANGED <<initialized, initializing, subs, live, methods, encryption, task,
                         born, awaits, outcome, tries>>
       \/ goesOn(c, "retriable") /\ UNCHANGED <<pending, requests>>
    /\ UNCHANGED <<generation, up, asked, responses, advertised, expired, faults, service>>

\* relay.publish has connected a relay first, even of a client that has been
\* disconnected meanwhile.
publishReconnected(c) ==
    /\ stage[c] = "publishing"
    /\ awaits[c] \notin requests
    /\ up' = TRUE
    /\ requests' = requests \cup {awaits[c]}
    /\ UNCHANGED <<initialized, generation, initializing, subs, live, methods, encryption,
                   pending, stage, task, born, awaits, outcome, tries,
                   asked, responses, advertised, expired, faults, service>>

\* publishEvent returns, and its result is not looked at.  The response may
\* have come before the relays' OK.
published(c) ==
    /\ stage[c] = "publishing"
    /\ \/ /\ outcome[c] = "none"
          /\ stage' = [stage EXCEPT ![c] = "answer"]
          /\ UNCHANGED <<initialized, initializing, subs, live, methods, encryption, task,
                         born, awaits, outcome, tries>>
       \/ /\ outcome[c] # "none"
          /\ goesOn(c, outcome[c])
    /\ UNCHANGED <<generation, up, pending, wireVars>>

-----------------------------------------------------------------------------
\* handleResponse: to a request that is pending, in its scheme; others are
\* ignored, and the request stays pending.  (So it does when the response is
\* malformed, which is like a response that is lost.)
readable(response) == response.scheme = asked[response.id].scheme

handleResponse(response) ==
    /\ live # {}
    /\ response \in responses
    /\ response.id \in pending
    /\ readable(response)
    /\ pending' = pending \ {response.id}
    /\ \E c \in Callers, result \in Outcomes \ {"none"} :
          /\ awaits[c] = response.id
          /\ result \in CASE response.result = "done" -> {"done"}
                          [] response.result = "expired" -> {"retriable"}
                          [] OTHER -> {"error", "retriable"}
          /\ \/ /\ stage[c] = "publishing"
                /\ outcome' = [outcome EXCEPT ![c] = result]
                /\ UNCHANGED <<initialized, initializing, subs, live, methods, encryption,
                               stage, task, born, awaits, tries>>
             \/ stage[c] = "answer" /\ goesOn(c, result)
    /\ UNCHANGED <<generation, up, wireVars>>

\* The thirty seconds of a request are over.  (The timer starts before the
\* publication, which takes at most twenty.)
requestTimeout(c) ==
    /\ stage[c] = "answer"
    /\ pending' = pending \ {awaits[c]}
    /\ goesOn(c, "retriable")
    /\ UNCHANGED <<generation, up, wireVars>>

handleInfoEvent ==
    /\ live # {} /\ advertised
    /\ ~(methods /\ encryption = service.schemes)
    /\ learns(TRUE, service.schemes)
    /\ UNCHANGED <<initialized, generation, initializing, subs, live, up, pending, stage,
                   task, born, awaits, outcome, tries, wireVars>>

\* disconnect(): every pending request is settled with a retriable error.
\* Callers that wait for an answer go on, which for those of initialize() and
\* the retries means that they find the client disconnected.

\* Mutant: pending requests are forgotten, not settled.
RejectedNone == {}

Rejected == {c \in Callers : stage[c] = "answer"}

disconnect ==
    /\ fault
    /\ generation' = generation + 1
    /\ initialized' = FALSE
    /\ initializing' = NoCaller
    /\ subs' = NoCaller /\ live' = {}
    /\ up' = FALSE
    /\ learns(FALSE, {})
    /\ pending' = {}
    /\ LET again(c) == c \in Rejected /\ retries(c, "retriable")
           over(c)  == c \in Rejected /\ ~retries(c, "retriable")
       IN  /\ stage' = [c \in Callers |-> IF again(c) THEN "pausing"
                                          ELSE IF over(c) THEN "idle" ELSE stage[c]]
           /\ awaits' = [c \in Callers |-> IF c \in Rejected THEN 0 ELSE awaits[c]]
           /\ outcome' = [c \in Callers |-> IF stage[c] = "publishing" /\ outcome[c] = "none"
                                            THEN "retriable" ELSE outcome[c]]
           /\ tries' = [c \in Callers |-> IF again(c) THEN tries[c] + 1
                                          ELSE IF over(c) THEN 0 ELSE tries[c]]
           /\ task' = [c \in Callers |-> IF over(c) THEN "init" ELSE task[c]]
           /\ born' = [c \in Callers |-> IF over(c) THEN 0 ELSE born[c]]

\* The relays are lost, and the subscription with them.
clientRelaysLost ==
    /\ up
    /\ fault
    /\ up' = FALSE /\ live' = {}
    /\ UNCHANGED <<initialized, generation, initializing, subs, methods, encryption, pending,
                   stage, task, born, awaits, outcome, tries>>

ClientNext ==
    \/ \E c \in Callers :
          \/ init(c) \/ initRelaysSettled(c) \/ discovered(c)
          \/ register(c) \/ publishReconnected(c) \/ published(c)
          \/ requestTimeout(c) \/ retry(c)
          \/ \E method \in Methods \cup {"get_info"} : request(c, method)
    \/ \E response \in responses : handleResponse(response)
    \/ handleInfoEvent \/ disconnect \/ clientRelaysLost

-----------------------------------------------------------------------------
\* A client that is initialized has a subscription in subIds, no init() is
\* under way, and there is never a subscription that disconnect() would not
\* find: attempts that disconnect() has cancelled, and that wake up while a
\* later one is under way or done, change nothing (client.ts 268-342).
InitializedIsSubscribed ==
    /\ initialized => subs # NoCaller /\ initializing = NoCaller
    /\ live \subseteq {subs}

\* init() never runs twice at a time: only one attempt of the current
\* generation is in progress, and its promise is the one that init() hands out
\* (client.ts 268-280).
OneInitialization ==
    \A c \in Callers :
       stage[c] # "idle" /\ task[c] = "init" /\ born[c] = generation => initializing = c

\* Each registered request is that of one caller which waits for it, and a
\* caller that waits for an answer has its request registered, with a timer
\* (client.ts 881-943).
PendingIsAwaited ==
    /\ \A id \in pending : \E c \in Callers : awaits[c] = id /\ outcome[c] = "none"
    /\ \A c \in Callers : stage[c] = "answer" => awaits[c] \in pending
=============================================================================
