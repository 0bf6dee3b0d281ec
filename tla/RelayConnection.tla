--------------------------- MODULE RelayConnection ---------------------------
(***************************************************************************)
(* The connection life cycle of one Relay (src/src/nip01/relay.ts):        *)
(* connect(), its socket handlers and timeout, disconnect(), the           *)
(* process-local shutdown observer and automatic reconnection.             *)
(*                                                                         *)
(* Everything runs on one JavaScript thread.  A handler that fires a       *)
(* user-visible event (triggerEvent) is split at that point: the first     *)
(* action does what precedes the event and pushes a frame, the matching    *)
(* ...Return action does the rest once the user's callback has returned.   *)
(* Between the two, user calls may run re-entrantly (constant Reentrant).  *)
(* Promise reactions are microtasks: timers wait until none is pending.    *)
(*                                                                         *)
(* connectionAttempt and disconnectGeneration are counters of which the    *)
(* code only ever compares values for equality.  An attempt is therefore a *)
(* member of Attempts that nothing refers to any more (Fresh) when         *)
(* connect() takes it, "connectionAttempt++" outside connect() leaves no   *)
(* attempt current, and "the generation changed since a started" is        *)
(* a \in superseded.  disconnect() always cancels the reconnect timer, so  *)
(* a timer's own generation can never be out of date when it fires.        *)
(***************************************************************************)
EXTENDS Naturals, Sequences

CONSTANTS
  Attempts,            \* identities of connection attempts and their sockets
  NoAttempt,           \* null
  MaxReconnectValues,  \* values setMaxReconnectAttempts may be given; 0 = unlimited
  RetryCap,            \* reconnectAttempts is only compared with values <= RetryCap
  AutoReconnectValues, \* values setAutoReconnect may be given
  Reentrant            \* may event callbacks call back into the relay?

ASSUME ConnectionAssumption ==
  /\ NoAttempt \notin Attempts
  /\ MaxReconnectValues \subseteq Nat
  /\ RetryCap \in Nat
  /\ \A m \in MaxReconnectValues : m <= RetryCap
  /\ AutoReconnectValues \subseteq BOOLEAN
  /\ Reentrant \in BOOLEAN

VARIABLES
  ws,                   \* attempt that owns this.ws
  connected,
  connectionAttempt,    \* the attempt whose handlers still count, if any
  connectionPromise,    \* attempt whose promise connect() hands out
  relayDisconnectObserver,
  relayDisconnectFinalizer,
  bufferFlushInterval,  \* is the flush interval running?
  reconnectAttempts,
  reconnectTimer,       \* is a reconnection scheduled?
  autoReconnect,
  maxReconnectAttempts,
  socket,               \* per attempt: its WebSocket, "detached" = handlers removed
  promise,              \* per attempt: its connect() promise
  timeoutArmed,         \* attempts whose connection timeout is running
  closeHandled,         \* attempts whose finalizeClose has run
  superseded,           \* attempts during which disconnect() was called
  frames,               \* handlers suspended in a user callback, innermost first
  wanted                \* history: the user's last call was connect(), not disconnect()

owner == <<ws, connectionAttempt, connectionPromise, relayDisconnectObserver,
           relayDisconnectFinalizer>>
retry == <<reconnectAttempts, reconnectTimer>>
config == <<autoReconnect, maxReconnectAttempts>>
perAttempt == <<socket, promise, timeoutArmed, closeHandled, superseded>>
vars == <<owner, retry, config, perAttempt, connected, bufferFlushInterval,
          frames, wanted>>

MaybeAttempt == Attempts \cup {NoAttempt}
SocketState == {"none", "connecting", "open", "closing", "closed", "detached"}
PromiseState == {"none", "pending", "rejected", "true", "false"}
Frame == [fn : {"timeout", "open", "close", "error"}, a : Attempts,
          wasConnected : BOOLEAN, userInitiated : BOOLEAN]

Init ==
  /\ ws = NoAttempt
  /\ connected = FALSE
  /\ connectionAttempt = NoAttempt
  /\ connectionPromise = NoAttempt
  /\ relayDisconnectObserver = NoAttempt
  /\ relayDisconnectFinalizer = NoAttempt
  /\ bufferFlushInterval = FALSE
  /\ reconnectAttempts = 0
  /\ reconnectTimer = FALSE
  /\ autoReconnect \in AutoReconnectValues
  /\ maxReconnectAttempts \in MaxReconnectValues
  /\ socket = [a \in Attempts |-> "none"]
  /\ promise = [a \in Attempts |-> "none"]
  /\ timeoutArmed = {}
  /\ closeHandled = {}
  /\ superseded = {}
  /\ frames = <<>>
  /\ wanted = FALSE

-----------------------------------------------------------------------------
\* Scheduling.

\* User code runs between handlers, or inside a callback if it is re-entrant.
CanCall == Reentrant \/ frames = <<>>

\* A rejected promise still has its catch to run, a settled one its clean-up.
MicrotaskPending ==
  \/ \E a \in Attempts : promise[a] = "rejected"
  \/ \E a \in Attempts : connectionPromise = a /\ promise[a] \in {"true", "false"}

CanFireTimer == frames = <<>> /\ ~MicrotaskPending

Suspend(fn, a, was, user) ==
  frames' = <<[fn |-> fn, a |-> a, wasConnected |-> was, userInitiated |-> user]>> \o frames

Suspended(fn) == frames # <<>> /\ Head(frames).fn = fn

-----------------------------------------------------------------------------
\* Operators on the parts of the state; each is one small method of the class.

\* Nothing refers to a any more: the next ++connectionAttempt may be a.
Fresh(a) ==
  /\ a \notin {ws, connectionAttempt, connectionPromise, relayDisconnectObserver,
               relayDisconnectFinalizer}
  /\ socket[a] \in {"none", "closed", "detached"}
  /\ promise[a] \in {"none", "true", "false"}
  /\ a \notin timeoutArmed
  /\ \A i \in DOMAIN frames : frames[i].a # a

detachSocketHandlers(s, a) ==
  IF a = NoAttempt THEN s ELSE [s EXCEPT ![a] = "detached"]

\* Mutant: the previous or timed-out socket is dropped without being closed.
closeSocketForgotten(s, a) == s

\* close() or terminate(); the close event arrives later.
closeSocket(s, a) ==
  IF a # NoAttempt /\ s[a] \in {"connecting", "open"} THEN [s EXCEPT ![a] = "closing"] ELSE s

\* Mutant: registrations are cleared without checking whose they are.
clearRegistrationAlways(reg, a) == NoAttempt

clearRegistration(reg, a) == IF reg = a THEN NoAttempt ELSE reg

\* Only the first settlement of a promise counts.
settle(p, a, result) == IF p[a] = "pending" THEN [p EXCEPT ![a] = result] ELSE p

\* Mutants: one attempt too few, one attempt too many.
scheduleReconnectTooFew ==
  reconnectTimer' = ~(maxReconnectAttempts > 0 /\ reconnectAttempts + 1 >= maxReconnectAttempts)
scheduleReconnectTooMany ==
  reconnectTimer' = ~(maxReconnectAttempts > 0 /\ reconnectAttempts > maxReconnectAttempts)

\* Arm the timer, or give up and leave it cancelled.
scheduleReconnect ==
  reconnectTimer' = ~(maxReconnectAttempts > 0 /\ reconnectAttempts >= maxReconnectAttempts)

\* Mutant: catch() does not look at the disconnect generation.
DisconnectedSinceUnchecked(a) == FALSE

\* disconnectGenAtStart of attempt a differs from disconnectGeneration.
DisconnectedSince(a) == a \in superseded

\* Mutant: an open connection takes back one retry instead of all of them.
resetReconnectAttemptsByOne ==
  reconnectAttempts' = reconnectAttempts - 1 /\ reconnectTimer' = FALSE

resetReconnectAttempts == reconnectAttempts' = 0 /\ reconnectTimer' = FALSE

\* The part of connect() after its early returns: take a new attempt and open
\* its socket.  created = FALSE: the WebSocket constructor throws.
StartConnect(created) ==
  \E a \in Attempts :
    /\ Fresh(a)
    /\ connectionAttempt' = a
    /\ ws' = IF created THEN a ELSE NoAttempt
    /\ socket' = [closeSocket(socket, ws) EXCEPT ![a] = IF created THEN "connecting" ELSE "none"]
    /\ promise' = [promise EXCEPT ![a] = IF created THEN "pending" ELSE "rejected"]
    /\ connectionPromise' = a
    /\ relayDisconnectObserver' = NoAttempt
    /\ relayDisconnectFinalizer' = IF created THEN a ELSE NoAttempt
    /\ timeoutArmed' = IF created THEN timeoutArmed \cup {a} ELSE timeoutArmed
    /\ closeHandled' = closeHandled \ {a}
    /\ superseded' = superseded \ {a}

\* connect() returns at once when connected, and shares an attempt in flight.
ConnectReturnsEarly == connected \/ connectionPromise # NoAttempt

doConnect ==
  IF ConnectReturnsEarly
  THEN UNCHANGED <<owner, perAttempt>>
  ELSE \E created \in BOOLEAN : StartConnect(created)

\* finalizeClose() of attempt a, up to its Disconnect event.
FinalizeCloseBegin(a, user) ==
  /\ closeHandled' = closeHandled \cup {a}
  /\ timeoutArmed' = timeoutArmed \ {a}
  /\ Suspend("close", a, connected /\ ~user, user)
  /\ connected' = FALSE
  /\ bufferFlushInterval' = FALSE

\* Mutant: finalizeClose() run by disconnect(), which has already invalidated
\* the attempt, is taken for a stale one.
FinalizeCloseAppliesOnlyCurrent(a, user) ==
  a \notin closeHandled /\ ~user /\ a = connectionAttempt

\* finalizeClose() does not return early.
FinalizeCloseApplies(a, user) == a \notin closeHandled /\ (user \/ a = connectionAttempt)

-----------------------------------------------------------------------------
\* Calls by the user of the class.

Connect ==
  /\ CanCall
  /\ wanted' = TRUE
  /\ doConnect
  /\ UNCHANGED <<retry, config, connected, bufferFlushInterval, frames>>

\* disconnect().  With no socket it returns before the finalizer; otherwise
\* the finalizer runs last, with connected already FALSE.
Disconnect ==
  /\ CanCall
  /\ wanted' = FALSE
  /\ superseded' = Attempts
  /\ connectionAttempt' = NoAttempt
  /\ connectionPromise' = NoAttempt
  /\ relayDisconnectObserver' = NoAttempt
  /\ reconnectTimer' = FALSE
  /\ ws' = NoAttempt
  /\ socket' = detachSocketHandlers(socket, ws)
  /\ LET f == relayDisconnectFinalizer IN
       IF ws # NoAttempt /\ f # NoAttempt /\ FinalizeCloseApplies(f, TRUE)
       THEN FinalizeCloseBegin(f, TRUE)
       ELSE /\ connected' = FALSE
            /\ bufferFlushInterval' = FALSE
            /\ UNCHANGED <<closeHandled, timeoutArmed, frames>>
  /\ UNCHANGED <<config, reconnectAttempts, relayDisconnectFinalizer, promise>>

SetAutoReconnect(enable) ==
  /\ CanCall
  /\ autoReconnect' = enable
  /\ reconnectTimer' = (reconnectTimer /\ enable)
  /\ UNCHANGED <<owner, reconnectAttempts, maxReconnectAttempts, perAttempt, connected,
                 bufferFlushInterval, frames, wanted>>

SetMaxReconnectAttempts(max) ==
  /\ CanCall
  /\ maxReconnectAttempts' = max
  /\ UNCHANGED <<owner, retry, autoReconnect, perAttempt, connected,
                 bufferFlushInterval, frames, wanted>>

-----------------------------------------------------------------------------
\* Socket handlers and the connection timeout of attempt a.

SocketOpen(a) ==
  /\ frames = <<>>
  /\ socket[a] = "connecting"
  /\ socket' = [socket EXCEPT ![a] = "open"]
  /\ IF a = connectionAttempt
     THEN /\ timeoutArmed' = timeoutArmed \ {a}
          /\ connected' = TRUE
          /\ resetReconnectAttempts
          /\ bufferFlushInterval' = TRUE
          /\ relayDisconnectObserver' = a
          /\ Suspend("open", a, FALSE, FALSE)
     ELSE UNCHANGED <<timeoutArmed, connected, retry, bufferFlushInterval,
                      relayDisconnectObserver, frames>>
  /\ UNCHANGED <<ws, connectionAttempt, connectionPromise, relayDisconnectFinalizer, config,
                 promise, closeHandled, superseded, wanted>>

SocketOpenReturn ==
  /\ Suspended("open")
  /\ promise' = settle(promise, Head(frames).a, "true")
  /\ frames' = Tail(frames)
  /\ UNCHANGED <<owner, retry, config, socket, timeoutArmed, closeHandled, superseded,
                 connected, bufferFlushInterval, wanted>>

SocketClose(a) ==
  /\ frames = <<>>
  /\ socket[a] \in {"connecting", "open", "closing"}
  /\ socket' = [socket EXCEPT ![a] = "closed"]
  /\ IF FinalizeCloseApplies(a, FALSE)
     THEN FinalizeCloseBegin(a, FALSE)
     ELSE UNCHANGED <<closeHandled, timeoutArmed, frames, connected, bufferFlushInterval>>
  /\ UNCHANGED <<owner, retry, config, promise, superseded, wanted>>

\* The process-local transport shuts down: notifyRelayDisconnectObservers.
ObserverNotified(a) ==
  /\ frames = <<>>
  /\ relayDisconnectObserver = a
  /\ FinalizeCloseApplies(a, FALSE)
  /\ FinalizeCloseBegin(a, FALSE)
  /\ UNCHANGED <<owner, retry, config, socket, promise, superseded, wanted>>

\* finalizeClose() after its Disconnect event.
FinalizeCloseReturn ==
  /\ Suspended("close")
  /\ LET f == Head(frames) IN
       /\ relayDisconnectObserver' = clearRegistration(relayDisconnectObserver, f.a)
       /\ relayDisconnectFinalizer' = clearRegistration(relayDisconnectFinalizer, f.a)
       /\ IF f.wasConnected
          THEN UNCHANGED <<socket, connectionPromise, connectionAttempt, promise>>
          ELSE /\ socket' = detachSocketHandlers(socket, f.a)
               /\ connectionPromise' = NoAttempt
               /\ connectionAttempt' = NoAttempt
               /\ promise' = settle(promise, f.a, "rejected")
       /\ IF autoReconnect /\ f.wasConnected /\ ~f.userInitiated
          THEN scheduleReconnect
          ELSE UNCHANGED reconnectTimer
  /\ frames' = Tail(frames)
  /\ UNCHANGED <<ws, reconnectAttempts, config, timeoutArmed, closeHandled, superseded,
                 connected, bufferFlushInterval, wanted>>

\* onerror of the current attempt; an error of any other attempt is ignored.
SocketError(a) ==
  /\ frames = <<>>
  /\ socket[a] \in {"connecting", "open"}
  /\ a = connectionAttempt
  /\ timeoutArmed' = timeoutArmed \ {a}
  /\ Suspend("error", a, FALSE, FALSE)
  /\ UNCHANGED <<owner, retry, config, socket, promise, closeHandled, superseded, connected,
                 bufferFlushInterval, wanted>>

SocketErrorReturn ==
  /\ Suspended("error")
  /\ LET f == Head(frames) IN
       IF ~connected /\ connectionPromise # NoAttempt
       THEN /\ socket' = detachSocketHandlers(socket, f.a)
            /\ connectionPromise' = NoAttempt
            /\ relayDisconnectObserver' = clearRegistration(relayDisconnectObserver, f.a)
            /\ relayDisconnectFinalizer' = clearRegistration(relayDisconnectFinalizer, f.a)
            /\ connectionAttempt' = NoAttempt
            /\ promise' = settle(promise, f.a, "rejected")
       ELSE UNCHANGED <<socket, connectionPromise, relayDisconnectObserver,
                        relayDisconnectFinalizer, connectionAttempt, promise>>
  /\ frames' = Tail(frames)
  /\ UNCHANGED <<ws, retry, config, timeoutArmed, closeHandled, superseded, connected,
                 bufferFlushInterval, wanted>>

ConnectionTimeout(a) ==
  /\ CanFireTimer
  /\ a \in timeoutArmed
  /\ timeoutArmed' = timeoutArmed \ {a}
  /\ IF a = connectionAttempt /\ ws # NoAttempt /\ ~connected
     THEN Suspend("timeout", a, FALSE, FALSE)
     ELSE UNCHANGED frames
  /\ UNCHANGED <<owner, retry, config, socket, promise, closeHandled, superseded, connected,
                 bufferFlushInterval, wanted>>

ConnectionTimeoutReturn ==
  /\ Suspended("timeout")
  /\ LET f == Head(frames) IN
       /\ socket' = closeSocket(detachSocketHandlers(socket, f.a), ws)
       /\ relayDisconnectObserver' = clearRegistration(relayDisconnectObserver, f.a)
       /\ relayDisconnectFinalizer' = clearRegistration(relayDisconnectFinalizer, f.a)
       /\ promise' = settle(promise, f.a, "rejected")
  /\ ws' = NoAttempt
  /\ connectionPromise' = NoAttempt
  /\ connectionAttempt' = NoAttempt
  /\ frames' = Tail(frames)
  /\ UNCHANGED <<retry, config, timeoutArmed, closeHandled, superseded, connected,
                 bufferFlushInterval, wanted>>

-----------------------------------------------------------------------------
\* Promise reactions and the reconnect timer.

\* The catch() of connect(): resolve to false and schedule the next attempt,
\* unless the user disconnected meanwhile.
ConnectRejected(a) ==
  /\ frames = <<>>
  /\ promise[a] = "rejected"
  /\ promise' = [promise EXCEPT ![a] = "false"]
  /\ IF ~DisconnectedSince(a) /\ autoReconnect
     THEN scheduleReconnect
     ELSE UNCHANGED reconnectTimer
  /\ UNCHANGED <<owner, reconnectAttempts, config, socket, timeoutArmed, closeHandled,
                 superseded, connected, bufferFlushInterval, frames, wanted>>

PromiseCleanup ==
  /\ frames = <<>>
  /\ \E a \in Attempts : connectionPromise = a /\ promise[a] \in {"true", "false"}
  /\ connectionPromise' = NoAttempt
  /\ UNCHANGED <<ws, connectionAttempt, relayDisconnectObserver, relayDisconnectFinalizer,
                 retry, config, perAttempt, connected, bufferFlushInterval, frames, wanted>>

ReconnectTimer ==
  /\ CanFireTimer
  /\ reconnectTimer
  /\ reconnectTimer' = FALSE
  /\ reconnectAttempts' = IF reconnectAttempts < RetryCap THEN reconnectAttempts + 1 ELSE RetryCap
  /\ doConnect
  /\ UNCHANGED <<config, connected, bufferFlushInterval, frames, wanted>>

-----------------------------------------------------------------------------
UserCall ==
  \/ Connect
  \/ Disconnect
  \/ \E enable \in AutoReconnectValues : SetAutoReconnect(enable)
  \/ \E max \in MaxReconnectValues : SetMaxReconnectAttempts(max)

CallbackReturn ==
  \/ SocketOpenReturn
  \/ FinalizeCloseReturn
  \/ SocketErrorReturn
  \/ ConnectionTimeoutReturn

Next ==
  \/ UserCall
  \/ CallbackReturn
  \/ PromiseCleanup
  \/ ReconnectTimer
  \/ \E a \in Attempts :
       \/ SocketOpen(a)
       \/ SocketClose(a)
       \/ SocketError(a)
       \/ ObserverNotified(a)
       \/ ConnectionTimeout(a)
       \/ ConnectRejected(a)

\* The event loop: callbacks return, queued microtasks run, due timers fire (the
\* queues are first-in first-out, so being momentarily blocked by another
\* callback does not lose a turn: strong fairness), and a socket that the code
\* has closed reports it.  User code does not keep the microtask queue from
\* ever draining.  Nothing else is assumed of it, or of the relay at the other end.
EventLoop ==
  /\ []<>CanFireTimer
  /\ WF_vars(CallbackReturn)
  /\ SF_vars(PromiseCleanup)
  /\ SF_vars(ReconnectTimer)
  /\ \A a \in Attempts : /\ SF_vars(ConnectRejected(a))
                          /\ SF_vars(ConnectionTimeout(a))
                          /\ SF_vars(socket[a] = "closing" /\ SocketClose(a))

Spec == Init /\ [][Next]_vars
FairSpec == Spec /\ EventLoop

-----------------------------------------------------------------------------
\* Properties.

\* Every variable has its type; at most one reconnection is ever scheduled,
\* since the timer is a single flag here as it is a single field in the code.
TypeOK ==
  /\ ws \in MaybeAttempt
  /\ connected \in BOOLEAN
  /\ connectionAttempt \in MaybeAttempt
  /\ connectionPromise \in MaybeAttempt
  /\ relayDisconnectObserver \in MaybeAttempt
  /\ relayDisconnectFinalizer \in MaybeAttempt
  /\ bufferFlushInterval \in BOOLEAN
  /\ reconnectAttempts \in 0 .. RetryCap
  /\ reconnectTimer \in BOOLEAN
  /\ autoReconnect \in AutoReconnectValues
  /\ maxReconnectAttempts \in MaxReconnectValues
  /\ socket \in [Attempts -> SocketState]
  /\ promise \in [Attempts -> PromiseState]
  /\ timeoutArmed \subseteq Attempts
  /\ closeHandled \subseteq Attempts
  /\ superseded \subseteq Attempts
  /\ frames \in Seq(Frame)
  /\ wanted \in BOOLEAN

\* No connect() promise can hang: while one is pending, either a handler of its
\* attempt is about to settle it, or its attempt is current, is the one that
\* connect() shares, and its timeout and disconnect finalizer are in place.
PendingIsOwned ==
  \A a \in Attempts : promise[a] = "pending" =>
    \/ frames # <<>> /\ Head(frames).a = a
    \/ /\ connectionAttempt = a /\ connectionPromise = a /\ ws = a
       /\ a \in timeoutArmed
       /\ relayDisconnectFinalizer = a /\ a \notin closeHandled

\* After an explicit disconnect() nothing brings the connection back until the
\* user calls connect() again: no timer, no attempt in flight, not connected.
NoReconnectAfterDisconnect ==
  ~wanted => ~reconnectTimer /\ ~connected /\ connectionAttempt = NoAttempt

\* The relay believes it is connected only while the socket it holds is open,
\* belongs to the current attempt, and will be torn down by both the observer
\* and the finalizer; the flush interval runs exactly then.
ConnectedIsLive ==
  /\ connected => /\ ws # NoAttempt /\ ws = connectionAttempt /\ socket[ws] = "open"
                  /\ relayDisconnectObserver = ws /\ relayDisconnectFinalizer = ws
                  /\ ws \notin closeHandled
  /\ bufferFlushInterval <=> connected

\* No socket is left open behind the relay's back: a socket that is connecting
\* or open and still has its handlers is the one the relay holds.
NoSocketLeak ==
  \A a \in Attempts : socket[a] \in {"connecting", "open"} => ws = a

RetriesExhausted == maxReconnectAttempts > 0 /\ reconnectAttempts >= maxReconnectAttempts

\* With automatic reconnection on, a relay that should be connected is never
\* left with nothing under way: it is connected, connecting, has a reconnection
\* scheduled, or has used up its attempts.
NotStranded ==
  wanted /\ autoReconnect /\ frames = <<>> /\ ~MicrotaskPending =>
    connected \/ connectionPromise # NoAttempt \/ reconnectTimer \/ RetriesExhausted

\* While the limit is left alone, the retries of one outage stay within it.
RetriesWithinLimit == maxReconnectAttempts > 0 => reconnectAttempts <= maxReconnectAttempts

\* Every connect() promise settles, even if the relay never answers.
ConnectSettles ==
  \A a \in Attempts : promise[a] = "pending" ~> promise[a] \in {"true", "false"}

\* A wanted connection is eventually made, given up after the last retry, or
\* no longer wanted.
ConnectOrGiveUp == wanted ~> connected \/ RetriesExhausted \/ ~wanted
=============================================================================
