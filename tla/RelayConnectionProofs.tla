------------------------ MODULE RelayConnectionProofs ------------------------
(***************************************************************************)
(* Proofs about RelayConnection, for any set of attempts and any settings. *)
(*                                                                         *)
(* LiveInv holds whatever the event callbacks do, also when they call back *)
(* into the relay at any depth.  It keeps the socket that may still open   *)
(* together with its owners: the current attempt that is connecting can be *)
(* finalized (FinalizerReady), an observer belongs to a socket that has    *)
(* opened (ObserverOpened), and a suspended handler that is going to tear  *)
(* down cannot meet a live connection, nor take away the finalizer of the  *)
(* attempt that a callback has started meanwhile (ClosingFrames).          *)
(*                                                                         *)
(* QuietInv holds in addition when callbacks do not call back into the     *)
(* relay (~Reentrant).  Sequential bounds the suspended handlers to one,   *)
(* which makes every handler atomic as far as the user is concerned.       *)
(* Settling says who will settle a pending promise: the suspended handler, *)
(* or the current attempt with its timeout and finalizer still in place.   *)
(* Opening links the socket that may still open to that promise, and the   *)
(* last two conjuncts carry "the user still wants this" from connect() to  *)
(* the places that schedule a reconnection.                                *)
(***************************************************************************)
EXTENDS RelayConnection, TLAPS

-----------------------------------------------------------------------------
\* Whatever the callbacks do.

\* Whoever is connecting and current can still be torn down by disconnect().
FinalizerReady ==
  \A a \in Attempts : socket[a] = "connecting" /\ connectionAttempt = a =>
    relayDisconnectFinalizer = a /\ a \notin closeHandled

\* The observer is registered when the socket has opened.
ObserverOpened ==
  relayDisconnectObserver # NoAttempt => socket[relayDisconnectObserver] # "connecting"

\* Nothing connects while a handler that closes is suspended, at any depth.
ClosingFrames ==
  \A i \in DOMAIN frames :
    /\ frames[i].fn \in {"close", "timeout"} => ~connected
    /\ frames[i].fn = "close" => frames[i].a \in closeHandled

LiveInv ==
  /\ TypeOK /\ ConnectedIsLive /\ NoSocketLeak
  /\ FinalizerReady /\ ObserverOpened /\ ClosingFrames

\* A frame is pushed on any others.
LEMMA FramePushed ==
  ASSUME NEW r \in Frame, NEW fs \in Seq(Frame)
  PROVE  /\ <<r>> \o fs \in Seq(Frame)
         /\ \A i \in DOMAIN (<<r>> \o fs) :
              (<<r>> \o fs)[i] = r \/ \E j \in DOMAIN fs : (<<r>> \o fs)[i] = fs[j]
<1>1. <<r>> \in Seq(Frame) /\ Len(<<r>>) = 1 /\ <<r>>[1] = r
  OBVIOUS
<1>2. <<r>> \o fs \in Seq(Frame) /\ Len(<<r>> \o fs) = 1 + Len(fs)
  BY <1>1
<1>3. ASSUME NEW i \in 1 .. 1 + Len(fs)
      PROVE  (<<r>> \o fs)[i] = r \/ \E j \in DOMAIN fs : (<<r>> \o fs)[i] = fs[j]
  <2>1. CASE i = 1
    BY <1>1, <2>1
  <2>2. CASE i # 1
    <3>1. i - 1 \in DOMAIN fs
      BY <2>2
    <3>2. (<<r>> \o fs)[i] = fs[i - 1]
      BY <1>1, <2>2
    <3>. QED
      BY <3>1, <3>2
  <2>. QED
    BY <2>1, <2>2
<1>. QED
  BY <1>2, <1>3

\* A handler suspends, on any others: only its frame is new.
LEMMA SuspendAdds ==
  ASSUME TypeOK, NEW fn \in {"timeout", "open", "close", "error"}, NEW a \in Attempts,
         NEW was \in BOOLEAN, NEW user \in BOOLEAN, Suspend(fn, a, was, user)
  PROVE  /\ frames' \in Seq(Frame)
         /\ \A i \in DOMAIN frames' : \/ frames'[i].fn = fn /\ frames'[i].a = a
                                      \/ \E j \in DOMAIN frames : frames'[i] = frames[j]
<1>. DEFINE r == [fn |-> fn, a |-> a, wasConnected |-> was, userInitiated |-> user]
<1>1. r \in Frame /\ r.fn = fn /\ r.a = a
  BY DEF Frame
<1>2. frames' = <<r>> \o frames /\ frames \in Seq(Frame)
  BY DEF Suspend, TypeOK
<1>. HIDE DEF r
<1>. QED
  BY <1>1, <1>2, FramePushed

\* The innermost handler returns and leaves the others.
LEMMA ReturnLeaves ==
  ASSUME TypeOK, frames # <<>>, frames' = Tail(frames)
  PROVE  /\ frames' \in Seq(Frame)
         /\ Head(frames) \in Frame /\ Head(frames).a \in Attempts
         /\ Head(frames).wasConnected \in BOOLEAN
         /\ \E i \in DOMAIN frames : Head(frames) = frames[i]
         /\ \A i \in DOMAIN frames' : \E j \in DOMAIN frames : frames'[i] = frames[j]
<1>1. frames \in Seq(Frame) /\ Head(frames) = frames[1] /\ 1 \in DOMAIN frames
  BY DEF TypeOK
<1>2. frames' \in Seq(Frame) /\ Head(frames) \in Frame
  BY <1>1
<1>3. \A i \in DOMAIN frames' : i + 1 \in DOMAIN frames /\ frames'[i] = frames[i + 1]
  BY <1>1
<1>. QED
  BY <1>1, <1>2, <1>3 DEF Frame

\* The initial state: nothing is open and nothing suspended.
LEMMA LiveInitially ==
  ASSUME ConnectionAssumption, Init
  PROVE  LiveInv
<1>1. TypeOK
  <2>1. reconnectAttempts \in 0 .. RetryCap
    BY DEF ConnectionAssumption, Init
  <2>2. autoReconnect \in AutoReconnectValues /\ maxReconnectAttempts \in MaxReconnectValues
    BY DEF Init
  <2>3. socket \in [Attempts -> SocketState] /\ promise \in [Attempts -> PromiseState]
    BY DEF Init, SocketState, PromiseState
  <2>4. frames \in Seq(Frame)
    BY DEF Init
  <2>. QED
    BY <2>1, <2>2, <2>3, <2>4 DEF Init, TypeOK, MaybeAttempt
<1>2. ConnectedIsLive /\ NoSocketLeak /\ FinalizerReady /\ ObserverOpened
  BY DEF Init, ConnectedIsLive, NoSocketLeak, FinalizerReady, ObserverOpened
<1>3. ClosingFrames
  <2>1. DOMAIN frames = {}
    BY DEF Init
  <2>. QED
    BY <2>1 DEF ClosingFrames
<1>. QED
  BY <1>1, <1>2, <1>3 DEF LiveInv

\* What touches none of the sockets, their owners and the connection keeps it.
LEMMA LiveUntouched ==
  ASSUME LiveInv, TypeOK', UNCHANGED <<ws, connected, connectionAttempt, relayDisconnectObserver,
         relayDisconnectFinalizer, bufferFlushInterval, socket, closeHandled>>,
         \A i \in DOMAIN frames' : \/ frames'[i].fn \in {"open", "error"}
                                   \/ frames'[i].fn = "timeout" /\ ~connected
                                   \/ \E j \in DOMAIN frames : frames'[i] = frames[j]
  PROVE  LiveInv'
<1>1. ClosingFrames'
  BY DEF LiveInv, ClosingFrames
<1>. QED
  BY <1>1 DEF LiveInv, ConnectedIsLive, NoSocketLeak, FinalizerReady, ObserverOpened

\* A new attempt closes the socket of the one before.
LEMMA StartConnectLive ==
  ASSUME LiveInv, ConnectionAssumption, NEW created \in BOOLEAN, StartConnect(created), ~connected,
         UNCHANGED <<connected, bufferFlushInterval, frames>>
  PROVE  /\ ConnectedIsLive' /\ NoSocketLeak' /\ FinalizerReady' /\ ObserverOpened' /\ ClosingFrames'
         /\ ws' \in MaybeAttempt /\ connectionAttempt' \in MaybeAttempt
         /\ connectionPromise' \in MaybeAttempt /\ relayDisconnectObserver' \in MaybeAttempt
         /\ relayDisconnectFinalizer' \in MaybeAttempt /\ timeoutArmed' \subseteq Attempts
         /\ closeHandled' \subseteq Attempts /\ superseded' \subseteq Attempts
         /\ socket' \in [Attempts -> SocketState] /\ promise' \in [Attempts -> PromiseState]
<1>1. PICK a \in Attempts :
        /\ Fresh(a)
        /\ connectionAttempt' = a
        /\ ws' = IF created THEN a ELSE NoAttempt
        /\ socket' = [closeSocket(socket, ws) EXCEPT ![a] = IF created THEN "connecting" ELSE "none"]
        /\ promise' = [promise EXCEPT ![a] = IF created THEN "pending" ELSE "rejected"]
        /\ connectionPromise' = a
        /\ relayDisconnectObserver' = NoAttempt
        /\ relayDisconnectFinalizer' = IF created THEN a ELSE NoAttempt
        /\ timeoutArmed' = IF created THEN timeoutArmed \cup {a} ELSE timeoutArmed
        /\ closeHandled' = closeHandled \ {a}
        /\ superseded' = superseded \ {a}
  BY DEF StartConnect
<1>2. socket \in [Attempts -> SocketState] /\ promise \in [Attempts -> PromiseState] /\ ws \in MaybeAttempt
  BY DEF LiveInv, TypeOK
<1>3. \A b \in Attempts :
        socket'[b] = IF b = a THEN IF created THEN "connecting" ELSE "none"
                     ELSE IF b = ws /\ socket[b] \in {"connecting", "open"} THEN "closing" ELSE socket[b]
  BY <1>1, <1>2 DEF closeSocket, MaybeAttempt, ConnectionAssumption
<1>4. socket' \in [Attempts -> SocketState] /\ promise' \in [Attempts -> PromiseState]
  BY <1>1, <1>2 DEF closeSocket, SocketState, PromiseState
<1>5. NoSocketLeak'
  BY <1>1, <1>3 DEF LiveInv, NoSocketLeak
<1>6. FinalizerReady' /\ ObserverOpened'
  BY <1>1, <1>3 DEF FinalizerReady, ObserverOpened
<1>7. ClosingFrames'
  <2>1. \A i \in DOMAIN frames : frames[i].a # a
    BY <1>1 DEF Fresh
  <2>. QED
    BY <1>1, <2>1 DEF LiveInv, ClosingFrames
<1>8. ConnectedIsLive'
  BY DEF LiveInv, ConnectedIsLive
<1>. QED
  BY <1>1, <1>4, <1>5, <1>6, <1>7, <1>8 DEF LiveInv, TypeOK, MaybeAttempt

\* Nothing that stays connected or opens: sockets are only detached or closed,
\* and whoever is current and connecting keeps its finalizer.
LEMMA LiveLost ==
  ASSUME LiveInv, ~connected', ~bufferFlushInterval', TypeOK',
         \A a \in Attempts : socket'[a] \in {"connecting", "open"} => socket'[a] = socket[a] /\ ws' = a,
         \A a \in Attempts : connectionAttempt' = a /\ socket'[a] = "connecting" =>
            /\ connectionAttempt = a /\ relayDisconnectFinalizer' = relayDisconnectFinalizer
            /\ a \in closeHandled' => a \in closeHandled,
         relayDisconnectObserver' \in {relayDisconnectObserver, NoAttempt},
         closeHandled \subseteq closeHandled',
         \A i \in DOMAIN frames' : \/ frames'[i].fn = "close" /\ frames'[i].a \in closeHandled'
                                   \/ \E j \in DOMAIN frames : frames'[i] = frames[j]
  PROVE  LiveInv'
<1>1. ConnectedIsLive'
  BY DEF ConnectedIsLive
<1>2. NoSocketLeak'
  BY DEF NoSocketLeak
<1>3. FinalizerReady'
  BY DEF LiveInv, FinalizerReady
<1>4. ObserverOpened'
  BY DEF LiveInv, ObserverOpened, TypeOK, MaybeAttempt
<1>5. ClosingFrames'
  BY DEF LiveInv, ClosingFrames
<1>. QED
  BY <1>1, <1>2, <1>3, <1>4, <1>5 DEF LiveInv

\* connect() and setAutoReconnect(), setMaxReconnectAttempts().
LEMMA ConnectKeepsLive ==
  ASSUME ConnectionAssumption, LiveInv, Connect
  PROVE  LiveInv'
<1>. USE DEF Connect, doConnect, retry, config
<1>1. CASE ConnectReturnsEarly
  <2>1. TypeOK'
    BY <1>1 DEF LiveInv, TypeOK, owner, perAttempt
  <2>. QED
    BY <1>1, <2>1, LiveUntouched DEF owner, perAttempt
<1>2. CASE ~ConnectReturnsEarly
  <2>1. PICK created \in BOOLEAN : StartConnect(created)
    BY <1>2
  <2>2. ~connected
    BY <1>2 DEF ConnectReturnsEarly
  <2>3. /\ ConnectedIsLive' /\ NoSocketLeak' /\ FinalizerReady' /\ ObserverOpened' /\ ClosingFrames'
        /\ ws' \in MaybeAttempt /\ connectionAttempt' \in MaybeAttempt
        /\ connectionPromise' \in MaybeAttempt /\ relayDisconnectObserver' \in MaybeAttempt
        /\ relayDisconnectFinalizer' \in MaybeAttempt /\ timeoutArmed' \subseteq Attempts
        /\ closeHandled' \subseteq Attempts /\ superseded' \subseteq Attempts
        /\ socket' \in [Attempts -> SocketState] /\ promise' \in [Attempts -> PromiseState]
    BY <2>1, <2>2, StartConnectLive
  <2>4. TypeOK'
    BY <2>3 DEF LiveInv, TypeOK
  <2>. QED
    BY <2>3, <2>4 DEF LiveInv
<1>. QED
  BY <1>1, <1>2

\* The reconnect timer counts a retry and connects.
LEMMA ReconnectTimerKeepsLive ==
  ASSUME ConnectionAssumption, LiveInv, ReconnectTimer
  PROVE  LiveInv'
<1>. USE DEF ReconnectTimer, doConnect, config
<1>3. reconnectAttempts' \in 0 .. RetryCap
  BY DEF ConnectionAssumption, LiveInv, TypeOK
<1>1. CASE ConnectReturnsEarly
  <2>1. TypeOK'
    BY <1>1, <1>3 DEF LiveInv, TypeOK, owner, perAttempt
  <2>. QED
    BY <1>1, <2>1, LiveUntouched DEF owner, perAttempt
<1>2. CASE ~ConnectReturnsEarly
  <2>1. PICK created \in BOOLEAN : StartConnect(created)
    BY <1>2
  <2>2. ~connected
    BY <1>2 DEF ConnectReturnsEarly
  <2>3. /\ ConnectedIsLive' /\ NoSocketLeak' /\ FinalizerReady' /\ ObserverOpened' /\ ClosingFrames'
        /\ ws' \in MaybeAttempt /\ connectionAttempt' \in MaybeAttempt
        /\ connectionPromise' \in MaybeAttempt /\ relayDisconnectObserver' \in MaybeAttempt
        /\ relayDisconnectFinalizer' \in MaybeAttempt /\ timeoutArmed' \subseteq Attempts
        /\ closeHandled' \subseteq Attempts /\ superseded' \subseteq Attempts
        /\ socket' \in [Attempts -> SocketState] /\ promise' \in [Attempts -> PromiseState]
    BY <2>1, <2>2, StartConnectLive
  <2>4. TypeOK'
    BY <1>3, <2>3 DEF LiveInv, TypeOK
  <2>. QED
    BY <2>3, <2>4 DEF LiveInv
<1>. QED
  BY <1>1, <1>2

\* setAutoReconnect() and setMaxReconnectAttempts() touch settings and the timer.
LEMMA SettingsKeepLive ==
  ASSUME ConnectionAssumption, LiveInv,
         \/ \E enable \in AutoReconnectValues : SetAutoReconnect(enable)
         \/ \E max \in MaxReconnectValues : SetMaxReconnectAttempts(max)
  PROVE  LiveInv'
<1>1. CASE \E enable \in AutoReconnectValues : SetAutoReconnect(enable)
  <2>1. TypeOK'
    BY <1>1 DEF LiveInv, TypeOK, SetAutoReconnect, owner, perAttempt
  <2>. QED
    BY <1>1, <2>1, LiveUntouched DEF SetAutoReconnect, owner, perAttempt
<1>2. CASE \E max \in MaxReconnectValues : SetMaxReconnectAttempts(max)
  <2>1. TypeOK'
    BY <1>2 DEF LiveInv, TypeOK, SetMaxReconnectAttempts, owner, retry, perAttempt
  <2>. QED
    BY <1>2, <2>1, LiveUntouched DEF SetMaxReconnectAttempts, owner, perAttempt
<1>. QED
  BY <1>1, <1>2

\* disconnect(), inside a callback or not: no socket survives it.
LEMMA DisconnectKeepsLive ==
  ASSUME ConnectionAssumption, LiveInv, Disconnect
  PROVE  LiveInv'
<1>. USE DEF ConnectionAssumption
<1>. DEFINE closes == /\ ws # NoAttempt /\ relayDisconnectFinalizer # NoAttempt
                      /\ FinalizeCloseApplies(relayDisconnectFinalizer, TRUE)
<1>1. /\ ~connected' /\ ~bufferFlushInterval'
      /\ ws' = NoAttempt /\ connectionAttempt' = NoAttempt /\ relayDisconnectObserver' = NoAttempt
      /\ socket' = detachSocketHandlers(socket, ws)
  BY DEF Disconnect, FinalizeCloseBegin
<1>2. \A a \in Attempts : socket'[a] \notin {"connecting", "open"}
  BY <1>1 DEF LiveInv, TypeOK, NoSocketLeak, detachSocketHandlers, MaybeAttempt
<1>3. socket' \in [Attempts -> SocketState]
  BY <1>1 DEF LiveInv, TypeOK, detachSocketHandlers, SocketState
<1>4. /\ closeHandled \subseteq closeHandled'
      /\ closeHandled' \subseteq Attempts /\ timeoutArmed' \subseteq Attempts
      /\ frames' \in Seq(Frame)
      /\ \A i \in DOMAIN frames' : \/ frames'[i].fn = "close" /\ frames'[i].a \in closeHandled'
                                   \/ \E j \in DOMAIN frames : frames'[i] = frames[j]
  <2>1. CASE closes
    <3>1. /\ closeHandled' = closeHandled \cup {relayDisconnectFinalizer}
          /\ timeoutArmed' = timeoutArmed \ {relayDisconnectFinalizer}
          /\ Suspend("close", relayDisconnectFinalizer, connected /\ ~TRUE, TRUE)
      BY <2>1 DEF Disconnect, FinalizeCloseBegin
    <3>2. relayDisconnectFinalizer \in Attempts
      BY <2>1 DEF LiveInv, TypeOK, MaybeAttempt
    <3>3. (connected /\ ~TRUE) \in BOOLEAN
      OBVIOUS
    <3>4. /\ frames' \in Seq(Frame)
          /\ \A i \in DOMAIN frames' :
               \/ frames'[i].fn = "close" /\ frames'[i].a = relayDisconnectFinalizer
               \/ \E j \in DOMAIN frames : frames'[i] = frames[j]
      BY <3>1, <3>2, <3>3, SuspendAdds DEF LiveInv
    <3>. QED
      BY <3>1, <3>2, <3>4 DEF LiveInv, TypeOK
  <2>2. CASE ~closes
    BY <2>2 DEF Disconnect, LiveInv, TypeOK
  <2>. QED
    BY <2>1, <2>2
<1>5. TypeOK'
  <2>1. /\ connected' = FALSE /\ bufferFlushInterval' = FALSE /\ wanted' = FALSE
        /\ reconnectTimer' = FALSE /\ connectionPromise' = NoAttempt /\ superseded' = Attempts
        /\ UNCHANGED <<config, reconnectAttempts, relayDisconnectFinalizer, promise>>
    BY DEF Disconnect, FinalizeCloseBegin
  <2>. QED
    BY <1>1, <1>3, <1>4, <2>1 DEF config, LiveInv, TypeOK, MaybeAttempt
<1>6. \A a \in Attempts : a # NoAttempt
  OBVIOUS
<1>. QED
  BY <1>1, <1>2, <1>4, <1>5, <1>6, LiveLost

\* onopen, up to its event: the current attempt holds the socket, its finalizer
\* and now its observer, so the connection is whole when it is announced.
LEMMA SocketOpenKeepsLive ==
  ASSUME ConnectionAssumption, LiveInv, NEW b \in Attempts, SocketOpen(b)
  PROVE  LiveInv'
<1>. USE DEF ConnectionAssumption
<1>1. ws = b /\ socket' = [socket EXCEPT ![b] = "open"] /\ socket'[b] = "open"
  BY DEF SocketOpen, LiveInv, TypeOK, NoSocketLeak
<1>2. socket' \in [Attempts -> SocketState]
  BY <1>1 DEF LiveInv, TypeOK, SocketState
<1>3. NoSocketLeak'
  BY <1>1 DEF SocketOpen, LiveInv, TypeOK, NoSocketLeak
<1>4. CASE b = connectionAttempt
  <2>1. /\ timeoutArmed' = timeoutArmed \ {b} /\ connected' = TRUE
        /\ reconnectAttempts' = 0 /\ reconnectTimer' = FALSE
        /\ bufferFlushInterval' = TRUE /\ relayDisconnectObserver' = b
        /\ Suspend("open", b, FALSE, FALSE)
    BY <1>4 DEF SocketOpen, resetReconnectAttempts
  <2>2. /\ frames' \in Seq(Frame)
        /\ \A i \in DOMAIN frames' : \/ frames'[i].fn = "open"
                                     \/ \E j \in DOMAIN frames : frames'[i] = frames[j]
    BY <2>1, SuspendAdds DEF LiveInv
  <2>3. TypeOK'
    <3>1. UNCHANGED <<ws, connectionAttempt, connectionPromise, relayDisconnectFinalizer, config,
                      promise, closeHandled, superseded, wanted>>
      BY DEF SocketOpen
    <3>2. reconnectAttempts' \in 0 .. RetryCap
      BY <2>1
    <3>. QED
      BY <1>2, <2>1, <2>2, <3>1, <3>2 DEF config, LiveInv, TypeOK, MaybeAttempt
  <2>4. ConnectedIsLive'
    BY <1>1, <1>4, <2>1 DEF SocketOpen, LiveInv, FinalizerReady, ConnectedIsLive
  <2>5. FinalizerReady' /\ ObserverOpened'
    BY <1>1, <1>4, <2>1 DEF SocketOpen, FinalizerReady, ObserverOpened
  <2>6. ClosingFrames'
    <3>1. frames = <<>>
      BY DEF SocketOpen
    <3>. QED
      BY <2>2, <3>1 DEF ClosingFrames
  <2>. QED
    BY <1>3, <2>3, <2>4, <2>5, <2>6 DEF LiveInv
<1>5. CASE b # connectionAttempt
  <2>1. UNCHANGED <<timeoutArmed, connected, retry, bufferFlushInterval,
                    relayDisconnectObserver, frames, ws, connectionAttempt, closeHandled,
                    relayDisconnectFinalizer>>
    BY <1>5 DEF SocketOpen
  <2>2. TypeOK'
    BY <1>2, <1>5 DEF SocketOpen, config, retry, LiveInv, TypeOK
  <2>3. ConnectedIsLive' /\ ClosingFrames'
    BY <1>1, <1>5, <2>1 DEF LiveInv, ConnectedIsLive, ClosingFrames
  <2>4. FinalizerReady' /\ ObserverOpened'
    BY <1>1, <1>5, <2>1 DEF LiveInv, TypeOK, FinalizerReady, ObserverOpened, MaybeAttempt
  <2>. QED
    BY <1>3, <2>2, <2>3, <2>4 DEF LiveInv
<1>. QED
  BY <1>4, <1>5

\* onclose, up to its event.
LEMMA SocketCloseKeepsLive ==
  ASSUME ConnectionAssumption, LiveInv, NEW b \in Attempts, SocketClose(b)
  PROVE  LiveInv'
<1>. USE DEF ConnectionAssumption
<1>1. /\ frames = <<>> /\ socket' = [socket EXCEPT ![b] = "closed"]
      /\ UNCHANGED <<owner, retry, config, promise, superseded, wanted>>
  BY DEF SocketClose
<1>2. socket' \in [Attempts -> SocketState]
  BY <1>1 DEF LiveInv, TypeOK, SocketState
<1>3. \A a \in Attempts : socket'[a] = IF a = b THEN "closed" ELSE socket[a]
  BY <1>1 DEF LiveInv, TypeOK
<1>4. CASE FinalizeCloseApplies(b, FALSE)
  <2>1. /\ closeHandled' = closeHandled \cup {b} /\ timeoutArmed' = timeoutArmed \ {b}
        /\ Suspend("close", b, connected /\ ~FALSE, FALSE)
        /\ connected' = FALSE /\ bufferFlushInterval' = FALSE
        /\ b = connectionAttempt
    BY <1>4 DEF SocketClose, FinalizeCloseBegin, FinalizeCloseApplies
  <2>2. (connected /\ ~FALSE) \in BOOLEAN
    BY DEF LiveInv, TypeOK
  <2>3. /\ frames' \in Seq(Frame)
        /\ \A i \in DOMAIN frames' : \/ frames'[i].fn = "close" /\ frames'[i].a = b
                                     \/ \E j \in DOMAIN frames : frames'[i] = frames[j]
    BY <2>1, <2>2, SuspendAdds DEF LiveInv
  <2>4. TypeOK'
    BY <1>1, <1>2, <2>1, <2>3 DEF owner, retry, config, LiveInv, TypeOK
  <2>5. \A a \in Attempts : socket'[a] \in {"connecting", "open"} => socket'[a] = socket[a] /\ ws' = a
    BY <1>1, <1>3 DEF owner, LiveInv, NoSocketLeak
  <2>6. \A a \in Attempts : connectionAttempt' = a => socket'[a] # "connecting"
    BY <1>1, <1>3, <2>1 DEF owner
  <2>7. \A i \in DOMAIN frames' : \/ frames'[i].fn = "close" /\ frames'[i].a \in closeHandled'
                                  \/ \E j \in DOMAIN frames : frames'[i] = frames[j]
    BY <2>1, <2>3
  <2>8. relayDisconnectObserver' = relayDisconnectObserver
    BY <1>1 DEF owner
  <2>9. /\ ~connected' /\ ~bufferFlushInterval' /\ closeHandled \subseteq closeHandled'
    BY <2>1
  <2>. QED
    BY <2>4, <2>5, <2>6, <2>7, <2>8, <2>9, LiveLost
<1>5. CASE ~FinalizeCloseApplies(b, FALSE)
  <2>1. UNCHANGED <<closeHandled, timeoutArmed, frames, connected, bufferFlushInterval>>
    BY <1>5 DEF SocketClose
  <2>2. TypeOK'
    BY <1>1, <1>2, <2>1 DEF owner, retry, config, LiveInv, TypeOK
  <2>3. NoSocketLeak' /\ FinalizerReady'
    BY <1>1, <1>3, <2>1 DEF owner, LiveInv, NoSocketLeak, FinalizerReady
  <2>4. ObserverOpened'
    BY <1>1, <1>3, <2>1 DEF owner, LiveInv, TypeOK, MaybeAttempt, ObserverOpened
  <2>5. ConnectedIsLive'
    <3>1. connected => ws \in Attempts /\ ws # b
      BY <1>5 DEF LiveInv, TypeOK, MaybeAttempt, ConnectedIsLive, FinalizeCloseApplies
    <3>. QED
      BY <1>1, <1>3, <2>1, <3>1 DEF owner, LiveInv, ConnectedIsLive
  <2>6. ClosingFrames'
    BY <2>1 DEF LiveInv, ClosingFrames
  <2>. QED
    BY <2>2, <2>3, <2>4, <2>5, <2>6 DEF LiveInv
<1>. QED
  BY <1>4, <1>5

\* The shutdown observer: its socket has opened, so nothing is left connecting.
LEMMA ObserverNotifiedKeepsLive ==
  ASSUME ConnectionAssumption, LiveInv, NEW b \in Attempts, ObserverNotified(b)
  PROVE  LiveInv'
<1>. USE DEF ConnectionAssumption
<1>1. /\ closeHandled' = closeHandled \cup {b} /\ timeoutArmed' = timeoutArmed \ {b}
      /\ Suspend("close", b, connected /\ ~FALSE, FALSE)
      /\ connected' = FALSE /\ bufferFlushInterval' = FALSE
      /\ b = connectionAttempt /\ b = relayDisconnectObserver
      /\ UNCHANGED <<owner, retry, config, socket, promise, superseded, wanted>>
  BY DEF ObserverNotified, FinalizeCloseBegin, FinalizeCloseApplies
<1>2. (connected /\ ~FALSE) \in BOOLEAN
  BY DEF LiveInv, TypeOK
<1>3. /\ frames' \in Seq(Frame)
      /\ \A i \in DOMAIN frames' : \/ frames'[i].fn = "close" /\ frames'[i].a = b
                                   \/ \E j \in DOMAIN frames : frames'[i] = frames[j]
  BY <1>1, <1>2, SuspendAdds DEF LiveInv
<1>4. TypeOK'
  BY <1>1, <1>3 DEF owner, retry, config, LiveInv, TypeOK
<1>5. \A a \in Attempts : socket'[a] \in {"connecting", "open"} => socket'[a] = socket[a] /\ ws' = a
  BY <1>1 DEF owner, LiveInv, NoSocketLeak
<1>6. \A a \in Attempts : connectionAttempt' = a => socket'[a] # "connecting"
  BY <1>1 DEF owner, LiveInv, ObserverOpened
<1>7. \A i \in DOMAIN frames' : \/ frames'[i].fn = "close" /\ frames'[i].a \in closeHandled'
                                \/ \E j \in DOMAIN frames : frames'[i] = frames[j]
  BY <1>1, <1>3
<1>8. relayDisconnectObserver' = relayDisconnectObserver
  BY <1>1 DEF owner
<1>9. /\ ~connected' /\ ~bufferFlushInterval' /\ closeHandled \subseteq closeHandled'
  BY <1>1
<1>. QED
  BY <1>4, <1>5, <1>6, <1>7, <1>8, <1>9, LiveLost

\* finalizeClose() after its event: whoever is connecting by then is another attempt.
LEMMA CloseReturnKeepsLive ==
  ASSUME ConnectionAssumption, LiveInv, FinalizeCloseReturn
  PROVE  LiveInv'
<1>. USE DEF ConnectionAssumption
<1>. DEFINE f == Head(frames)
<1>1. /\ frames # <<>> /\ f.fn = "close" /\ frames' = Tail(frames)
      /\ relayDisconnectObserver' = clearRegistration(relayDisconnectObserver, f.a)
      /\ relayDisconnectFinalizer' = clearRegistration(relayDisconnectFinalizer, f.a)
      /\ \/ UNCHANGED <<socket, connectionPromise, connectionAttempt, promise>>
         \/ /\ socket' = detachSocketHandlers(socket, f.a)
            /\ connectionPromise' = NoAttempt /\ connectionAttempt' = NoAttempt
            /\ promise' = settle(promise, f.a, "rejected")
      /\ UNCHANGED <<ws, reconnectAttempts, config, timeoutArmed, closeHandled, superseded,
                     connected, bufferFlushInterval, wanted>>
  BY DEF FinalizeCloseReturn, Suspended
<1>2. reconnectTimer' \in BOOLEAN
  BY DEF FinalizeCloseReturn, scheduleReconnect, LiveInv, TypeOK
<1>3. /\ frames' \in Seq(Frame) /\ f \in Frame /\ f.a \in Attempts
      /\ \E i \in DOMAIN frames : f = frames[i]
      /\ \A i \in DOMAIN frames' : \E j \in DOMAIN frames : frames'[i] = frames[j]
  BY <1>1, ReturnLeaves DEF LiveInv
<1>4. ~connected /\ f.a \in closeHandled
  BY <1>1, <1>3 DEF LiveInv, ClosingFrames
<1>5. /\ relayDisconnectObserver' \in {relayDisconnectObserver, NoAttempt}
      /\ relayDisconnectFinalizer' \in {relayDisconnectFinalizer, NoAttempt}
      /\ relayDisconnectFinalizer # f.a => relayDisconnectFinalizer' = relayDisconnectFinalizer
  BY <1>1 DEF clearRegistration
<1>6. /\ socket' \in [Attempts -> SocketState] /\ promise' \in [Attempts -> PromiseState]
      /\ \A a \in Attempts : socket'[a] \in {"connecting", "open"} => socket'[a] = socket[a]
  BY <1>1, <1>3 DEF LiveInv, TypeOK, detachSocketHandlers, settle, SocketState, PromiseState
<1>7. TypeOK'
  <2>1. /\ connectionPromise' \in MaybeAttempt /\ connectionAttempt' \in MaybeAttempt
        /\ relayDisconnectObserver' \in MaybeAttempt /\ relayDisconnectFinalizer' \in MaybeAttempt
    BY <1>1, <1>5 DEF LiveInv, TypeOK, MaybeAttempt
  <2>. QED
    BY <1>1, <1>2, <1>3, <1>6, <2>1 DEF config, LiveInv, TypeOK
<1>8. \A a \in Attempts : socket'[a] \in {"connecting", "open"} => socket'[a] = socket[a] /\ ws' = a
  BY <1>1, <1>6 DEF LiveInv, NoSocketLeak
<1>9. \A a \in Attempts : connectionAttempt' = a /\ socket'[a] = "connecting" =>
        connectionAttempt = a /\ relayDisconnectFinalizer' = relayDisconnectFinalizer
  <2>. SUFFICES ASSUME NEW a \in Attempts, connectionAttempt' = a, socket'[a] = "connecting"
                PROVE  connectionAttempt = a /\ relayDisconnectFinalizer' = relayDisconnectFinalizer
    OBVIOUS
  <2>1. connectionAttempt = a /\ socket[a] = "connecting"
    BY <1>1, <1>6
  <2>2. relayDisconnectFinalizer = a /\ a # f.a
    BY <1>4, <2>1 DEF LiveInv, FinalizerReady
  <2>. QED
    BY <1>5, <2>1, <2>2
<1>10. ~connected' /\ ~bufferFlushInterval' /\ closeHandled' = closeHandled
  BY <1>1, <1>4 DEF LiveInv, ConnectedIsLive
<1>. QED
  BY <1>3, <1>5, <1>7, <1>8, <1>9, <1>10, LiveLost

\* The connection timeout after its event: it leaves no socket connecting or open.
LEMMA TimeoutReturnKeepsLive ==
  ASSUME ConnectionAssumption, LiveInv, ConnectionTimeoutReturn
  PROVE  LiveInv'
<1>. USE DEF ConnectionAssumption
<1>. DEFINE f == Head(frames)
<1>1. /\ frames # <<>> /\ f.fn = "timeout" /\ frames' = Tail(frames)
      /\ socket' = closeSocket(detachSocketHandlers(socket, f.a), ws)
      /\ relayDisconnectObserver' = clearRegistration(relayDisconnectObserver, f.a)
      /\ relayDisconnectFinalizer' = clearRegistration(relayDisconnectFinalizer, f.a)
      /\ promise' = settle(promise, f.a, "rejected")
      /\ ws' = NoAttempt /\ connectionPromise' = NoAttempt /\ connectionAttempt' = NoAttempt
      /\ UNCHANGED <<retry, config, timeoutArmed, closeHandled, superseded, connected,
                     bufferFlushInterval, wanted>>
  BY DEF ConnectionTimeoutReturn, Suspended
<1>2. /\ frames' \in Seq(Frame) /\ f \in Frame /\ f.a \in Attempts
      /\ \E i \in DOMAIN frames : f = frames[i]
      /\ \A i \in DOMAIN frames' : \E j \in DOMAIN frames : frames'[i] = frames[j]
  BY <1>1, ReturnLeaves DEF LiveInv
<1>3. ~connected
  BY <1>1, <1>2 DEF LiveInv, ClosingFrames
<1>4. /\ relayDisconnectObserver' \in {relayDisconnectObserver, NoAttempt}
      /\ relayDisconnectFinalizer' \in {relayDisconnectFinalizer, NoAttempt}
  BY <1>1 DEF clearRegistration
<1>5. promise' \in [Attempts -> PromiseState]
  BY <1>1, <1>2 DEF LiveInv, TypeOK, settle, PromiseState
<1>6. /\ detachSocketHandlers(socket, f.a) \in [Attempts -> SocketState]
      /\ \A a \in Attempts :
           detachSocketHandlers(socket, f.a)[a] \in {"connecting", "open"} => a = ws
  BY <1>2 DEF LiveInv, TypeOK, NoSocketLeak, detachSocketHandlers, SocketState
<1>7. /\ socket' \in [Attempts -> SocketState]
      /\ \A a \in Attempts : socket'[a] \notin {"connecting", "open"}
  <2>. DEFINE s == detachSocketHandlers(socket, f.a)
  <2>1. socket' = closeSocket(s, ws) /\ s \in [Attempts -> SocketState] /\ ws \in MaybeAttempt
    BY <1>1, <1>6 DEF LiveInv, TypeOK
  <2>2. \A a \in Attempts : s[a] \in {"connecting", "open"} => a = ws
    BY <1>6
  <2>. HIDE DEF s
  <2>. QED
    BY <2>1, <2>2 DEF closeSocket, MaybeAttempt, SocketState
<1>8. TypeOK'
  BY <1>1, <1>2, <1>4, <1>5, <1>7 DEF retry, config, LiveInv, TypeOK, MaybeAttempt
<1>9. ~connected' /\ ~bufferFlushInterval' /\ closeHandled' = closeHandled
  BY <1>1, <1>3 DEF LiveInv, ConnectedIsLive
<1>. QED
  BY <1>2, <1>4, <1>7, <1>8, <1>9, LiveLost

\* onerror after its event: it gives up whatever is under way, or does nothing.
LEMMA ErrorReturnKeepsLive ==
  ASSUME ConnectionAssumption, LiveInv, SocketErrorReturn
  PROVE  LiveInv'
<1>. USE DEF ConnectionAssumption
<1>. DEFINE f == Head(frames)
<1>1. /\ frames # <<>> /\ frames' = Tail(frames)
      /\ UNCHANGED <<ws, retry, config, timeoutArmed, closeHandled, superseded, connected,
                     bufferFlushInterval, wanted>>
  BY DEF SocketErrorReturn, Suspended
<1>2. /\ frames' \in Seq(Frame) /\ f \in Frame /\ f.a \in Attempts
      /\ \A i \in DOMAIN frames' : \E j \in DOMAIN frames : frames'[i] = frames[j]
  BY <1>1, ReturnLeaves DEF LiveInv
<1>3. CASE ~connected /\ connectionPromise # NoAttempt
  <2>1. /\ socket' = detachSocketHandlers(socket, f.a)
        /\ connectionPromise' = NoAttempt /\ connectionAttempt' = NoAttempt
        /\ relayDisconnectObserver' \in {relayDisconnectObserver, NoAttempt}
        /\ relayDisconnectFinalizer' \in {relayDisconnectFinalizer, NoAttempt}
        /\ promise' = settle(promise, f.a, "rejected")
    BY <1>3 DEF SocketErrorReturn, clearRegistration
  <2>2. /\ socket' \in [Attempts -> SocketState] /\ promise' \in [Attempts -> PromiseState]
        /\ \A a \in Attempts :
             socket'[a] \in {"connecting", "open"} => socket'[a] = socket[a]
    BY <1>2, <2>1 DEF LiveInv, TypeOK, detachSocketHandlers, settle, SocketState, PromiseState
  <2>3. TypeOK'
    BY <1>1, <1>2, <2>1, <2>2 DEF retry, config, LiveInv, TypeOK, MaybeAttempt
  <2>4. \A a \in Attempts :
          socket'[a] \in {"connecting", "open"} => socket'[a] = socket[a] /\ ws' = a
    BY <1>1, <2>2 DEF LiveInv, NoSocketLeak
  <2>5. ~connected' /\ ~bufferFlushInterval' /\ closeHandled' = closeHandled
    BY <1>1, <1>3 DEF LiveInv, ConnectedIsLive
  <2>. QED
    BY <1>2, <2>1, <2>3, <2>4, <2>5, LiveLost
<1>4. CASE ~(~connected /\ connectionPromise # NoAttempt)
  <2>1. UNCHANGED <<socket, connectionPromise, relayDisconnectObserver,
                    relayDisconnectFinalizer, connectionAttempt, promise>>
    BY <1>4 DEF SocketErrorReturn
  <2>2. TypeOK'
    BY <1>1, <1>2, <2>1 DEF retry, config, LiveInv, TypeOK
  <2>. QED
    BY <1>1, <1>2, <2>1, <2>2, LiveUntouched
<1>. QED
  BY <1>3, <1>4

\* onerror and the connection timeout, up to their events: only a frame is new.
LEMMA SuspendingKeepsLive ==
  ASSUME ConnectionAssumption, LiveInv, NEW b \in Attempts,
         SocketError(b) \/ ConnectionTimeout(b)
  PROVE  LiveInv'
<1>1. /\ timeoutArmed' = timeoutArmed \ {b}
      /\ \/ Suspend("error", b, FALSE, FALSE)
         \/ Suspend("timeout", b, FALSE, FALSE) /\ ~connected
         \/ UNCHANGED frames
      /\ UNCHANGED <<owner, retry, config, socket, promise, closeHandled, superseded, connected,
                     bufferFlushInterval, wanted>>
  BY DEF SocketError, ConnectionTimeout
<1>2. /\ frames' \in Seq(Frame)
      /\ \A i \in DOMAIN frames' : \/ frames'[i].fn \in {"open", "error"}
                                   \/ frames'[i].fn = "timeout" /\ ~connected
                                   \/ \E j \in DOMAIN frames : frames'[i] = frames[j]
  <2>1. CASE Suspend("error", b, FALSE, FALSE)
    BY <2>1, SuspendAdds DEF LiveInv
  <2>2. CASE Suspend("timeout", b, FALSE, FALSE) /\ ~connected
    BY <2>2, SuspendAdds DEF LiveInv
  <2>3. CASE UNCHANGED frames
    BY <2>3 DEF LiveInv, TypeOK
  <2>. QED
    BY <1>1, <2>1, <2>2, <2>3
<1>3. TypeOK'
  BY <1>1, <1>2 DEF owner, retry, config, LiveInv, TypeOK
<1>. QED
  BY <1>1, <1>2, <1>3, LiveUntouched DEF owner

\* What settles a promise, or forgets a settled one, is not about sockets.
LEMMA SettlingKeepsLive ==
  ASSUME ConnectionAssumption, LiveInv,
         \/ SocketOpenReturn
         \/ PromiseCleanup
         \/ \E a \in Attempts : ConnectRejected(a)
         \/ UNCHANGED vars
  PROVE  LiveInv'
<1>1. CASE SocketOpenReturn
  <2>1. /\ frames # <<>> /\ frames' = Tail(frames)
        /\ promise' = settle(promise, Head(frames).a, "true")
        /\ UNCHANGED <<owner, retry, config, socket, timeoutArmed, closeHandled, superseded,
                       connected, bufferFlushInterval, wanted>>
    BY <1>1 DEF SocketOpenReturn, Suspended
  <2>2. /\ frames' \in Seq(Frame) /\ Head(frames).a \in Attempts
        /\ \A i \in DOMAIN frames' : \E j \in DOMAIN frames : frames'[i] = frames[j]
    BY <2>1, ReturnLeaves DEF LiveInv
  <2>3. promise' \in [Attempts -> PromiseState]
    BY <2>1, <2>2 DEF LiveInv, TypeOK, settle, PromiseState
  <2>4. TypeOK'
    BY <2>1, <2>2, <2>3 DEF owner, retry, config, LiveInv, TypeOK
  <2>. QED
    BY <2>1, <2>2, <2>4, LiveUntouched DEF owner
<1>2. CASE PromiseCleanup
  <2>1. TypeOK'
    BY <1>2 DEF PromiseCleanup, retry, config, perAttempt, LiveInv, TypeOK, MaybeAttempt
  <2>. QED
    BY <1>2, <2>1, LiveUntouched DEF PromiseCleanup, perAttempt
<1>3. CASE \E a \in Attempts : ConnectRejected(a)
  <2>1. PICK a \in Attempts : ConnectRejected(a)
    BY <1>3
  <2>2. promise' \in [Attempts -> PromiseState]
    BY <2>1 DEF ConnectRejected, LiveInv, TypeOK, PromiseState
  <2>3. reconnectTimer' \in BOOLEAN
    BY <2>1 DEF ConnectRejected, scheduleReconnect, LiveInv, TypeOK
  <2>4. TypeOK'
    BY <2>1, <2>2, <2>3 DEF ConnectRejected, owner, config, LiveInv, TypeOK
  <2>. QED
    BY <2>1, <2>4, LiveUntouched DEF ConnectRejected, owner
<1>4. CASE UNCHANGED vars
  <2>1. TypeOK'
    BY <1>4 DEF vars, owner, retry, config, perAttempt, LiveInv, TypeOK
  <2>. QED
    BY <1>4, <2>1, LiveUntouched DEF vars, owner, perAttempt
<1>. QED
  BY <1>1, <1>2, <1>3, <1>4

\* Every step, in or out of a callback, keeps the socket and its owners together.
LEMMA NextKeepsLive ==
  ASSUME ConnectionAssumption, LiveInv, [Next]_vars
  PROVE  LiveInv'
<1>1. CASE UserCall
  BY <1>1, ConnectKeepsLive, DisconnectKeepsLive, SettingsKeepLive DEF UserCall
<1>2. CASE CallbackReturn
  BY <1>2, SettlingKeepsLive, CloseReturnKeepsLive, ErrorReturnKeepsLive, TimeoutReturnKeepsLive
  DEF CallbackReturn
<1>3. CASE PromiseCleanup \/ UNCHANGED vars
  BY <1>3, SettlingKeepsLive
<1>4. CASE ReconnectTimer
  BY <1>4, ReconnectTimerKeepsLive
<1>5. ASSUME NEW a \in Attempts,
             \/ SocketOpen(a) \/ SocketClose(a) \/ SocketError(a)
             \/ ObserverNotified(a) \/ ConnectionTimeout(a) \/ ConnectRejected(a)
      PROVE  LiveInv'
  BY <1>5, SocketOpenKeepsLive, SocketCloseKeepsLive, ObserverNotifiedKeepsLive,
     SuspendingKeepsLive, SettlingKeepsLive
<1>. QED
  BY <1>1, <1>2, <1>3, <1>4, <1>5 DEF Next

\* What holds even when callbacks call back into the relay.
THEOREM LiveInvariant == Spec => []LiveInv
<1>1. Init => LiveInv
  BY LiveInitially, ConnectionAssumption
<1>2. LiveInv /\ [Next]_vars => LiveInv'
  BY NextKeepsLive, ConnectionAssumption
<1>. QED
  BY <1>1, <1>2, PTL DEF Spec

\* Every variable keeps its type: connect(), disconnect() and the handlers.
THEOREM TypeCorrect == Spec => []TypeOK
<1>1. LiveInv => TypeOK
  BY DEF LiveInv
<1>. QED
  BY <1>1, LiveInvariant, PTL

\* connected is TRUE only for the open socket of the current attempt, with its
\* observer and finalizer registered, and the flush interval runs exactly then.
THEOREM ConnectedLive == Spec => []ConnectedIsLive
<1>1. LiveInv => ConnectedIsLive
  BY DEF LiveInv
<1>. QED
  BY <1>1, LiveInvariant, PTL

\* No connecting or open socket is left behind with its handlers attached.
THEOREM NoLeak == Spec => []NoSocketLeak
<1>1. LiveInv => NoSocketLeak
  BY DEF LiveInv
<1>. QED
  BY <1>1, LiveInvariant, PTL

-----------------------------------------------------------------------------
\* When callbacks do not call back into the relay.

Owned(a) ==
  /\ connectionAttempt = a /\ connectionPromise = a /\ ws = a
  /\ a \in timeoutArmed
  /\ relayDisconnectFinalizer = a /\ a \notin closeHandled
  /\ ~connected

\* The suspended handler is about to settle the promise of a.
WillSettle(a) ==
  /\ Head(frames).a = a
  /\ Head(frames).fn = "error" => ~connected /\ connectionPromise # NoAttempt
  /\ Head(frames).fn = "close" => ~Head(frames).wasConnected

Sequential == frames # <<>> => Tail(frames) = <<>>

Settling ==
  \A a \in Attempts : promise[a] = "pending" =>
    IF frames = <<>> THEN Owned(a) ELSE WillSettle(a)

Opening ==
  /\ \A a \in Attempts :
       socket[a] = "connecting" /\ connectionAttempt = a => promise[a] = "pending"
  /\ Suspended("open") => socket[Head(frames).a] # "connecting"

Disconnecting ==
  frames # <<>> =>
    /\ Head(frames).fn \in {"close", "timeout"} => ~connected
    /\ Head(frames).wasConnected => wanted

WantedAttempts ==
  \A a \in Attempts : promise[a] \in {"pending", "rejected"} /\ a \notin superseded => wanted

QuietInv ==
  /\ Sequential /\ Settling /\ Opening
  /\ Disconnecting /\ WantedAttempts /\ NoReconnectAfterDisconnect

IInv ==
  /\ TypeOK /\ ConnectedIsLive /\ NoSocketLeak
  /\ Sequential /\ Settling /\ Opening
  /\ Disconnecting /\ WantedAttempts /\ NoReconnectAfterDisconnect

-----------------------------------------------------------------------------
\* A frame pushed on no frames is the only one.
LEMMA SuspendOnce ==
  ASSUME NEW r \in Frame, NEW fs \in Seq(Frame), fs = <<>>
  PROVE  /\ <<r>> \o fs \in Seq(Frame)
         /\ <<r>> \o fs # <<>>
         /\ Head(<<r>> \o fs) = r
         /\ Tail(<<r>> \o fs) = <<>>
<1>1. <<r>> \o fs = <<r>>
  OBVIOUS
<1>. QED
  BY <1>1

\* The innermost handler returns: it was the only one.
LEMMA ReturnEmpties ==
  ASSUME IInv, frames # <<>>, frames' = Tail(frames)
  PROVE  /\ frames' = <<>>
         /\ Head(frames) \in Frame
         /\ Head(frames).a \in Attempts
         /\ Head(frames).wasConnected \in BOOLEAN
<1>1. frames' = <<>>
  BY DEF IInv, Sequential
<1>2. Head(frames) \in Frame
  BY DEF IInv, TypeOK
<1>. QED
  BY <1>1, <1>2 DEF Frame

\* A handler suspends when none is: its frame is the only one.
LEMMA SuspendPushes ==
  ASSUME IInv, frames = <<>>,
         NEW fn \in {"timeout", "open", "close", "error"}, NEW a \in Attempts,
         NEW was \in BOOLEAN, NEW user \in BOOLEAN,
         Suspend(fn, a, was, user)
  PROVE  /\ frames' \in Seq(Frame)
         /\ frames' # <<>>
         /\ Tail(frames') = <<>>
         /\ Head(frames').fn = fn
         /\ Head(frames').a = a
         /\ Head(frames').wasConnected = was
<1>. DEFINE r == [fn |-> fn, a |-> a, wasConnected |-> was, userInitiated |-> user]
<1>1. r \in Frame
  BY DEF Frame
<1>2. frames' = <<r>> \o frames /\ frames \in Seq(Frame)
  BY DEF Suspend, IInv, TypeOK
<1>3. /\ frames' \in Seq(Frame) /\ frames' # <<>>
      /\ Head(frames') = r /\ Tail(frames') = <<>>
  BY <1>1, <1>2, SuspendOnce
<1>. QED
  BY <1>3

\* The initial state satisfies the inductive invariant.
LEMMA InitQuiet ==
  ASSUME Init
  PROVE  QuietInv
<1>1. Sequential /\ Disconnecting
  BY DEF Init, Sequential, Disconnecting
<1>2. Settling /\ Opening /\ WantedAttempts /\ NoReconnectAfterDisconnect
  BY DEF Init, Settling, Opening, Suspended, WantedAttempts, NoReconnectAfterDisconnect
<1>. QED
  BY <1>1, <1>2 DEF QuietInv

\* setAutoReconnect() cancels at most the reconnect timer.
LEMMA SetAutoReconnectStep ==
  ASSUME ConnectionAssumption, IInv, NEW enable \in AutoReconnectValues, SetAutoReconnect(enable)
  PROVE  QuietInv'
<1>. USE DEF SetAutoReconnect, owner, perAttempt
<1>1. Settling'
  BY DEF IInv, TypeOK, Settling, Owned, WillSettle, Opening, Suspended, ConnectedIsLive,
         MaybeAttempt
<1>2. Opening'
  BY DEF IInv, TypeOK, Opening, Suspended, MaybeAttempt
<1>3. Disconnecting'
  BY DEF IInv, TypeOK, Disconnecting, NoReconnectAfterDisconnect, MaybeAttempt
<1>4. WantedAttempts' /\ NoReconnectAfterDisconnect'
  BY DEF IInv, TypeOK, WantedAttempts, NoReconnectAfterDisconnect, MaybeAttempt
<1>5. Sequential'
  BY DEF Sequential, IInv
<1>. QED
  BY <1>1, <1>2, <1>3, <1>4, <1>5 DEF QuietInv

\* setMaxReconnectAttempts() changes a setting only.
LEMMA SetMaxReconnectAttemptsStep ==
  ASSUME ConnectionAssumption, IInv, NEW max \in MaxReconnectValues, SetMaxReconnectAttempts(max)
  PROVE  QuietInv'
<1>. USE DEF SetMaxReconnectAttempts, owner, retry, perAttempt
<1>1. Settling'
  BY DEF IInv, TypeOK, Settling, Owned, WillSettle, Opening, Suspended, ConnectedIsLive,
         MaybeAttempt
<1>2. Opening'
  BY DEF IInv, TypeOK, Opening, Suspended, MaybeAttempt
<1>3. Disconnecting'
  BY DEF IInv, TypeOK, Disconnecting, NoReconnectAfterDisconnect, MaybeAttempt
<1>4. WantedAttempts' /\ NoReconnectAfterDisconnect'
  BY DEF IInv, TypeOK, WantedAttempts, NoReconnectAfterDisconnect, MaybeAttempt
<1>5. Sequential'
  BY DEF Sequential, IInv
<1>. QED
  BY <1>1, <1>2, <1>3, <1>4, <1>5 DEF QuietInv

\* The catch() of connect(): it schedules a reconnection only for an attempt that
\* is still wanted, by WantedAttempts.
LEMMA ConnectRejectedStep ==
  ASSUME ConnectionAssumption, IInv, NEW b \in Attempts, ConnectRejected(b)
  PROVE  QuietInv'
<1>. USE DEF ConnectRejected, owner, config, scheduleReconnect, DisconnectedSince
<1>1. Settling'
  BY DEF IInv, TypeOK, Settling, Owned, WillSettle, Opening, Suspended, ConnectedIsLive,
         MaybeAttempt
<1>2. Opening'
  BY DEF IInv, TypeOK, Opening, Suspended, MaybeAttempt
<1>3. Disconnecting'
  BY DEF IInv, TypeOK, Disconnecting, NoReconnectAfterDisconnect, MaybeAttempt
<1>4. WantedAttempts' /\ NoReconnectAfterDisconnect'
  BY DEF IInv, TypeOK, WantedAttempts, NoReconnectAfterDisconnect, MaybeAttempt
<1>5. Sequential'
  BY DEF Sequential, IInv
<1>. QED
  BY <1>1, <1>2, <1>3, <1>4, <1>5 DEF QuietInv

\* The promise that connect() shares is forgotten when it has settled.
LEMMA PromiseCleanupStep ==
  ASSUME ConnectionAssumption, IInv, PromiseCleanup
  PROVE  QuietInv'
<1>. USE DEF PromiseCleanup, retry, config, perAttempt
<1>1. Settling'
  BY DEF IInv, TypeOK, Settling, Owned, WillSettle, Opening, Suspended, ConnectedIsLive,
         MaybeAttempt
<1>2. Opening'
  BY DEF IInv, TypeOK, Opening, Suspended, MaybeAttempt
<1>3. Disconnecting'
  BY DEF IInv, TypeOK, Disconnecting, NoReconnectAfterDisconnect, MaybeAttempt
<1>4. WantedAttempts' /\ NoReconnectAfterDisconnect'
  BY DEF IInv, TypeOK, WantedAttempts, NoReconnectAfterDisconnect, MaybeAttempt
<1>5. Sequential'
  BY DEF Sequential, IInv
<1>. QED
  BY <1>1, <1>2, <1>3, <1>4, <1>5 DEF QuietInv

\* finalizeClose() after its event: the pending promise is the one it rejects, by
\* Settling, and it reconnects only for a wanted connection, by Disconnecting.
LEMMA FinalizeCloseReturnStep ==
  ASSUME ConnectionAssumption, IInv, FinalizeCloseReturn
  PROVE  QuietInv'
<1>. USE DEF ConnectionAssumption, FinalizeCloseReturn, Suspended, config, scheduleReconnect,
             settle, clearRegistration, detachSocketHandlers
<1>1. frames # <<>> /\ frames' = <<>> /\ Head(frames).a \in Attempts
  BY ReturnEmpties
<1>2. Settling' /\ Opening'
  BY <1>1 DEF IInv, TypeOK, Settling, Owned, WillSettle, Opening, Suspended, ConnectedIsLive,
              MaybeAttempt
<1>3. Disconnecting' /\ WantedAttempts' /\ NoReconnectAfterDisconnect'
  BY <1>1 DEF IInv, TypeOK, Disconnecting, WantedAttempts, NoReconnectAfterDisconnect,
              ConnectedIsLive, MaybeAttempt
<1>4. Sequential'
  BY <1>1 DEF Sequential, IInv
<1>. QED
  BY <1>2, <1>3, <1>4 DEF QuietInv

\* onerror, up to its event: nothing changes but the suspended handler.
LEMMA SocketErrorStep ==
  ASSUME ConnectionAssumption, IInv, NEW b \in Attempts, SocketError(b)
  PROVE  QuietInv'
<1>. USE DEF ConnectionAssumption, SocketError, Suspend, Frame, owner, config, retry
<1>1. /\ frames = <<>>
      /\ frames' \in Seq(Frame) /\ frames' # <<>> /\ Tail(frames') = <<>>
      /\ Head(frames').fn = "error" /\ Head(frames').a = b
      /\ Head(frames').wasConnected = FALSE
  BY SuspendPushes
<1>2. Settling'
  <2>1. ASSUME NEW a \in Attempts, promise'[a] = "pending"
        PROVE  Owned(a)
    BY <1>1, <2>1 DEF IInv, Settling
  <2>2. ASSUME NEW a \in Attempts, promise'[a] = "pending"
        PROVE  WillSettle(a)'
    BY <1>1, <2>1, <2>2 DEF IInv, TypeOK, Owned, WillSettle, MaybeAttempt
  <2>. QED
    BY <1>1, <2>2 DEF Settling
<1>3. Opening'
  BY <1>1 DEF IInv, TypeOK, Opening, Suspended, MaybeAttempt
<1>4. Disconnecting'
  BY <1>1 DEF IInv, TypeOK, Disconnecting, NoReconnectAfterDisconnect, MaybeAttempt
<1>5. WantedAttempts' /\ NoReconnectAfterDisconnect'
  BY <1>1 DEF IInv, TypeOK, WantedAttempts, NoReconnectAfterDisconnect, MaybeAttempt
<1>6. Sequential'
  BY <1>1 DEF Sequential, IInv
<1>. QED
  BY <1>2, <1>3, <1>4, <1>5, <1>6 DEF QuietInv

\* onopen after its event: it settles the one pending promise.
LEMMA SocketOpenReturnStep ==
  ASSUME ConnectionAssumption, IInv, SocketOpenReturn
  PROVE  QuietInv'
<1>. USE DEF ConnectionAssumption, SocketOpenReturn, Suspended, owner, retry, config, settle
<1>1. frames # <<>> /\ frames' = <<>> /\ Head(frames).a \in Attempts
  BY ReturnEmpties
<1>2. ASSUME NEW a \in Attempts, promise'[a] = "pending"
      PROVE  promise[a] = "pending" /\ a # Head(frames).a
  BY <1>1, <1>2 DEF IInv, TypeOK
<1>3. Settling' /\ Opening'
  <2>1. Settling'
    BY <1>1, <1>2 DEF IInv, Settling, WillSettle
  <2>2. ASSUME NEW a \in Attempts, socket[a] = "connecting", connectionAttempt = a
        PROVE  promise'[a] = "pending"
    <3>1. promise[a] = "pending"
      BY <2>2 DEF IInv, Opening, Suspended
    <3>2. Head(frames).a = a
      BY <1>1, <3>1 DEF IInv, Settling, WillSettle
    <3>. QED
      BY <1>1, <2>2, <3>2 DEF IInv, Opening, Suspended
  <2>. QED
    BY <1>1, <2>1, <2>2 DEF Opening, Suspended
<1>4. Disconnecting' /\ WantedAttempts' /\ NoReconnectAfterDisconnect'
  BY <1>1 DEF IInv, TypeOK, Disconnecting, WantedAttempts, NoReconnectAfterDisconnect,
              ConnectedIsLive, MaybeAttempt
<1>5. Sequential'
  BY <1>1 DEF Sequential, IInv
<1>. QED
  BY <1>3, <1>4, <1>5 DEF QuietInv

\* onerror after its event: it gives its attempt up and settles the one pending promise.
LEMMA SocketErrorReturnStep ==
  ASSUME ConnectionAssumption, IInv, SocketErrorReturn
  PROVE  QuietInv'
<1>. USE DEF ConnectionAssumption, SocketErrorReturn, Suspended, retry, config, settle,
             clearRegistration, detachSocketHandlers
<1>1. frames # <<>> /\ frames' = <<>> /\ Head(frames).a \in Attempts
  BY ReturnEmpties
<1>2. Settling' /\ Opening'
  BY <1>1 DEF IInv, TypeOK, Settling, Owned, WillSettle, Opening, Suspended, ConnectedIsLive,
              MaybeAttempt
<1>3. Disconnecting' /\ WantedAttempts' /\ NoReconnectAfterDisconnect'
  BY <1>1 DEF IInv, TypeOK, Disconnecting, WantedAttempts, NoReconnectAfterDisconnect,
              ConnectedIsLive, MaybeAttempt
<1>4. Sequential'
  BY <1>1 DEF Sequential, IInv
<1>. QED
  BY <1>2, <1>3, <1>4 DEF QuietInv

\* The timeout after its event: it closes the socket it finds and settles the one
\* pending promise.
LEMMA ConnectionTimeoutReturnStep ==
  ASSUME ConnectionAssumption, IInv, ConnectionTimeoutReturn
  PROVE  QuietInv'
<1>. USE DEF ConnectionAssumption, ConnectionTimeoutReturn, Suspended, retry, config, settle,
             clearRegistration, detachSocketHandlers, closeSocket
<1>1. frames # <<>> /\ frames' = <<>> /\ Head(frames).a \in Attempts
  BY ReturnEmpties
<1>2. Settling' /\ Opening'
  BY <1>1 DEF IInv, TypeOK, Settling, Owned, WillSettle, Opening, Suspended, ConnectedIsLive,
              MaybeAttempt
<1>3. Disconnecting' /\ WantedAttempts' /\ NoReconnectAfterDisconnect'
  BY <1>1 DEF IInv, TypeOK, Disconnecting, WantedAttempts, NoReconnectAfterDisconnect,
              ConnectedIsLive, MaybeAttempt
<1>4. Sequential'
  BY <1>1 DEF Sequential, IInv
<1>. QED
  BY <1>2, <1>3, <1>4 DEF QuietInv

\* onopen, up to its event: by Opening and Settling the attempt owns everything, which
\* is what makes the connection live.
LEMMA SocketOpenStep ==
  ASSUME ConnectionAssumption, IInv, NEW b \in Attempts, SocketOpen(b)
  PROVE  QuietInv'
<1>. USE DEF ConnectionAssumption, SocketOpen, resetReconnectAttempts, Suspend, Frame, config,
             retry
<1>1. CASE b = connectionAttempt
  <2>1. /\ frames = <<>>
        /\ frames' \in Seq(Frame) /\ frames' # <<>> /\ Tail(frames') = <<>>
        /\ Head(frames').fn = "open" /\ Head(frames').a = b
        /\ Head(frames').wasConnected = FALSE
    BY <1>1, SuspendPushes
  <2>2. Settling'
    BY <1>1, <2>1 DEF IInv, TypeOK, Settling, Owned, WillSettle, Opening, Suspended,
       ConnectedIsLive, MaybeAttempt
  <2>3. Opening'
    BY <1>1, <2>1 DEF IInv, TypeOK, Opening, Suspended, MaybeAttempt
  <2>4. Disconnecting'
    BY <1>1, <2>1 DEF IInv, TypeOK, Disconnecting, NoReconnectAfterDisconnect, MaybeAttempt
  <2>5. WantedAttempts' /\ NoReconnectAfterDisconnect'
    BY <1>1, <2>1 DEF IInv, TypeOK, WantedAttempts, NoReconnectAfterDisconnect, MaybeAttempt
  <2>6. Sequential'
    BY <1>1, <2>1 DEF Sequential, IInv
  <2>. QED
    BY <2>2, <2>3, <2>4, <2>5, <2>6 DEF QuietInv
<1>2. CASE b # connectionAttempt
  <2>1. Settling'
    BY <1>2 DEF IInv, TypeOK, Settling, Owned, WillSettle, Opening, Suspended, ConnectedIsLive,
                MaybeAttempt
  <2>2. Opening'
    BY <1>2 DEF IInv, TypeOK, Opening, Suspended, MaybeAttempt
  <2>3. Disconnecting'
    BY <1>2 DEF IInv, TypeOK, Disconnecting, NoReconnectAfterDisconnect, MaybeAttempt
  <2>4. WantedAttempts' /\ NoReconnectAfterDisconnect'
    BY <1>2 DEF IInv, TypeOK, WantedAttempts, NoReconnectAfterDisconnect, MaybeAttempt
  <2>5. Sequential'
    BY <1>2 DEF Sequential, IInv
  <2>. QED
    BY <2>1, <2>2, <2>3, <2>4, <2>5 DEF QuietInv
<1>. QED
  BY <1>1, <1>2

\* The timeout, up to its event, or without effect for an old attempt.
LEMMA ConnectionTimeoutStep ==
  ASSUME ConnectionAssumption, IInv, NEW b \in Attempts, ConnectionTimeout(b)
  PROVE  QuietInv'
<1>. USE DEF ConnectionAssumption, ConnectionTimeout, CanFireTimer, Suspend, Frame, owner,
             config, retry
<1>1. CASE b = connectionAttempt /\ ws # NoAttempt /\ ~connected
  <2>1. /\ frames = <<>>
        /\ frames' \in Seq(Frame) /\ frames' # <<>> /\ Tail(frames') = <<>>
        /\ Head(frames').fn = "timeout" /\ Head(frames').a = b
        /\ Head(frames').wasConnected = FALSE
    BY <1>1, SuspendPushes
  <2>2. Settling'
    BY <1>1, <2>1 DEF IInv, TypeOK, Settling, Owned, WillSettle, Opening, Suspended,
       ConnectedIsLive, MaybeAttempt
  <2>3. Opening'
    BY <1>1, <2>1 DEF IInv, TypeOK, Opening, Suspended, MaybeAttempt
  <2>4. Disconnecting'
    BY <1>1, <2>1 DEF IInv, TypeOK, Disconnecting, NoReconnectAfterDisconnect, MaybeAttempt
  <2>5. WantedAttempts' /\ NoReconnectAfterDisconnect'
    BY <1>1, <2>1 DEF IInv, TypeOK, WantedAttempts, NoReconnectAfterDisconnect, MaybeAttempt
  <2>6. Sequential'
    BY <1>1, <2>1 DEF Sequential, IInv
  <2>. QED
    BY <2>2, <2>3, <2>4, <2>5, <2>6 DEF QuietInv
<1>2. CASE ~(b = connectionAttempt /\ ws # NoAttempt /\ ~connected)
  <2>1. Settling'
    BY <1>2 DEF IInv, TypeOK, Settling, Owned, WillSettle, Opening, Suspended, ConnectedIsLive,
                MaybeAttempt
  <2>2. Opening'
    BY <1>2 DEF IInv, TypeOK, Opening, Suspended, MaybeAttempt
  <2>3. Disconnecting'
    BY <1>2 DEF IInv, TypeOK, Disconnecting, NoReconnectAfterDisconnect, MaybeAttempt
  <2>4. WantedAttempts' /\ NoReconnectAfterDisconnect'
    BY <1>2 DEF IInv, TypeOK, WantedAttempts, NoReconnectAfterDisconnect, MaybeAttempt
  <2>5. Sequential'
    BY <1>2 DEF Sequential, IInv
  <2>. QED
    BY <2>1, <2>2, <2>3, <2>4, <2>5 DEF QuietInv
<1>. QED
  BY <1>1, <1>2

\* onclose: finalizeClose() up to its event, or without effect for an old attempt.
LEMMA SocketCloseStep ==
  ASSUME ConnectionAssumption, IInv, NEW b \in Attempts, SocketClose(b)
  PROVE  QuietInv'
<1>. USE DEF ConnectionAssumption, SocketClose, FinalizeCloseApplies, FinalizeCloseBegin,
             Suspend, Frame, owner, config, retry
<1>1. CASE FinalizeCloseApplies(b, FALSE)
  <2>1. /\ frames = <<>>
        /\ frames' \in Seq(Frame) /\ frames' # <<>> /\ Tail(frames') = <<>>
        /\ Head(frames').fn = "close" /\ Head(frames').a = b
        /\ Head(frames').wasConnected = connected
    BY <1>1, SuspendPushes DEF IInv, TypeOK
  <2>2. Settling'
    BY <1>1, <2>1 DEF IInv, TypeOK, Settling, Owned, WillSettle, Opening, Suspended,
       ConnectedIsLive, MaybeAttempt
  <2>3. Opening'
    BY <1>1, <2>1 DEF IInv, TypeOK, Opening, Suspended, MaybeAttempt
  <2>4. Disconnecting'
    BY <1>1, <2>1 DEF IInv, TypeOK, Disconnecting, NoReconnectAfterDisconnect, MaybeAttempt
  <2>5. WantedAttempts' /\ NoReconnectAfterDisconnect'
    BY <1>1, <2>1 DEF IInv, TypeOK, WantedAttempts, NoReconnectAfterDisconnect, MaybeAttempt
  <2>6. Sequential'
    BY <1>1, <2>1 DEF Sequential, IInv
  <2>. QED
    BY <2>2, <2>3, <2>4, <2>5, <2>6 DEF QuietInv
<1>2. CASE ~FinalizeCloseApplies(b, FALSE)
  <2>1. Settling'
    BY <1>2 DEF IInv, TypeOK, Settling, Owned, WillSettle, Opening, Suspended, ConnectedIsLive,
                MaybeAttempt
  <2>2. Opening'
    BY <1>2 DEF IInv, TypeOK, Opening, Suspended, MaybeAttempt
  <2>3. Disconnecting'
    BY <1>2 DEF IInv, TypeOK, Disconnecting, NoReconnectAfterDisconnect, MaybeAttempt
  <2>4. WantedAttempts' /\ NoReconnectAfterDisconnect'
    BY <1>2 DEF IInv, TypeOK, WantedAttempts, NoReconnectAfterDisconnect, MaybeAttempt
  <2>5. Sequential'
    BY <1>2 DEF Sequential, IInv
  <2>. QED
    BY <2>1, <2>2, <2>3, <2>4, <2>5 DEF QuietInv
<1>. QED
  BY <1>1, <1>2

\* The shutdown observer runs finalizeClose() up to its event.
LEMMA ObserverNotifiedStep ==
  ASSUME ConnectionAssumption, IInv, NEW b \in Attempts, ObserverNotified(b)
  PROVE  QuietInv'
<1>. USE DEF ConnectionAssumption, ObserverNotified, FinalizeCloseApplies, FinalizeCloseBegin,
             Suspend, Frame, owner, config, retry
<1>1. /\ frames = <<>>
      /\ frames' \in Seq(Frame) /\ frames' # <<>> /\ Tail(frames') = <<>>
      /\ Head(frames').fn = "close" /\ Head(frames').a = b
      /\ Head(frames').wasConnected = connected
  BY SuspendPushes DEF IInv, TypeOK
<1>2. Settling'
  BY <1>1 DEF IInv, TypeOK, Settling, Owned, WillSettle, Opening, Suspended, ConnectedIsLive,
              MaybeAttempt
<1>3. Opening'
  BY <1>1 DEF IInv, TypeOK, Opening, Suspended, MaybeAttempt
<1>4. Disconnecting'
  BY <1>1 DEF IInv, TypeOK, Disconnecting, NoReconnectAfterDisconnect, MaybeAttempt
<1>5. WantedAttempts' /\ NoReconnectAfterDisconnect'
  BY <1>1 DEF IInv, TypeOK, WantedAttempts, NoReconnectAfterDisconnect, MaybeAttempt
<1>6. Sequential'
  BY <1>1 DEF Sequential, IInv
<1>. QED
  BY <1>2, <1>3, <1>4, <1>5, <1>6 DEF QuietInv

\* disconnect(): through the finalizer when a socket is held, directly otherwise.
LEMMA DisconnectStep ==
  ASSUME ConnectionAssumption, IInv, Disconnect, ~Reentrant
  PROVE  QuietInv'
<1>. USE DEF ConnectionAssumption, Disconnect, CanCall, FinalizeCloseApplies,
             FinalizeCloseBegin, Suspend, Frame, config, detachSocketHandlers
<1>1. CASE ws # NoAttempt /\ relayDisconnectFinalizer # NoAttempt
             /\ FinalizeCloseApplies(relayDisconnectFinalizer, TRUE)
  <2>1. /\ frames = <<>>
        /\ frames' \in Seq(Frame) /\ frames' # <<>> /\ Tail(frames') = <<>>
        /\ Head(frames').fn = "close" /\ Head(frames').a = relayDisconnectFinalizer
        /\ Head(frames').wasConnected = FALSE
    BY <1>1, SuspendPushes DEF IInv, TypeOK, MaybeAttempt
  <2>2. Settling'
    BY <1>1, <2>1 DEF IInv, TypeOK, Settling, Owned, WillSettle, Opening, Suspended,
       ConnectedIsLive, MaybeAttempt
  <2>3. Opening'
    BY <1>1, <2>1 DEF IInv, TypeOK, Opening, Suspended, MaybeAttempt
  <2>4. Disconnecting'
    BY <1>1, <2>1 DEF IInv, TypeOK, Disconnecting, NoReconnectAfterDisconnect, MaybeAttempt
  <2>5. WantedAttempts' /\ NoReconnectAfterDisconnect'
    BY <1>1, <2>1 DEF IInv, TypeOK, WantedAttempts, NoReconnectAfterDisconnect, MaybeAttempt
  <2>6. Sequential'
    BY <1>1, <2>1 DEF Sequential, IInv
  <2>. QED
    BY <2>2, <2>3, <2>4, <2>5, <2>6 DEF QuietInv
<1>2. CASE ~(ws # NoAttempt /\ relayDisconnectFinalizer # NoAttempt
             /\ FinalizeCloseApplies(relayDisconnectFinalizer, TRUE))
  <2>1. Settling'
    BY <1>2 DEF IInv, TypeOK, Settling, Owned, WillSettle, Opening, Suspended, ConnectedIsLive,
                MaybeAttempt
  <2>2. Opening'
    BY <1>2 DEF IInv, TypeOK, Opening, Suspended, MaybeAttempt
  <2>3. Disconnecting'
    BY <1>2 DEF IInv, TypeOK, Disconnecting, NoReconnectAfterDisconnect, MaybeAttempt
  <2>4. WantedAttempts' /\ NoReconnectAfterDisconnect'
    BY <1>2 DEF IInv, TypeOK, WantedAttempts, NoReconnectAfterDisconnect, MaybeAttempt
  <2>5. Sequential'
    BY <1>2 DEF Sequential, IInv
  <2>. QED
    BY <2>1, <2>2, <2>3, <2>4, <2>5 DEF QuietInv
<1>. QED
  BY <1>1, <1>2

\* connect() starts an attempt that owns everything, or finds one under way.
LEMMA ConnectStep ==
  ASSUME ConnectionAssumption, IInv, Connect, ~Reentrant
  PROVE  QuietInv'
<1>. USE DEF ConnectionAssumption, Connect, CanCall, doConnect, ConnectReturnsEarly,
             StartConnect, Fresh, closeSocket, retry, config, owner, perAttempt
<1>1. Settling'
  BY DEF IInv, TypeOK, Settling, Owned, WillSettle, Opening, Suspended, ConnectedIsLive,
         MaybeAttempt
<1>2. Opening'
  BY DEF IInv, TypeOK, Opening, Suspended, MaybeAttempt
<1>3. Disconnecting'
  BY DEF IInv, TypeOK, Disconnecting, NoReconnectAfterDisconnect, MaybeAttempt
<1>4. WantedAttempts' /\ NoReconnectAfterDisconnect'
  BY DEF IInv, TypeOK, WantedAttempts, NoReconnectAfterDisconnect, MaybeAttempt
<1>5. Sequential'
  BY DEF Sequential, IInv
<1>. QED
  BY <1>1, <1>2, <1>3, <1>4, <1>5 DEF QuietInv

\* The reconnect timer counts a retry and connects.
LEMMA ReconnectTimerStep ==
  ASSUME ConnectionAssumption, IInv, ReconnectTimer
  PROVE  QuietInv'
<1>. USE DEF ConnectionAssumption, ReconnectTimer, CanFireTimer, doConnect, ConnectReturnsEarly,
             StartConnect, Fresh, closeSocket, retry, config, owner, perAttempt
<1>1. CASE ConnectReturnsEarly
  <2>1. Settling'
    BY <1>1 DEF IInv, TypeOK, Settling, Owned, WillSettle, Opening, Suspended, ConnectedIsLive,
                MaybeAttempt
  <2>2. Opening'
    BY <1>1 DEF IInv, TypeOK, Opening, Suspended, MaybeAttempt
  <2>3. Disconnecting'
    BY <1>1 DEF IInv, TypeOK, Disconnecting, NoReconnectAfterDisconnect, MaybeAttempt
  <2>4. WantedAttempts' /\ NoReconnectAfterDisconnect'
    BY <1>1 DEF IInv, TypeOK, WantedAttempts, NoReconnectAfterDisconnect, MaybeAttempt
  <2>5. Sequential'
    BY <1>1 DEF Sequential, IInv
  <2>. QED
    BY <2>1, <2>2, <2>3, <2>4, <2>5 DEF QuietInv
<1>2. CASE ~ConnectReturnsEarly
  <2>1. Settling'
    BY <1>2 DEF IInv, TypeOK, Settling, Owned, WillSettle, Opening, Suspended, ConnectedIsLive,
                MaybeAttempt
  <2>2. Opening'
    BY <1>2 DEF IInv, TypeOK, Opening, Suspended, MaybeAttempt
  <2>3. Disconnecting'
    BY <1>2 DEF IInv, TypeOK, Disconnecting, NoReconnectAfterDisconnect, MaybeAttempt
  <2>4. WantedAttempts' /\ NoReconnectAfterDisconnect'
    BY <1>2 DEF IInv, TypeOK, WantedAttempts, NoReconnectAfterDisconnect, MaybeAttempt
  <2>5. Sequential'
    BY <1>2 DEF Sequential, IInv
  <2>. QED
    BY <2>1, <2>2, <2>3, <2>4, <2>5 DEF QuietInv
<1>. QED
  BY <1>1, <1>2

\* A stuttering step.
LEMMA StutterStep ==
  ASSUME IInv, UNCHANGED vars
  PROVE  QuietInv'
<1>. USE DEF vars, owner, retry, config, perAttempt
<1>1. Settling'
  BY DEF IInv, TypeOK, Settling, Owned, WillSettle, Opening, Suspended, ConnectedIsLive,
         MaybeAttempt
<1>2. Opening'
  BY DEF IInv, TypeOK, Opening, Suspended, MaybeAttempt
<1>3. Disconnecting'
  BY DEF IInv, TypeOK, Disconnecting, NoReconnectAfterDisconnect, MaybeAttempt
<1>4. WantedAttempts' /\ NoReconnectAfterDisconnect'
  BY DEF IInv, TypeOK, WantedAttempts, NoReconnectAfterDisconnect, MaybeAttempt
<1>5. Sequential'
  BY DEF Sequential, IInv
<1>. QED
  BY <1>1, <1>2, <1>3, <1>4, <1>5 DEF QuietInv

\* Every step of the system keeps the inductive invariant.
LEMMA NextQuiet ==
  ASSUME ConnectionAssumption, ~Reentrant, IInv, [Next]_vars
  PROVE  QuietInv'
<1>1. CASE UserCall
  BY <1>1, ConnectStep, DisconnectStep, SetAutoReconnectStep, SetMaxReconnectAttemptsStep
  DEF UserCall
<1>2. CASE CallbackReturn
  BY <1>2, SocketOpenReturnStep, FinalizeCloseReturnStep, SocketErrorReturnStep,
     ConnectionTimeoutReturnStep
  DEF CallbackReturn
<1>3. CASE PromiseCleanup
  BY <1>3, PromiseCleanupStep
<1>4. CASE ReconnectTimer
  BY <1>4, ReconnectTimerStep
<1>5. ASSUME NEW a \in Attempts,
             \/ SocketOpen(a) \/ SocketClose(a) \/ SocketError(a)
             \/ ObserverNotified(a) \/ ConnectionTimeout(a) \/ ConnectRejected(a)
      PROVE  QuietInv'
  BY <1>5, SocketOpenStep, SocketCloseStep, SocketErrorStep, ObserverNotifiedStep,
     ConnectionTimeoutStep, ConnectRejectedStep
<1>6. CASE UNCHANGED vars
  BY <1>6, StutterStep
<1>. QED
  BY <1>1, <1>2, <1>3, <1>4, <1>5, <1>6 DEF Next

\* The inductive invariant holds in every reachable state.
THEOREM Invariant == ~Reentrant => (Spec => []IInv)
<1>. SUFFICES ASSUME ~Reentrant PROVE Spec => []IInv
  OBVIOUS
<1>1. Init => QuietInv
  BY InitQuiet
<1>2. LiveInv /\ QuietInv => IInv
  BY DEF LiveInv, QuietInv, IInv
<1>3. LiveInv /\ QuietInv /\ [Next]_vars => QuietInv'
  BY <1>2, NextQuiet, ConnectionAssumption
<1>. QED
  BY <1>1, <1>2, <1>3, LiveInvariant, PTL DEF Spec

\* connect() never hands out a promise that nothing will settle: the timeout
\* and the finalizer of its attempt stay in place until a handler settles it.
THEOREM PendingOwned == ~Reentrant => (Spec => []PendingIsOwned)
<1>1. IInv => PendingIsOwned
  BY DEF IInv, Settling, Owned, WillSettle, PendingIsOwned
<1>. QED
  BY <1>1, Invariant, PTL

\* After disconnect() no timer and no catch() brings the connection back.
THEOREM DisconnectIsFinal == ~Reentrant => (Spec => []NoReconnectAfterDisconnect)
<1>1. IInv => NoReconnectAfterDisconnect
  BY DEF IInv
<1>. QED
  BY <1>1, Invariant, PTL
=============================================================================
