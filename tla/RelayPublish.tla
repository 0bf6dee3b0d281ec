----------------------------- MODULE RelayPublish -----------------------------
(***************************************************************************)
(* publish() and authenticate() of one Relay (src/src/nip01/relay.ts):     *)
(* sendClientMessage, which connects first if need be, and the handlers    *)
(* and timer with which it waits for the relay's OK.                       *)
(*                                                                         *)
(* The connection is that of RelayConnection, reduced to what publish()    *)
(* sees of it.  triggerEvent walks the live array of handlers, from which  *)
(* a handler that has settled its publish removes itself: the next handler *)
(* moves into its place and is not visited (Visited).                      *)
(***************************************************************************)
EXTENDS Arrays

CONSTANTS
  Publishes,  \* calls of publish() or authenticate()
  EventIds,     \* ids of the published events
  EventOf,    \* the event each call publishes
  NoResult

ASSUME PublishAssumption ==
  /\ EventOf \in [Publishes -> EventIds]
  /\ NoResult # "ok"

VARIABLES
  link,      \* "closing": connected, but the socket is no longer OPEN
  phase,     \* per call: how far it is
  result,    \* per call: what its promise resolved to
  handlers,  \* eventHandlers: the calls that wait, in order of registration
  timers,    \* calls whose ack timeout is running
  accepted   \* history: calls whose event the relay accepted since they sent it

publishVars == <<link, phase, result, handlers, timers, accepted>>

RelayEvents == {"OK", "Error", "Disconnect"}
Phases == {"idle", "connecting", "connected", "refused", "waiting", "done"}
Results == {"ok", "rejected", "sent", "connection_failed", "not_connected", "disconnected",
            "error", "timeout"}

Waiting == {p \in Publishes : phase[p] = "waiting"}

PublishInit ==
  /\ link = "down"
  /\ phase = [p \in Publishes |-> "idle"]
  /\ result = [p \in Publishes |-> NoResult]
  /\ handlers = [e \in RelayEvents |-> <<>>]
  /\ timers = {}
  /\ accepted = {}

-----------------------------------------------------------------------------
\* Handlers.

\* triggerEvent walks h: a handler of a call in matching settles its call and
\* so hides the handler that follows it.
Visited(h, matching) ==
  LET settled[i \in 0 .. Len(h)] == i > 0 /\ h[i] \in matching /\ ~settled[i - 1]
  IN {h[i] : i \in {j \in DOMAIN h : h[j] \in matching /\ ~settled[j - 1]}}

\* Mutant: the array of new handlers is pushed as one element.
onNested(ps) == handlers' = [e \in RelayEvents |-> Append(handlers[e], ps)]

onEach(ps) == handlers' = [e \in RelayEvents |-> handlers[e] \o ps]

\* Mutant: the handlers are left in place.
offNothing(h, ps) == h

off(h, ps) == filter(h, Publishes \ ps)

\* cleanup() and resolve() of the calls ps; a promise keeps its first result.
Settle(ps, outcome) ==
  /\ handlers' = [e \in RelayEvents |-> off(handlers[e], ps)]
  /\ timers' = timers \ ps
  /\ phase' = [p \in Publishes |-> IF p \in ps THEN "done" ELSE phase[p]]
  /\ result' = [p \in Publishes |-> IF p \in ps /\ result[p] = NoResult THEN outcome
                                    ELSE result[p]]

\* The calls that await connect() learn how it ended.
ConnectResult(ph, ok) ==
  [p \in Publishes |-> IF ph[p] # "connecting" THEN ph[p]
                       ELSE IF ok THEN "connected" ELSE "refused"]

\* The Disconnect event, with connect() refused to those that await it.
TriggerDisconnect ==
  LET ps == Visited(handlers["Disconnect"], Publishes) IN
  /\ handlers' = [e \in RelayEvents |-> off(handlers[e], ps)]
  /\ timers' = timers \ ps
  /\ result' = [p \in Publishes |-> IF p \in ps /\ result[p] = NoResult THEN "disconnected"
                                    ELSE result[p]]
  /\ phase' = ConnectResult([p \in Publishes |-> IF p \in ps THEN "done" ELSE phase[p]], FALSE)

-----------------------------------------------------------------------------
\* sendClientMessage.

\* Mutant: connect() said TRUE, and that is enough.
CanSendUnchecked == TRUE

CanSend == link = "open"

\* The part after connect(): the connection is checked again before sending.
Send(p, waitForAck) ==
  /\ UNCHANGED <<link, accepted>>
  /\ IF ~CanSend
     THEN Settle({p}, "not_connected")
     ELSE \/ Settle({p}, "error")    \* ws.send() throws
          \/ /\ ~waitForAck
             /\ Settle({p}, "sent")
          \/ /\ waitForAck
             /\ onEach(<<p>>)
             /\ timers' = timers \cup {p}
             /\ phase' = [phase EXCEPT ![p] = "waiting"]
             /\ UNCHANGED result

Publish(p, waitForAck) ==
  /\ phase[p] = "idle"
  /\ link \in {"open", "closing"}
  /\ Send(p, waitForAck)

PublishOffline(p) ==
  /\ phase[p] = "idle"
  /\ link \in {"down", "connecting"}
  /\ link' = "connecting"
  /\ phase' = [phase EXCEPT ![p] = "connecting"]
  /\ UNCHANGED <<result, handlers, timers, accepted>>

\* The continuation of await connect().
ConnectAwaited(p, waitForAck) ==
  \/ /\ phase[p] = "connected"
     /\ Send(p, waitForAck)
  \/ /\ phase[p] = "refused"
     /\ Settle({p}, "connection_failed")
     /\ UNCHANGED <<link, accepted>>

\* Mutant: any OK will do.
AboutAny(e) == Publishes

\* The calls whose handler takes a message about e for its own.
About(e) == {p \in Publishes : EventOf[p] = e}

ReceiveOk(e, success) ==
  /\ link \in {"open", "closing"}
  /\ Settle(Visited(handlers["OK"], About(e)), IF success THEN "ok" ELSE "rejected")
  /\ accepted' = IF success THEN accepted \cup {p \in Waiting : EventOf[p] = e} ELSE accepted
  /\ UNCHANGED link

\* An Error event whose error names the event.
ErrorAbout(e) ==
  /\ Settle(Visited(handlers["Error"], About(e)), "error")
  /\ UNCHANGED <<link, accepted>>

\* Mutant: the timeout cleans up but does not resolve.
AckTimeoutSilent(p) ==
  /\ p \in timers
  /\ timers' = timers \ {p}
  /\ handlers' = [e \in RelayEvents |-> off(handlers[e], {p})]
  /\ UNCHANGED <<link, phase, result, accepted>>

AckTimeout(p) ==
  /\ p \in timers
  /\ Settle({p}, "timeout")
  /\ UNCHANGED <<link, accepted>>

-----------------------------------------------------------------------------
\* The connection.

\* connect() or a reconnection.
StartConnecting ==
  /\ link = "down"
  /\ link' = "connecting"
  /\ UNCHANGED <<phase, result, handlers, timers, accepted>>

Connected ==
  /\ link = "connecting"
  /\ link' = "open"
  /\ phase' = ConnectResult(phase, TRUE)
  /\ UNCHANGED <<result, handlers, timers, accepted>>

\* Timeout or error before the socket opens: no Disconnect event.
ConnectFailed ==
  /\ link = "connecting"
  /\ link' = "down"
  /\ phase' = ConnectResult(phase, FALSE)
  /\ UNCHANGED <<result, handlers, timers, accepted>>

\* The relay starts to close the socket.
Closing ==
  /\ link = "open"
  /\ link' = "closing"
  /\ UNCHANGED <<phase, result, handlers, timers, accepted>>

\* onclose, the shutdown observer, or disconnect().
Disconnected ==
  /\ link # "down"
  /\ link' = "down"
  /\ TriggerDisconnect
  /\ UNCHANGED accepted

-----------------------------------------------------------------------------
PublishNext ==
  \/ StartConnecting
  \/ Connected
  \/ ConnectFailed
  \/ Closing
  \/ Disconnected
  \/ \E e \in EventIds : ErrorAbout(e) \/ \E success \in BOOLEAN : ReceiveOk(e, success)
  \/ \E p \in Publishes :
       \/ PublishOffline(p)
       \/ AckTimeout(p)
       \/ \E waitForAck \in BOOLEAN : Publish(p, waitForAck) \/ ConnectAwaited(p, waitForAck)

\* Due timers fire, the continuation of an await runs, and connect() settles
\* (RelayConnection's ConnectSettles).  Nothing is assumed of the relay.
PublishFairness ==
  /\ \A p \in Publishes :
       /\ WF_publishVars(AckTimeout(p))
       /\ WF_publishVars(\E waitForAck \in BOOLEAN : ConnectAwaited(p, waitForAck))
  /\ WF_publishVars(Connected \/ ConnectFailed)

PublishSpec == PublishInit /\ [][PublishNext]_publishVars
PublishFairSpec == PublishSpec /\ PublishFairness

-----------------------------------------------------------------------------
\* Properties.

\* Every variable has its type.
PublishTypeOK ==
  /\ link \in {"down", "connecting", "open", "closing"}
  /\ phase \in [Publishes -> Phases]
  /\ result \in [Publishes -> Results \cup {NoResult}]
  /\ handlers \in [RelayEvents -> Seq(Publishes)]
  /\ timers \subseteq Publishes
  /\ accepted \subseteq Publishes

\* No handler or timer outlives its call, and no waiting call has lost one:
\* each of the three arrays holds exactly the waiting calls, each once.
HandlersMatch ==
  /\ timers = Waiting
  /\ \A e \in RelayEvents :
       /\ {handlers[e][i] : i \in DOMAIN handlers[e]} = Waiting
       /\ \A i, j \in DOMAIN handlers[e] : handlers[e][i] = handlers[e][j] => i = j

\* A call reports success only for an event that the relay has accepted since
\* this call sent it.
SuccessIsAcknowledged == \A p \in Publishes : result[p] = "ok" => p \in accepted

Sends(p) ==
  \/ phase[p] # "waiting" /\ phase'[p] = "waiting"
  \/ result[p] # "sent" /\ result'[p] = "sent"

\* An event goes out on an open socket only, whatever happened to the connection
\* while the call awaited connect().
SentWhenOpen == [][\A p \in Publishes : Sends(p) => link = "open"]_publishVars

\* Every call settles, if only by its timeout.
PublishSettles == \A p \in Publishes : phase[p] # "idle" ~> phase[p] = "done"
===============================================================================
