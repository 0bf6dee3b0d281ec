---------------------------- MODULE EphemeralRelay ----------------------------
(***************************************************************************)
(* NostrRelay and ClientSession (src/src/utils/ephemeral-relay.ts) over    *)
(* the in-memory transport (src/src/utils/inMemoryWebSocket.ts).           *)
(*                                                                         *)
(* A socket is a pair of ends.  What the client sends is handled at once;  *)
(* everything else travels through the first-in first-out queue of         *)
(* microtasks.  The await of validateEvent is the only one in the handlers *)
(* of messages.                                                            *)
(*                                                                         *)
(* A filter is the set of events it matches and an optional limit.  Left   *)
(* out: the TCP transport, the branch for kind 24133, which stores and     *)
(* forwards the same way but acknowledges last, the broadcast of messages  *)
(* with an unknown verb, and notices.                                      *)
(***************************************************************************)
EXTENDS Arrays, FiniteSets, SequencesExt

CONSTANTS
  Sockets,      \* pairs of ends, each connected once
  SubIds,       \* subscription ids
  Events,       \* records [key, at, id]: what the event replaces, created_at, id
  NoKey,        \* the key of an event that replaces nothing
  Filters,      \* records [want, limit]: the events matched, at most how many stored ones
  Invalid,      \* events whose signature does not verify
  MaxTasks,     \* bound on REQ and EVENT messages
  MaxStarts     \* bound on starts

ASSUME RelayAssumption ==
  /\ IsFiniteSet(Sockets)
  /\ \A e \in Events : e.at \in Nat /\ e.id \in Nat
  /\ \A e, d \in Events : e.id = d.id => e = d
  /\ \A f \in Filters : f.want \subseteq Events /\ f.limit \in Nat
  /\ Invalid \subseteq Events

VARIABLES
  accepting,    \* _acceptingConnections; the in-memory server is registered
  closePromise, \* how far close() has come: "none", "closing", "awaiting"
  client,       \* per socket: readyState of the client's end
  server,       \* per socket: readyState of the server's end
  clients,      \* server ends that the in-memory server knows
  microtasks,   \* the queue
  sessions,     \* _sessions
  conn,         \* number of connections
  subs,         \* _subs: records [socket, id, filter]
  cache,        \* _cache
  validating,   \* messages whose validation is awaited: pairs of socket and event
  told,         \* history, per socket: pairs of id and event sent to an open connection
  lost,         \* history: sockets to which a message came too early or too late
  arrived,      \* history: valid events since the cache was last emptied
  tasks, starts \* history: numbers of messages and of starts

transport == <<client, server, clients, microtasks>>
lifeCycle == <<accepting, closePromise>>
session == <<sessions, conn, subs>>
stored == <<cache, arrived>>
out == <<told, lost>>
bounds == <<tasks, starts>>
ephemeralVars == <<lifeCycle, transport, session, stored, validating, out, bounds>>

EphemeralInit ==
  /\ accepting = FALSE /\ closePromise = "none"
  /\ client = [s \in Sockets |-> "none"]
  /\ server = [s \in Sockets |-> "none"]
  /\ clients = {} /\ microtasks = <<>>
  /\ sessions = {} /\ conn = 0 /\ subs = {}
  /\ cache = <<>> /\ arrived = {}
  /\ validating = {}
  /\ told = [s \in Sockets |-> {}] /\ lost = {}
  /\ tasks = 0 /\ starts = 0

-----------------------------------------------------------------------------
\* The in-memory transport.

Task(do, s) == [do |-> do, socket |-> s]

\* The tasks of the sockets in S, in some order.
EachOf(do, S) == SetToSeq({Task(do, s) : s \in S})

\* ServerSideSocket.close(): every call until the end is closed queues a
\* closing of its own.
Closures(S) == EachOf("closed", {s \in S : server[s] # "CLOSED"})

\* Mutant: a closing overtakes the messages that are on their way.
QueuedFirst(closures) == closures \o microtasks

Queued(closures) == microtasks \o closures

ClosingEnds(S) == [s \in Sockets |-> IF s \in S /\ server[s] # "CLOSED" THEN "CLOSING" ELSE server[s]]

\* createInMemoryWebSocket(): the client's end opens before the server hears of it.
Connect(s) ==
  /\ accepting /\ client[s] = "none"
  /\ client' = [client EXCEPT ![s] = "CONNECTING"]
  /\ server' = [server EXCEPT ![s] = "OPEN"]
  /\ clients' = clients \cup {s}
  /\ microtasks' = microtasks \o <<Task("open", s), Task("connection", s)>>
  /\ UNCHANGED <<lifeCycle, session, stored, validating, out, bounds>>

ClientClose(s) ==
  /\ client[s] \in {"CONNECTING", "OPEN"}
  /\ client' = [client EXCEPT ![s] = "CLOSING"]
  /\ server' = ClosingEnds({s})
  /\ microtasks' = Queued(Closures({s}))
  /\ UNCHANGED <<lifeCycle, clients, session, stored, validating, out, bounds>>

ClientOpen(s) ==
  /\ client' = [client EXCEPT ![s] = IF @ = "CONNECTING" THEN "OPEN" ELSE @]
  /\ UNCHANGED <<lifeCycle, server, clients, session, stored, out>>

\* A client that is closing does not listen any more.
ReceiveFromServer(s) ==
  /\ lost' = IF client[s] \in {"OPEN", "CLOSING"} THEN lost ELSE lost \cup {s}
  /\ UNCHANGED <<lifeCycle, client, server, clients, session, stored, told>>

-----------------------------------------------------------------------------
\* Sessions.

\* handleConnection.  A server that was closed has no listeners left.
HandleConnection(s) ==
  /\ IF s \in clients /\ accepting
     THEN /\ sessions' = sessions \cup {s}
          /\ conn' = conn + 1
          /\ UNCHANGED server
          /\ microtasks' = Tail(microtasks)
     ELSE /\ UNCHANGED <<sessions, conn>>
          /\ server' = IF s \in clients THEN ClosingEnds({s}) ELSE server
          /\ microtasks' = Tail(microtasks) \o (IF s \in clients THEN Closures({s}) ELSE <<>>)
  /\ UNCHANGED <<lifeCycle, client, clients, subs, stored, out>>

\* Mutant: the subscriptions of a closed connection stay.
CleanupKeepsSubs(s) ==
  /\ sessions' = sessions \ {s}
  /\ conn' = IF s \in sessions /\ conn > 0 THEN conn - 1 ELSE conn
  /\ UNCHANGED subs

\* Mutant: the session is not forgotten.
CleanupKeepsSession(s) ==
  /\ conn' = IF s \in sessions /\ conn > 0 THEN conn - 1 ELSE conn
  /\ subs' = {u \in subs : u.socket # s}
  /\ UNCHANGED sessions

\* _cleanup(), once per session.
Cleanup(s) ==
  /\ sessions' = sessions \ {s}
  /\ conn' = IF s \in sessions /\ conn > 0 THEN conn - 1 ELSE conn
  /\ subs' = {u \in subs : u.socket # s}

\* The queued part of ServerSideSocket.close().
SocketClosed(s) ==
  /\ server' = [server EXCEPT ![s] = "CLOSED"]
  /\ client' = [client EXCEPT ![s] = "CLOSED"]
  /\ clients' = clients \ {s}
  /\ Cleanup(s)
  /\ told' = [told EXCEPT ![s] = {}]
  /\ UNCHANGED <<lifeCycle, stored, lost>>

RunMicrotask ==
  /\ microtasks # <<>>
  /\ LET s == Head(microtasks).socket IN
     \/ /\ Head(microtasks).do = "open"
        /\ ClientOpen(s)
        /\ microtasks' = Tail(microtasks)
     \/ /\ Head(microtasks).do = "message"
        /\ ReceiveFromServer(s)
        /\ microtasks' = Tail(microtasks)
     \/ /\ Head(microtasks).do = "closed"
        /\ SocketClosed(s)
        /\ microtasks' = Tail(microtasks)
     \/ /\ Head(microtasks).do = "connection"
        /\ HandleConnection(s)
     \/ /\ Head(microtasks).do = "await"
        /\ closePromise' = "awaiting"
        /\ microtasks' = Tail(microtasks)
        /\ UNCHANGED <<accepting, client, server, clients, session, stored, out>>
  /\ UNCHANGED <<validating, bounds>>

-----------------------------------------------------------------------------
\* Messages.

\* ClientSession.send() of messages to each socket in S, among them the events
\* that go to its subscriptions: dropped unless the end is open.  What one handler
\* sends to one end arrives in one piece and counts as one message.
SendEach(events, S) ==
  LET open == {s \in S : server[s] = "OPEN"}
  IN /\ told' = [s \in Sockets |-> IF s \in open THEN told[s] \cup events[s] ELSE told[s]]
     /\ microtasks' = microtasks \o EachOf("message", open)
     /\ UNCHANGED lost

\* May the session of s hear a message of its client?
Hears(s) == client[s] = "OPEN" /\ server[s] = "OPEN" /\ s \in sessions /\ tasks < MaxTasks

\* The first limit of the stored events that match.
Stored(f) ==
  LET all == filter(cache, f.want)
  IN SubSeq(all, 1, IF f.limit < Len(all) THEN f.limit ELSE Len(all))

\* _onreq.
OnReq(s, id, f) ==
  /\ Hears(s)
  /\ subs' = {u \in subs : u.socket # s \/ u.id # id} \cup {[socket |-> s, id |-> id, filter |-> f]}
  /\ SendEach([t \in {s} |-> {id} \X Range(Stored(f))], {s})
  /\ tasks' = tasks + 1
  /\ UNCHANGED <<lifeCycle, client, server, clients, sessions, conn, stored, validating, starts>>

\* _onclose.
OnClose(s, id) ==
  /\ client[s] = "OPEN" /\ server[s] = "OPEN"
  /\ \E u \in subs : u.socket = s /\ u.id = id
  /\ subs' = {u \in subs : u.socket # s \/ u.id # id}
  /\ UNCHANGED <<lifeCycle, transport, sessions, conn, stored, validating, out, bounds>>

\* _onevent, up to the await.
OnEvent(s, e) ==
  /\ Hears(s)
  /\ <<s, e>> \notin validating
  /\ validating' = validating \cup {<<s, e>>}
  /\ tasks' = tasks + 1
  /\ UNCHANGED <<lifeCycle, transport, session, stored, out, starts>>

\* Mutant: the first of two equally new events stays.
NewerOnly(d, e) == d.at >= e.at /\ d # e

\* Is d the one to keep of two events with the same key?
Newer(d, e) == d.at > e.at \/ (d.at = e.at /\ d.id > e.id)

Outdated(e) == e.key # NoKey /\ \E i \in DOMAIN cache : cache[i].key = e.key /\ Newer(cache[i], e)

\* store(): the cache is kept sorted, the newest first.
Store(e) ==
  IF Outdated(e) THEN cache
  ELSE LET rest == filter(cache, {d \in Events : e.key = NoKey \/ d.key # e.key})
           above == Cardinality({i \in DOMAIN rest : ~Newer(e, rest[i])})
       IN InsertAt(rest, above + 1, e)

\* Mutant: a client does not hear what it published itself.
LiveToOthers(s, u, e) == e \in u.filter.want /\ u.socket # s

\* Is the event e of the client s passed on to the subscription u?
Live(s, u, e) == e \in u.filter.want

\* _onevent, after the await.
Validated(s, e) ==
  /\ <<s, e>> \in validating
  /\ validating' = validating \ {<<s, e>>}
  /\ LET wanted(t) == {u.id : u \in {v \in subs : v.socket = t /\ Live(s, v, e)}}
         hearers == {s} \cup {t \in Sockets : wanted(t) # {}}
     IN IF e \in Invalid
        THEN /\ SendEach([t \in {s} |-> {}], {s})
             /\ UNCHANGED stored
        ELSE /\ SendEach([t \in hearers |-> wanted(t) \X {e}], hearers)
             /\ cache' = Store(e)
             /\ arrived' = arrived \cup {e}
  /\ UNCHANGED <<lifeCycle, client, server, clients, session, bounds>>

-----------------------------------------------------------------------------
\* Life cycle.

Start ==
  /\ ~accepting /\ closePromise = "none" /\ starts < MaxStarts
  /\ accepting' = TRUE
  /\ starts' = starts + 1
  /\ UNCHANGED <<closePromise, transport, session, stored, validating, out, tasks>>

\* The purge interval.
Purge ==
  /\ accepting /\ cache # <<>>
  /\ cache' = <<>> /\ arrived' = {}
  /\ UNCHANGED <<lifeCycle, transport, session, validating, out, bounds>>

\* Mutant: connections that have no session yet are forgotten.
ToCloseSessions == sessions

\* The connections that close() ends.
ToClose == clients

\* close(), up to the await.  Each session closes its socket, then the
\* in-memory server closes all of its own, again.
Close ==
  /\ closePromise = "none" /\ (accepting \/ cache # <<>>)
  /\ closePromise' = "closing"
  /\ accepting' = FALSE
  /\ subs' = {}
  /\ cache' = <<>> /\ arrived' = {}
  /\ server' = ClosingEnds(ToClose)
  /\ microtasks' = Queued(Closures({s \in sessions : server[s] = "OPEN"}) \o Closures(ToClose)
                          \o <<[do |-> "await"]>>)
  /\ UNCHANGED <<client, clients, sessions, conn, validating, out, bounds>>

\* The sessions have drained.
CloseFinished ==
  /\ closePromise = "awaiting" /\ sessions = {}
  /\ closePromise' = "none"
  /\ conn' = 0 /\ clients' = {}
  /\ UNCHANGED <<accepting, client, server, microtasks, sessions, subs, stored, validating, out,
                 bounds>>

-----------------------------------------------------------------------------
EphemeralNext ==
  \/ Start \/ Purge \/ Close \/ CloseFinished
  \/ RunMicrotask
  \/ \E s \in Sockets : Connect(s) \/ ClientClose(s)
  \/ \E s \in Sockets, id \in SubIds : OnClose(s, id) \/ \E f \in Filters : OnReq(s, id, f)
  \/ \E s \in Sockets, e \in Events : OnEvent(s, e) \/ Validated(s, e)

EphemeralSpec == EphemeralInit /\ [][EphemeralNext]_ephemeralVars

\* The event loop runs microtasks, and validation and close() are awaited in them.
FairEphemeralSpec ==
  EphemeralSpec /\ WF_ephemeralVars(RunMicrotask) /\ WF_ephemeralVars(CloseFinished)
       /\ \A s \in Sockets, e \in Events : WF_ephemeralVars(Validated(s, e))

-----------------------------------------------------------------------------
\* Properties.

\* Every variable has its type; connections are counted, and subscriptions belong to
\* sessions that have not been cleaned up.
EphemeralTypeOK ==
  /\ accepting \in BOOLEAN /\ closePromise \in {"none", "closing", "awaiting"}
  /\ sessions \subseteq Sockets /\ clients \subseteq Sockets
  /\ client \in [Sockets -> {"none", "CONNECTING", "OPEN", "CLOSING", "CLOSED"}]
  /\ server \in [Sockets -> {"none", "OPEN", "CLOSING", "CLOSED"}]
  /\ microtasks \in Seq([do : {"open", "connection", "message", "closed"}, socket : Sockets]
                        \cup [do : {"await"}])
  /\ subs \subseteq [socket : sessions, id : SubIds, filter : Filters]
  /\ \A u, v \in subs : u.socket = v.socket /\ u.id = v.id => u = v
  /\ cache \in Seq(Events) /\ arrived \subseteq Events \ Invalid
  /\ validating \subseteq Sockets \X Events
  /\ told \in [Sockets -> SUBSET (SubIds \X Events)] /\ lost \subseteq Sockets
  /\ conn = Cardinality(sessions)

\* Whatever the order and the timing of publications, the cache holds of each key
\* the newest event, of equally new ones that with the largest id, and every event
\* that replaces nothing, sorted as a client with a limit needs it.
Above(d, e) == d.at > e.at \/ (d.at = e.at /\ d.id > e.id)

CacheConverges ==
  /\ Range(cache) = {e \in arrived : e.key = NoKey \/ ~\E d \in arrived : d.key = e.key /\ Above(d, e)}
  /\ \A i, j \in DOMAIN cache : i < j => ~Above(cache[j], cache[i])

\* Everything in the cache that an open subscription without a limit wants has been
\* sent to it: no event falls between the stored ones and the live ones.
ViewCoversCache ==
  \A u \in subs : u.filter.limit >= Len(cache) =>
    \A e \in Range(cache) \cap u.filter.want :
      server[u.socket] # "OPEN" \/ <<u.id, e>> \in told[u.socket]

\* A client that does not hang up gets everything that is sent to it: no message
\* arrives before its end is open or after it was closed.
NothingCutOff == lost = {}

\* When close() has finished no connection is left, and nothing of the relay's
\* former life but an event that was being validated can turn up in the next.
CloseDrains ==
  [][closePromise # "none" /\ closePromise' = "none" =>
       \A s \in Sockets : server[s] \in {"none", "CLOSED"} /\ client[s] \in {"none", "CLOSED"}]_ephemeralVars

\* close() finishes, whatever was going on.
CloseSettles == closePromise # "none" ~> closePromise = "none"
===============================================================================
