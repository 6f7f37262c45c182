----------------------------- MODULE SignalRClient -----------------------------
(***************************************************************************)
(* The browser client of SignalRDemo: jquery.signalR, as rate.html uses it *)
(* (a hub connection, transport "auto", start deferred until page load).   *)
(*                                                                         *)
(* Everything runs on the browser's one thread: an action is one event     *)
(* handler or timer callback, or one call of the application, with every   *)
(* call it makes.  The connection object is the record conn, and a         *)
(* function of the source that changes it is an operator from connections  *)
(* to connections, so that handlers compose the way the calls nest.        *)
(*                                                                         *)
(* Server, network and clock are external: requests are answered or fail,  *)
(* sockets open and close, and times are only "recent" or "old" (beyond    *)
(* the limit the code compares them with).  The browser gives no event of  *)
(* a socket, event source or request that has been closed or aborted; an   *)
(* ajax send or a ping is never aborted and can be answered in a later     *)
(* session.  Application handlers may stop the connection where code goes  *)
(* on after them; they do not start it.                                    *)
(*                                                                         *)
(* A definition named X_Bug is X with a plausible mistake in it; no action *)
(* uses it, it serves to see that a property notices the mistake.          *)
(***************************************************************************)
EXTENDS Integers, Sequences, FiniteSets

CONSTANTS
  Calls,        \* hub.invoke calls the application makes
  Unsupported,  \* transports whose start fails at once: no such object, or it throws
  Beats,        \* bound: heartbeat timers that can be set at one time
  NoBeat        \* beatHandle undefined

\* The order in which the transports are registered, which is the order "auto" tries.
Transports == <<"webSockets", "serverSentEvents", "foreverFrame", "longPolling">>
Names == {Transports[i] : i \in 1..4}

\* foreverFrame refuses every browser that has EventSource.
ASSUME UnsupportedAssumption == Unsupported \subseteq Names /\ "foreverFrame" \in Unsupported
ASSUME BeatsAssumption == NoBeat \notin Beats

VARIABLES
  conn,   \* the connection object
  sends,  \* ajax sends that have not been answered
  pings   \* a ping has not been answered

clientVars == <<conn, sends, pings>>

States  == {"connecting", "connected", "reconnecting", "disconnected"}
Links   == {"none", "opening", "open", "closed"}
Times   == {"undefined", "recent", "old"}
Results == {"new", "waiting", "resolved", "rejected", "threw"}
Sends   == [id : Nat, call : Calls]

Connections ==
  [state : States,
   pageLoaded : BOOLEAN,
   deferredStarts : Nat,                        \* handlers bound to the load event
   deferredStartHandler : BOOLEAN,              \* the last of them is remembered
   negotiateRequest : {"none", "pending", "incompatible"},
   index : 1..4,                                \* transport that is tried or used
   transport : Names \cup {"none"},
   startRequested : BOOLEAN, startCompleted : BOOLEAN, failCalled : BOOLEAN,
   startRequest : BOOLEAN,                      \* in flight
   transportTimeout : {"none", "held", "lost"}, \* lost: transportTimeoutHandle names another
   initial : BOOLEAN,                           \* transport.start got onSuccess and onFailed
   socket : Links, eventSource : Links,
   poll : {"none", "delay", "request"},
   messageId : BOOLEAN, raise : BOOLEAN,        \* poll: not the first; raiseReconnect
   reconnectedTimer : BOOLEAN,                  \* longPolling's reconnectTimeoutId
   attemptTimer : BOOLEAN,                      \* reconnectAttemptTimeoutHandle
   reconnectTimer : BOOLEAN,                    \* reconnectTimeout
   disconnectTimer : BOOLEAN,                   \* stopReconnectingTimeout
   activated : BOOLEAN, monitoring : BOOLEAN,   \* keepAliveData
   lastMessageAt : Times, lastActiveAt : Times,
   beats : SUBSET Beats, beatHandle : Beats \cup {NoBeat},
   pingTimer : BOOLEAN,
   invocationCallbacks : SUBSET Sends, invocationCallbackId : Nat,
   calls : [Calls -> Results],                  \* what became of each call
   asked : SUBSET Sends]                        \* sent over the socket, not answered

ClientTypeOK == conn \in Connections /\ sends \subseteq Sends /\ pings \in BOOLEAN

NewConnection ==
  [state |-> "disconnected", pageLoaded |-> FALSE, deferredStarts |-> 0,
   deferredStartHandler |-> FALSE, negotiateRequest |-> "none", index |-> 1,
   transport |-> "none", startRequested |-> FALSE, startCompleted |-> FALSE,
   failCalled |-> FALSE, startRequest |-> FALSE, transportTimeout |-> "none",
   initial |-> FALSE, socket |-> "none", eventSource |-> "none", poll |-> "none",
   messageId |-> FALSE, raise |-> FALSE, reconnectedTimer |-> FALSE,
   attemptTimer |-> FALSE, reconnectTimer |-> FALSE, disconnectTimer |-> FALSE,
   activated |-> FALSE, monitoring |-> FALSE, lastMessageAt |-> "recent",
   lastActiveAt |-> "recent", beats |-> {}, beatHandle |-> NoBeat, pingTimer |-> FALSE,
   invocationCallbacks |-> {}, invocationCallbackId |-> 0,
   calls |-> [v \in Calls |-> "new"], asked |-> {}]

ClientInit == conn = NewConnection /\ sends = {} /\ pings = FALSE

(***************************************************************************)
(* Invocation callbacks of the hub connection.                             *)
(***************************************************************************)

\* The callback with this id, if there is one, is deleted and called.
Settle(c, id, result) ==
  LET cbs == {cb \in c.invocationCallbacks : cb.id = id}
  IN  [c EXCEPT
        !.invocationCallbacks = @ \ cbs,
        !.calls = [v \in Calls |->
                     IF @[v] = "waiting" /\ (\E cb \in cbs : cb.call = v) THEN result ELSE @[v]]]

clearInvocationCallbacks_Bug(c) == [c EXCEPT !.invocationCallbackId = 0, !.invocationCallbacks = {}]
clearInvocationCallbacks(c) ==
  [c EXCEPT
    !.invocationCallbackId = 0,
    !.invocationCallbacks = {},
    !.calls = [v \in Calls |->
                 IF @[v] = "waiting" /\ (\E cb \in c.invocationCallbacks : cb.call = v)
                 THEN "rejected" ELSE @[v]]]

(***************************************************************************)
(* State changes and stop.                                                 *)
(***************************************************************************)

\* The stateChanged handler clears stopReconnectingTimeout.
changeState(c, expectedState, newState) ==
  IF c.state # expectedState THEN c
  ELSE [c EXCEPT !.state = newState,
                 !.disconnectTimer = @ /\ expectedState # "reconnecting"]

\* stop of each transport; foreverFrame is never in use.
webSocketsStop_Bug(c) == [c EXCEPT !.socket = "none", !.asked = {}]
webSocketsStop(c) == [c EXCEPT !.reconnectTimer = FALSE, !.socket = "none", !.asked = {}]
serverSentEventsStop(c) ==
  [c EXCEPT !.attemptTimer = FALSE, !.reconnectTimer = FALSE, !.eventSource = "none"]
longPollingStop(c) == [c EXCEPT !.poll = "none", !.reconnectedTimer = FALSE]

\* connection.transport.stop, if there is a transport.
transportStop(c) ==
  CASE c.transport = "webSockets" -> webSocketsStop(c)
    [] c.transport = "serverSentEvents" -> serverSentEventsStop(c)
    [] c.transport = "longPolling" -> longPollingStop(c)
    [] OTHER -> c

\* stop() before the page has loaded: only the remembered handler is unbound.
stopBeforeLoad(c) ==
  [c EXCEPT !.deferredStarts = IF c.deferredStartHandler THEN @ - 1 ELSE @,
            !.deferredStartHandler = FALSE]

\* stop() of a session: timers, transport, keep-alive, requests, then the events.
\* (A transportTimeout that is not cleared does nothing after connectionStopped.)
stopSession(c) ==
  LET d == [transportStop(c) EXCEPT
              !.deferredStartHandler = FALSE,
              !.beats = @ \ {c.beatHandle},
              !.pingTimer = FALSE,
              !.activated = @ /\ ~c.monitoring,
              !.monitoring = FALSE,
              !.transport = "none",
              !.negotiateRequest = "none",
              !.startRequest = FALSE,
              !.transportTimeout = "none",
              !.messageId = FALSE,
              !.lastMessageAt = "undefined",
              !.lastActiveAt = "undefined"]
  IN  clearInvocationCallbacks(changeState(d, d.state, "disconnected"))

stop(c) ==
  IF ~c.pageLoaded THEN stopBeforeLoad(c)
  ELSE IF c.state = "disconnected" THEN [c EXCEPT !.deferredStartHandler = FALSE]
  ELSE stopSession(c)

(***************************************************************************)
(* Starting a transport, falling back to the next, the start handshake.    *)
(***************************************************************************)

\* transport.start; the guards against a link that exists already stop the
\* connection and go on.
transportStart(c, reconnecting) ==
  CASE c.transport = "webSockets" ->
         IF c.socket # "none" THEN c
         ELSE [c EXCEPT !.socket = "opening", !.initial = ~reconnecting]
    [] c.transport = "serverSentEvents" ->
         LET d == IF c.eventSource # "none" THEN stop(c) ELSE c
         IN  [d EXCEPT !.eventSource = "opening", !.initial = ~reconnecting,
                       !.attemptTimer = reconnecting]
    [] c.transport = "longPolling" ->
         LET d == IF c.poll = "request" THEN stop(c) ELSE c
         IN  [d EXCEPT !.poll = "delay", !.initial = TRUE, !.messageId = FALSE,
                       !.raise = FALSE, !.reconnectedTimer = FALSE]
    [] OTHER -> c

\* Transports that refuse call onFallback before their own start returns.  Each of the
\* nested InitHandler.start calls then stores its timer, the outermost last.
Usable(i) == {j \in i..4 : Transports[j] \notin Unsupported}
FirstUsable(i) == CHOOSE j \in Usable(i) : \A k \in Usable(i) : j <= k
initialize_Bug(c, i) ==
  IF Usable(i) = {} THEN stop(c)
  ELSE IF c.state = "disconnected" THEN c
  ELSE LET j == FirstUsable(i)
       IN  transportStart([c EXCEPT !.index = j,
                                    !.transport = Transports[j],
                                    !.failCalled = FALSE,
                                    !.transportTimeout = IF i = j THEN "held" ELSE "none"],
                          FALSE)
initialize(c, i) ==
  IF Usable(i) = {} THEN stop(c)
  ELSE IF c.state = "disconnected" THEN c
  ELSE LET j == FirstUsable(i)
       IN  transportStart([c EXCEPT !.index = j,
                                    !.transport = Transports[j],
                                    !.failCalled = FALSE,
                                    !.transportTimeout = IF i = j THEN "held" ELSE "lost"],
                          FALSE)

\* onFailed, and the timeout of the transport: back to the next one, or the end.  It
\* returns whether the transport should stop: not after the start request has completed.
transportFailed_Bug(c) ==
  IF c.failCalled \/ c.startCompleted THEN [c EXCEPT !.failCalled = TRUE]
  ELSE initialize([c EXCEPT !.failCalled = TRUE, !.transportTimeout = "none"], c.index + 1)
transportFailed(c) ==
  IF c.failCalled \/ c.startCompleted THEN [c EXCEPT !.failCalled = TRUE]
  ELSE IF c.startRequested THEN stop(c)
  ELSE initialize(transportStop([c EXCEPT !.failCalled = TRUE, !.transportTimeout = "none"]),
                  c.index + 1)
shouldStop(c) == ~c.startCompleted

\* The init message of the server.
initReceived(c) ==
  IF ~c.initial \/ c.failCalled \/ c.startRequested THEN c
  ELSE [c EXCEPT !.startRequested = TRUE,
                 !.startRequest = TRUE,
                 !.transportTimeout = IF @ = "held" THEN "none" ELSE @]

supportsKeepAlive(c) == c.activated /\ c.transport \in {"webSockets", "serverSentEvents"}

\* The start request has succeeded: keep-alive, heartbeat b, ping, connected.
connected(c, b) ==
  LET keep == supportsKeepAlive(c)
      d == [c EXCEPT !.startCompleted = TRUE,
                     !.startRequest = FALSE,
                     !.monitoring = @ \/ keep,
                     !.lastMessageAt = IF keep /\ ~c.monitoring THEN "recent" ELSE @,
                     !.lastActiveAt = "recent",
                     !.beats = @ \cup {b},
                     !.beatHandle = b,
                     !.pingTimer = TRUE]
  IN  changeState(d, "connecting", "connected")

(***************************************************************************)
(* Reconnecting.                                                           *)
(***************************************************************************)

\* verifyLastActive; what is undefined has not been inactive for too long.
Inactive(c) == c.lastActiveAt = "old"

\* The reconnecting handlers set the disconnect timeout and, over a web socket, give up
\* the calls; the application's may stop the connection.
ensureReconnectingState_Bug(c, appStops) ==
  IF c.state # "connected" THEN c ELSE changeState(c, "connected", "reconnecting")
ensureReconnectingState(c, appStops) ==
  IF c.state # "connected" THEN c
  ELSE LET d == [changeState(c, "connected", "reconnecting") EXCEPT !.disconnectTimer = TRUE]
           e == IF c.transport = "webSockets" THEN clearInvocationCallbacks(d) ELSE d
       IN  IF appStops THEN stop(e) ELSE e

reconnect(c) ==
  IF c.state \notin {"connected", "reconnecting"} \/ c.reconnectTimer THEN c
  ELSE IF Inactive(c) THEN stop(c)
  ELSE [c EXCEPT !.reconnectTimer = TRUE]

\* new EventSource throws as the event source is to be opened again: the error handlers,
\* which may stop the connection, and another try.
eventSourceThrows(c, appStops) == reconnect(IF appStops THEN stop(c) ELSE c)

\* The socket or event source is open: the session goes on where it was.
Reopened(c) ==
  LET d == changeState([c EXCEPT !.reconnectTimer = FALSE, !.attemptTimer = FALSE],
                       "reconnecting", "connected")
  IN  IF d.state # c.state /\ d.monitoring THEN [d EXCEPT !.lastMessageAt = "recent"] ELSE d

\* A monitored connection has heard nothing for too long, or for long enough to warn the
\* onConnectionSlow handlers, which may stop it.
checkIfAlive(c, slowStops) ==
  IF ~c.monitoring \/ c.state # "connected" THEN c
  ELSE IF c.lastMessageAt = "old" THEN reconnect(c)
  ELSE IF slowStops /\ c.lastMessageAt = "recent" THEN stop(c)
  ELSE c

\* One round of the heartbeat whose timer is b.
beat_Bug(c, b, slowStops) ==
  LET d == [c EXCEPT !.beats = @ \ {b}]
  IN  IF d.monitoring /\ d.state = "connected" /\ d.lastMessageAt = "old"
      THEN reconnect(d)
      ELSE [d EXCEPT !.lastActiveAt = "recent", !.beats = @ \cup {b}, !.beatHandle = b]
beat(c, b, slowStops) ==
  LET e == checkIfAlive([c EXCEPT !.beats = @ \ {b}], slowStops)
  IN  IF Inactive(e) THEN stop(e)
      ELSE [e EXCEPT !.lastActiveAt = "recent", !.beats = @ \cup {b}, !.beatHandle = b]

(***************************************************************************)
(* The application and the page.                                           *)
(***************************************************************************)
Rest == UNCHANGED <<sends, pings>>

Started(c) ==
  [c EXCEPT !.state = "connecting", !.negotiateRequest = "pending",
            !.startRequested = FALSE, !.startCompleted = FALSE]

\* Before the page has loaded start is put off; while connecting, connected or
\* reconnecting it changes nothing.
AppStart ==
  /\ conn.state = "disconnected"
  /\ \/ conn.pageLoaded /\ conn' = Started(conn)
     \/ /\ ~conn.pageLoaded /\ conn.deferredStarts < 2
        /\ conn' = [conn EXCEPT !.deferredStarts = @ + 1, !.deferredStartHandler = TRUE]
  /\ Rest

AppStop == conn' = stop(conn) /\ Rest

PageLoads ==
  /\ ~conn.pageLoaded
  /\ LET c == [conn EXCEPT !.pageLoaded = TRUE, !.deferredStarts = 0]
     IN  conn' = IF conn.deferredStarts > 0 THEN Started(c) ELSE c
  /\ Rest

\* A sleeping machine is inactive and hears nothing; a silent server is only not heard.
Sleep ==
  /\ conn.lastActiveAt = "recent"
  /\ conn' = [conn EXCEPT !.lastActiveAt = "old",
                          !.lastMessageAt = IF @ = "recent" THEN "old" ELSE @]
  /\ Rest
Silence ==
  /\ conn.lastMessageAt = "recent"
  /\ conn' = [conn EXCEPT !.lastMessageAt = "old"]
  /\ Rest

(***************************************************************************)
(* Negotiate, start request, transport timeout.                            *)
(***************************************************************************)
NegotiateAnswered ==
  /\ conn.negotiateRequest = "pending"
  /\ \E tryWebSockets, keepAlive \in BOOLEAN :
       conn' = initialize([conn EXCEPT !.negotiateRequest = "none", !.activated = keepAlive],
                          IF tryWebSockets THEN 1 ELSE 2)
  /\ Rest

\* A protocol version that does not fit: start fails, the state stays connecting.
NegotiateIncompatible ==
  /\ conn.negotiateRequest = "pending"
  /\ conn' = [conn EXCEPT !.negotiateRequest = "incompatible"]
  /\ Rest

NegotiateFailed ==
  /\ conn.negotiateRequest = "pending"
  /\ conn' = stop(conn)
  /\ Rest

TransportTimeout ==
  /\ conn.transportTimeout # "none"
  /\ LET c == [conn EXCEPT !.transportTimeout = "none"]
     IN  conn' = IF c.failCalled THEN c ELSE transportFailed(c)
  /\ Rest

StartAnswered ==
  /\ conn.startRequest
  /\ \E b \in Beats \ conn.beats :
       conn' = connected(conn, b)
  /\ Rest

StartFailed ==
  /\ conn.startRequest
  /\ conn' = stop([conn EXCEPT !.startRequest = FALSE])
  /\ Rest

(***************************************************************************)
(* Web sockets and server-sent events.                                     *)
(***************************************************************************)
SocketOpens ==
  /\ conn.socket = "opening"
  /\ conn' = Reopened([conn EXCEPT !.socket = "open"])
  /\ Rest

\* onFailed decides during the start, reconnect afterwards.
LinkLost(c) ==
  IF c.initial
  THEN LET d == transportFailed(c) IN IF shouldStop(c) THEN d ELSE reconnect(d)
  ELSE reconnect(c)

SocketCloses ==
  /\ conn.socket \in {"opening", "open"}
  /\ conn' = LinkLost([conn EXCEPT !.socket = "closed"])
  /\ Rest

SourceOpens ==
  /\ conn.eventSource = "opening"
  /\ conn' = Reopened([conn EXCEPT !.eventSource = "open"])
  /\ Rest

\* The error event: closed for good, or the event source itself tries again.
SourceErrors ==
  /\ conn.eventSource \in {"opening", "open"}
  /\ \/ conn' = LinkLost([conn EXCEPT !.eventSource = "closed"])
     \/ LET c == [conn EXCEPT !.eventSource = "opening"]
        IN  conn' = IF c.initial THEN transportFailed(c) ELSE c
  /\ Rest

AttemptTimeout ==
  /\ conn.attemptTimer
  /\ LET c == [conn EXCEPT !.attemptTimer = FALSE]
     IN  conn' = IF c.eventSource # "open" THEN reconnect(c) ELSE c
  /\ Rest

\* A message on the open link, with or without the init flag.
LinkMessage ==
  /\ conn.socket = "open" \/ conn.eventSource = "open"
  /\ LET c == [conn EXCEPT !.lastMessageAt = "recent"]
     IN  conn' = c \/ conn' = initReceived(c)
  /\ Rest

parseFailure(c) ==
  IF c.initial /\ shouldStop(c) THEN transportFailed(c) ELSE stop(c)

LinkUnparsable ==
  /\ conn.socket = "open" \/ conn.eventSource = "open"
  /\ conn' = parseFailure(conn)
  /\ Rest

ReconnectTimeout ==
  /\ conn.reconnectTimer
  /\ \E appStops, throws, errorStops \in BOOLEAN :
       conn' = IF Inactive(conn) THEN stop(conn)
               ELSE LET c == ensureReconnectingState(transportStop(conn), appStops)
                    IN  IF c.state # "reconnecting" THEN c
                        ELSE IF throws /\ c.transport = "serverSentEvents"
                             THEN eventSourceThrows(c, errorStops)
                        ELSE transportStart(c, TRUE)
  /\ Rest

\* onReconnectTimeout
DisconnectTimeout ==
  /\ conn.disconnectTimer
  /\ conn' = stop([conn EXCEPT !.disconnectTimer = FALSE])
  /\ Rest

Beat ==
  /\ \E b \in conn.beats, slowStops \in BOOLEAN : conn' = beat(conn, b, slowStops)
  /\ Rest

(***************************************************************************)
(* Long polling.                                                           *)
(***************************************************************************)

\* The poll function; after an error it raises reconnected when some time has passed.
polled(c, raiseReconnect) ==
  IF c.state = "disconnected" THEN [c EXCEPT !.poll = "none"]
  ELSE [c EXCEPT !.poll = "request", !.raise = raiseReconnect,
                 !.reconnectedTimer = @ \/ (c.messageId /\ raiseReconnect)]

Poll ==
  /\ conn.poll = "delay"
  /\ conn' = polled(conn, conn.raise)
  /\ Rest

fireReconnected(c) == Reopened([c EXCEPT !.reconnectedTimer = FALSE])

\* A poll is answered: perhaps with a message id, the init message, a request to reconnect
\* or a delay; the application may stop the connection as it handles the messages or the
\* reconnecting event.
PollAnswered ==
  /\ conn.poll = "request"
  /\ \E id, init, shouldReconnect, delay \in BOOLEAN, appStops \in {"no", "message", "event"} :
       LET c == IF conn.reconnectedTimer THEN fireReconnected(conn) ELSE conn
           d == [c EXCEPT !.lastMessageAt = "recent", !.messageId = @ \/ id]
           e == IF init THEN initReceived(d) ELSE d
           f == IF appStops = "message" THEN stop(e) ELSE e
           g == IF shouldReconnect THEN ensureReconnectingState(f, appStops = "event") ELSE f
       IN  conn' = IF \/ f.state = "disconnected"
                      \/ shouldReconnect /\ g.state # "reconnecting"
                   THEN [g EXCEPT !.poll = "none"]
                   ELSE IF delay THEN [g EXCEPT !.poll = "delay", !.raise = shouldReconnect]
                   ELSE polled(g, shouldReconnect)
  /\ Rest

PollUnparsable ==
  /\ conn.poll = "request"
  /\ conn' = parseFailure([conn EXCEPT !.poll = "none"])
  /\ Rest

PollFails ==
  /\ conn.poll = "request"
  /\ \E appStops \in BOOLEAN :
       LET c == [conn EXCEPT !.poll = "none", !.reconnectedTimer = FALSE]
           d == transportFailed(c)
           e == ensureReconnectingState(d, appStops)
       IN  conn' = IF shouldStop(c) THEN d
                   ELSE IF d.state \in {"connected", "reconnecting"} /\ Inactive(d) THEN stop(d)
                   ELSE IF e.state # "reconnecting" THEN e
                   ELSE [e EXCEPT !.poll = "delay", !.raise = TRUE]
  /\ Rest

ReconnectedTimeout ==
  /\ conn.reconnectedTimer
  /\ conn' = fireReconnected(conn)
  /\ Rest

(***************************************************************************)
(* Pings and hub invocations.                                              *)
(***************************************************************************)
Ping ==
  /\ conn.pingTimer /\ ~pings
  /\ pings' = TRUE
  /\ UNCHANGED <<conn, sends>>

\* A ping that is refused or not understood stops the connection, whichever session it is.
PingAnswered ==
  /\ pings
  /\ pings' = FALSE
  /\ conn' = conn \/ conn' = stop(conn)
  /\ UNCHANGED sends

\* hub.invoke: the callback is stored before connection.send, which throws when there is
\* no session.  A socket throws unless it is open, and takes what it no longer sends.
Invoke(v) ==
  /\ conn.calls[v] = "new"
  /\ LET s == [id |-> conn.invocationCallbackId, call |-> v]
         c == [conn EXCEPT !.invocationCallbacks = @ \cup {s},
                           !.invocationCallbackId = @ + 1,
                           !.calls[v] = "waiting"]
     IN  \/ /\ conn.state \in {"disconnected", "connecting"}
            /\ conn' = [c EXCEPT !.calls[v] = "threw"]
            /\ UNCHANGED sends
         \/ /\ conn.state \in {"connected", "reconnecting"}
            /\ conn.transport = "webSockets"
            /\ conn' = CASE c.socket = "open" -> [c EXCEPT !.asked = @ \cup {s}]
                         [] c.socket = "closed" -> c
                         [] OTHER -> Settle(c, s.id, "rejected")
            /\ UNCHANGED sends
         \/ /\ conn.state \in {"connected", "reconnecting"}
            /\ conn.transport # "webSockets"
            /\ conn' = c
            /\ sends' = sends \cup {s}
  /\ UNCHANGED pings

\* The result of a call on the socket that took it.
SocketResult ==
  /\ conn.socket = "open"
  /\ \E s \in conn.asked :
       conn' = Settle([conn EXCEPT !.asked = @ \ {s}], s.id, "resolved")
  /\ Rest

\* The answer of a send, in whatever session: a result, which is buffered while the
\* connection is connecting and finds no callback later; no data that can be used; a
\* failure; or an answer that cannot be parsed.
SendAnswered(s) ==
  /\ s \in sends
  /\ sends' = sends \ {s}
  /\ \/ conn' = IF conn.state = "connecting" THEN conn ELSE Settle(conn, s.id, "resolved")
     \/ conn' = conn
     \/ conn' = Settle(conn, s.id, "rejected")
     \/ conn' = stop(Settle(conn, s.id, "rejected"))
  /\ UNCHANGED pings

ClientNext ==
  \/ AppStart \/ AppStop \/ PageLoads \/ Sleep \/ Silence
  \/ NegotiateAnswered \/ NegotiateIncompatible \/ NegotiateFailed
  \/ TransportTimeout \/ StartAnswered \/ StartFailed
  \/ SocketOpens \/ SocketCloses \/ SourceOpens \/ SourceErrors \/ AttemptTimeout
  \/ LinkMessage \/ LinkUnparsable \/ ReconnectTimeout \/ DisconnectTimeout \/ Beat
  \/ Poll \/ PollAnswered \/ PollUnparsable \/ PollFails \/ ReconnectedTimeout
  \/ Ping \/ PingAnswered
  \/ \E v \in Calls : Invoke(v)
  \/ SocketResult \/ \E s \in sends : SendAnswered(s)

ClientSpec == ClientInit /\ [][ClientNext]_clientVars

\* Requests end, one way or another, and timers fire: that is all the browser promises.
ClientFairness ==
  /\ WF_clientVars(NegotiateAnswered \/ NegotiateIncompatible \/ NegotiateFailed)
  /\ WF_clientVars(StartAnswered \/ StartFailed)
  /\ WF_clientVars(TransportTimeout)
  /\ WF_clientVars(DisconnectTimeout)

FairClientSpec == ClientSpec /\ ClientFairness

(***************************************************************************)
(* Properties.                                                             *)
(***************************************************************************)

\* After stop, by whoever and from whatever state, nothing of the session is left that
\* could open it again: no socket, event source or poll, no request and no timer.
QuietWhenDisconnected ==
  conn.state = "disconnected" =>
    /\ conn.socket = "none" /\ conn.eventSource = "none" /\ conn.poll = "none"
    /\ conn.negotiateRequest # "pending" /\ ~conn.startRequest
    /\ ~conn.reconnectTimer /\ ~conn.attemptTimer /\ ~conn.reconnectedTimer
    /\ ~conn.pingTimer

\* Through fallback and reconnecting there is never more than one link to the server.
OneLink ==
  Cardinality({l \in {1, 2, 3} : \/ l = 1 /\ conn.socket # "none"
                                 \/ l = 2 /\ conn.eventSource # "none"
                                 \/ l = 3 /\ conn.poll # "none"}) <= 1

\* The timers fit the state: the disconnect timeout runs exactly while the connection is
\* reconnecting (a leftover one would end a connection that has come back), and a session
\* that has started keeps a heartbeat, which is what notices a dead link.
TimersFitState ==
  /\ conn.disconnectTimer <=> conn.state = "reconnecting"
  /\ conn.state \in {"connected", "reconnecting"} => conn.beats # {}

\* A promise that invoke has returned is settled at the latest by the disconnect.
CallsSettled == conn.state = "disconnected" => \A v \in Calls : conn.calls[v] # "waiting"

\* Does not hold, and no run checks it: stop() says "Clear this no matter what"
\* (jquery.signalR-2.2.2.js, above the clearTimeout of beatHandle), so no heartbeat goes
\* on without a session.
HeartbeatStops == conn.state = "disconnected" => conn.beats = {}

\* Reconnecting ends, by a connection or by the disconnect timeout.
ReconnectingEnds == conn.state = "reconnecting" ~> conn.state # "reconnecting"

\* Connecting ends, through whatever fallback, unless the protocol version does not fit.
ConnectingEnds ==
  conn.state = "connecting" ~>
    (conn.state # "connecting" \/ conn.negotiateRequest = "incompatible")
================================================================================
