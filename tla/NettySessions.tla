------------------------------- MODULE NettySessions -------------------------------
(***************************************************************************)
(* The sessions of NettyServer: map_session of appServerBase, filled and   *)
(* emptied by the event loops of DotNetty (the handlers of TcpSocketServer *)
(* and UdpSocketServer) and by the timer that removes idle sessions.  The  *)
(* application is told of a session by OnNewSessionConnected and           *)
(* OnSessionClosed.                                                        *)
(*                                                                         *)
(* An id is a TCP channel, which is never used twice, or the address of a  *)
(* UDP peer, which is; sessions of different ids share nothing but the     *)
(* map, so each id has a thread of its own, also for UDP, where one event  *)
(* loop serves them all.  The timer raises Elapsed at every interval, also *)
(* while a round still runs, so that rounds may overlap.                   *)
(*                                                                         *)
(* The application's OnSessionClosed may throw, which ends what the event  *)
(* loop or the round was doing; its other callbacks return.                *)
(*                                                                         *)
(* Time: a session is fresh until ClearIdleSessionInterval has passed      *)
(* since activeTime; a round calls due what was not fresh at its `now' and *)
(* has not been active since.                                              *)
(*                                                                         *)
(* A definition named X_Bug is X with a plausible mistake in it; no action *)
(* uses it, it serves to see that a property notices the mistake.          *)
(***************************************************************************)
EXTENDS Integers

CONSTANTS
  Ids,
  Sessions,  \* bound: session objects that can be made
  Rounds,    \* bound: rounds of the timer that run at once
  None       \* null

ASSUME RoundsAssumption == Rounds # {}
ASSUME NoneAssumption == None \notin Ids \cup Sessions \cup (Ids \X Sessions)

VARIABLES
  mode,         \* config.Mode
  stopped,      \* CloseServer has been called
  channel,      \* state of each id's channel; a peer of UDP has none of its own
  map_session,
  fresh,        \* sessions active within the interval
  at,           \* where the event loop of each id is
  item,         \* the session it handles
  timer,        \* where each round of the timer is
  entries,      \* of the array it has copied, those not yet treated
  due,          \* sessions too old for the round
  entry,        \* the entry it removes, or None
  connected,    \* history: sessions announced by OnNewSessionConnected
  closed,       \* history: calls of OnSessionClosed that have returned
  made,         \* history: sessions that have been made
  overlapped    \* history: a round has started while another one ran

loopVars    == <<at, item>>
timerVars   == <<timer, entries, entry>>
historyVars == <<connected, closed, made, overlapped>>
vars == <<mode, stopped, channel, map_session, fresh, loopVars, timerVars, due, historyVars>>

Entries == Ids \X Sessions

TypeOK ==
  /\ mode \in {"Udp", "Tcp"} /\ stopped \in BOOLEAN
  /\ channel \in [Ids -> {"new", "open", "closed", "gone"}]
  /\ map_session \in [Ids -> Sessions \cup {None}]
  /\ fresh \subseteq Sessions
  /\ at \in [Ids -> {"idle", "connect", "read", "close", "remove"}]
  /\ item \in [Ids -> Sessions \cup {None}]
  /\ \A id \in Ids : at[id] # "idle" <=> item[id] # None
  /\ timer \in [Rounds -> {"wait", "each", "close", "remove"}]
  /\ entries \in [Rounds -> SUBSET Entries]
  /\ due \in [Rounds -> SUBSET Sessions]
  /\ entry \in [Rounds -> Entries \cup {None}]
  /\ \A r \in Rounds : /\ timer[r] \in {"close", "remove"} <=> entry[r] # None
                       /\ timer[r] = "wait" => entries[r] = {}
  /\ connected \subseteq Sessions /\ made \subseteq Sessions /\ overlapped \in BOOLEAN
  /\ closed \in [Sessions -> Nat]

Init ==
  /\ mode \in {"Udp", "Tcp"}
  /\ stopped = FALSE
  /\ channel = [id \in Ids |-> IF mode = "Udp" THEN "open" ELSE "new"]
  /\ map_session = [id \in Ids |-> None]
  /\ fresh = {}
  /\ at = [id \in Ids |-> "idle"] /\ item = [id \in Ids |-> None]
  /\ timer = [r \in Rounds |-> "wait"] /\ entry = [r \in Rounds |-> None]
  /\ entries = [r \in Rounds |-> {}] /\ due = [r \in Rounds |-> {}]
  /\ overlapped = FALSE
  /\ connected = {} /\ made = {} /\ closed = [s \in Sessions |-> 0]

(***************************************************************************)
(* Event loops.                                                            *)
(***************************************************************************)
Goes(id, point, s) ==
  /\ at' = [at EXCEPT ![id] = point]
  /\ item' = [item EXCEPT ![id] = s]

\* activeTime = DateTime.Now
Refresh(s) == fresh' = fresh \cup {s} /\ due' = [r \in Rounds |-> due[r] \ {s}]

\* The connection, or the first datagram of a peer that is not in the map.
NewSession(id) ==
  \E s \in Sessions \ made :
    /\ made' = made \cup {s}
    /\ map_session' = [map_session EXCEPT ![id] = s]
    /\ Refresh(s)
    /\ Goes(id, "connect", s)

ChannelActive(id) ==
  /\ mode = "Tcp" /\ ~stopped
  /\ at[id] = "idle"
  /\ channel[id] = "new"
  /\ channel' = [channel EXCEPT ![id] = "open"]
  /\ NewSession(id)
  /\ UNCHANGED <<mode, stopped, timerVars, connected, closed, overlapped>>

FirstDatagram(id) ==
  /\ mode = "Udp" /\ ~stopped
  /\ at[id] = "idle"
  /\ map_session[id] = None
  /\ NewSession(id)
  /\ UNCHANGED <<mode, stopped, channel, timerVars, connected, closed, overlapped>>

OnNewSessionConnected(id) ==
  /\ at[id] = "connect"
  /\ connected' = connected \cup {item[id]}
  /\ IF mode = "Udp" THEN Goes(id, "read", item[id]) ELSE Goes(id, "idle", None)
  /\ UNCHANGED <<mode, stopped, channel, map_session, fresh, timerVars, due, closed, made,
                 overlapped>>

\* Data for a session in the map; a TCP channel that is not there is ignored.
Data(id) ==
  /\ at[id] = "idle"
  /\ channel[id] = "open" /\ ~stopped
  /\ map_session[id] # None
  /\ Refresh(map_session[id])
  /\ Goes(id, "read", map_session[id])
  /\ UNCHANGED <<mode, stopped, channel, map_session, timerVars, historyVars>>

OnNewDataReceived(id) ==
  /\ at[id] = "read"
  /\ Goes(id, "idle", None)
  /\ UNCHANGED <<mode, stopped, channel, map_session, fresh, timerVars, due, historyVars>>

\* The peer closes its connection.
ChannelCloses(id) ==
  /\ mode = "Tcp"
  /\ channel[id] = "open"
  /\ channel' = [channel EXCEPT ![id] = "closed"]
  /\ UNCHANGED <<mode, stopped, map_session, fresh, loopVars, timerVars, due, historyVars>>

\* SessionClosed: only a session still in the map is announced.
ChannelInactive(id) ==
  /\ mode = "Tcp"
  /\ at[id] = "idle"
  /\ channel[id] = "closed"
  /\ channel' = [channel EXCEPT ![id] = "gone"]
  /\ IF map_session[id] = None THEN UNCHANGED loopVars ELSE Goes(id, "close", map_session[id])
  /\ UNCHANGED <<mode, stopped, map_session, fresh, timerVars, due, historyVars>>

Announced(s) == closed' = [closed EXCEPT ![s] = @ + 1]

OnSessionClosed(id) ==
  /\ at[id] = "close"
  /\ Announced(item[id])
  /\ Goes(id, "remove", item[id])
  /\ UNCHANGED <<mode, stopped, channel, map_session, fresh, timerVars, due, connected, made,
                 overlapped>>

\* The application's handler throws: the session stays in the map.
OnSessionClosedThrows(id) ==
  /\ at[id] = "close"
  /\ Goes(id, "idle", None)
  /\ UNCHANGED <<mode, stopped, channel, map_session, fresh, timerVars, due, historyVars>>

\* The session stays in the hands of the loop.
TryRemove_Bug(id) ==
  /\ at[id] = "remove"
  /\ map_session' = [map_session EXCEPT ![id] = None]
  /\ at' = [at EXCEPT ![id] = "idle"]
  /\ UNCHANGED <<mode, stopped, channel, fresh, item, timerVars, due, historyVars>>

TryRemove(id) ==
  /\ at[id] = "remove"
  /\ map_session' = [map_session EXCEPT ![id] = None]
  /\ Goes(id, "idle", None)
  /\ UNCHANGED <<mode, stopped, channel, fresh, timerVars, due, historyVars>>

Loop(id) ==
  \/ OnNewSessionConnected(id) \/ OnNewDataReceived(id)
  \/ ChannelInactive(id) \/ OnSessionClosed(id) \/ OnSessionClosedThrows(id) \/ TryRemove(id)

(***************************************************************************)
(* The timer.                                                              *)
(***************************************************************************)
Copied == {<<id, map_session[id]>> : id \in {i \in Ids : map_session[i] # None}}

RoundGoes(r, point) == timer' = [timer EXCEPT ![r] = point]

StartRound(r) ==
  /\ timer[r] = "wait" /\ ~stopped
  /\ entries' = [entries EXCEPT ![r] = Copied]
  /\ due' = [due EXCEPT ![r] = {e[2] : e \in Copied} \ fresh]
  /\ RoundGoes(r, "each")
  /\ overlapped' = (overlapped \/ \E q \in Rounds \ {r} : timer[q] # "wait")
  /\ UNCHANGED <<mode, stopped, channel, map_session, fresh, loopVars, entry, connected, closed,
                 made>>

Treated(r, e) ==
  /\ timer[r] = "each" /\ e \in entries[r]
  /\ entries' = [entries EXCEPT ![r] = @ \ {e}]
  /\ due' = [due EXCEPT ![r] = @ \ {e[2]}]

NotDue(r, e) ==
  /\ Treated(r, e)
  /\ e[2] \notin due[r]
  /\ UNCHANGED <<mode, stopped, channel, map_session, fresh, loopVars, timer, entry, historyVars>>

\* It is left to the peer to close the channel.
CloseAsync_Bug(r, e) ==
  /\ Treated(r, e)
  /\ e[2] \in due[r]
  /\ mode = "Tcp" /\ channel[e[1]] = "open"
  /\ UNCHANGED <<mode, stopped, channel, map_session, fresh, loopVars, timer, entry, historyVars>>

\* A due TCP session loses its channel; the event loop does the rest.
CloseAsync(r, e) ==
  /\ Treated(r, e)
  /\ e[2] \in due[r]
  /\ mode = "Tcp" /\ channel[e[1]] = "open"
  /\ channel' = [channel EXCEPT ![e[1]] = "closed"]
  /\ UNCHANGED <<mode, stopped, map_session, fresh, loopVars, timer, entry, historyVars>>

\* A due UDP session, and a TCP session whose channel is closed, are removed here.
RemoveEntry(r, e) ==
  /\ Treated(r, e)
  /\ e[2] \in due[r]
  /\ mode = "Udp" \/ channel[e[1]] # "open"
  /\ entry' = [entry EXCEPT ![r] = e]
  /\ RoundGoes(r, "close")
  /\ UNCHANGED <<mode, stopped, channel, map_session, fresh, loopVars, historyVars>>

TimerCloses(r) ==
  /\ timer[r] = "close"
  /\ Announced(entry[r][2])
  /\ RoundGoes(r, "remove")
  /\ UNCHANGED <<mode, stopped, channel, map_session, fresh, loopVars, entries, entry, due,
                 connected, made, overlapped>>

\* The session stays in the map.
TimerRemoves_Bug(r) ==
  /\ timer[r] = "remove"
  /\ entry' = [entry EXCEPT ![r] = None]
  /\ RoundGoes(r, "each")
  /\ UNCHANGED <<mode, stopped, channel, map_session, fresh, loopVars, entries, due, historyVars>>

\* Whatever session has the entry's key by now.
TimerRemoves(r) ==
  /\ timer[r] = "remove"
  /\ map_session' = [map_session EXCEPT ![entry[r][1]] = None]
  /\ entry' = [entry EXCEPT ![r] = None]
  /\ RoundGoes(r, "each")
  /\ UNCHANGED <<mode, stopped, channel, fresh, loopVars, entries, due, historyVars>>

Leaves(r) ==
  /\ RoundGoes(r, "wait")
  /\ entries' = [entries EXCEPT ![r] = {}]
  /\ due' = [due EXCEPT ![r] = {}]

\* The application's handler throws: the session stays in the map, and the round is over.
TimerThrows(r) ==
  /\ timer[r] = "close"
  /\ entry' = [entry EXCEPT ![r] = None]
  /\ Leaves(r)
  /\ UNCHANGED <<mode, stopped, channel, map_session, fresh, loopVars, historyVars>>

EndRound(r) ==
  /\ timer[r] = "each" /\ entries[r] = {}
  /\ Leaves(r)
  /\ UNCHANGED <<mode, stopped, channel, map_session, fresh, loopVars, entry, historyVars>>

Round(r) ==
  \/ EndRound(r) \/ TimerCloses(r) \/ TimerThrows(r) \/ TimerRemoves(r)
  \/ \E e \in Entries : NotDue(r, e) \/ CloseAsync(r, e) \/ RemoveEntry(r, e)

Elapsed == \E r \in Rounds : StartRound(r)

(***************************************************************************)
(* Time, and the end of the server: the timer stops, a round that runs is  *)
(* not interrupted.                                                        *)
(***************************************************************************)
GrowsOld(s) ==
  /\ s \in fresh
  /\ fresh' = fresh \ {s}
  /\ UNCHANGED <<mode, stopped, channel, map_session, loopVars, timerVars, due, historyVars>>

CloseServer ==
  /\ ~stopped
  /\ stopped' = TRUE
  /\ UNCHANGED <<mode, channel, map_session, fresh, loopVars, timerVars, due, historyVars>>

Next ==
  \/ \E id \in Ids : \/ ChannelActive(id) \/ FirstDatagram(id) \/ Data(id)
                     \/ ChannelCloses(id) \/ Loop(id)
  \/ Elapsed
  \/ \E r \in Rounds : Round(r)
  \/ \E s \in Sessions : GrowsOld(s)
  \/ CloseServer

Spec == Init /\ [][Next]_vars

\* Event loops and rounds run, and the timer keeps starting rounds; no peer has to send or
\* to close anything.
FairSpec ==
  /\ Spec
  /\ WF_vars(Elapsed) /\ \A r \in Rounds : WF_vars(Round(r))
  /\ \A id \in Ids : WF_vars(Loop(id))

(***************************************************************************)
(* Properties.                                                             *)
(***************************************************************************)
InMap(s) == \E id \in Ids : map_session[id] = s

\* No session disappears in silence, as long as rounds of the timer do not overlap, even if
\* the application's OnSessionClosed throws now and then: for what has been announced as
\* connected and is no longer in the map it has returned; for a UDP session once, for a TCP
\* session perhaps twice, to the event loop and to the timer, but not more often.
Goodbyes ==
  ~overlapped =>
    /\ \A s \in connected : InMap(s) \/ closed[s] > 0
    /\ \A s \in Sessions : closed[s] <= (IF mode = "Udp" THEN 1 ELSE 2)

\* A session that stays idle leaves the map, without the help of its peer: a round of the
\* timer removes it or closes its channel, as long as the server runs, also when rounds
\* overlap and when OnSessionClosed has thrown, unless it keeps throwing in the rounds.
IdleLeaves ==
  (<>[][\A r \in Rounds : ~TimerThrows(r)]_vars)
    => \A s \in Sessions : (InMap(s) /\ s \notin fresh) ~> (~InMap(s) \/ s \in fresh \/ stopped)
================================================================================
