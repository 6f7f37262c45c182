-------------------------- MODULE IdleConnections_proofs --------------------------
(***************************************************************************)
(* The two places where connections that stay idle are to be closed.  In   *)
(* NettyServer a timer does it, beside the event loops: no session leaves  *)
(* the map in silence, and none is taken leave of too often, for any ids   *)
(* and sessions, as long as rounds of the timer do not overlap: the        *)
(* invariant speaks of the one round that runs, or of any of those that    *)
(* wait.  In NETIOCPSvr a thread does it: it closes nothing, since *)
(* the component of a TimeSpan below one second never exceeds a timeout    *)
(* that is at least as long.                                               *)
(***************************************************************************)
EXTENDS NettySessions, DaemonThread, TLAPS

-----------------------------------------------------------------------------
(* NettySessions.                                                            *)

LEMMA NoneIsNothing == None \notin Sessions /\ None \notin Entries
  BY NoneAssumption DEF Entries

\* What a loop does next, and the session in its hands.
LEMMA GoesType ==
  ASSUME TypeOK, NEW id \in Ids, NEW point, NEW s, Goes(id, point, s),
         \/ point \in {"connect", "read", "close", "remove"} /\ s \in Sessions
         \/ point = "idle" /\ s = None
  PROVE  /\ at' \in [Ids -> {"idle", "connect", "read", "close", "remove"}]
         /\ item' \in [Ids -> Sessions \cup {None}]
         /\ \A i \in Ids : at'[i] # "idle" <=> item'[i] # None
         /\ at'[id] = point /\ item'[id] = s
         /\ \A i \in Ids : i # id => at'[i] = at[i] /\ item'[i] = item[i]
  <1>1. /\ at' = [at EXCEPT ![id] = point] /\ item' = [item EXCEPT ![id] = s]
        /\ at \in [Ids -> {"idle", "connect", "read", "close", "remove"}]
        /\ item \in [Ids -> Sessions \cup {None}]
        /\ \A i \in Ids : at[i] # "idle" <=> item[i] # None
    BY DEF Goes, TypeOK
  <1>2. /\ at'[id] = point /\ item'[id] = s
        /\ \A i \in Ids : i # id => at'[i] = at[i] /\ item'[i] = item[i]
    BY <1>1
  <1>3. point \in {"idle", "connect", "read", "close", "remove"} /\ s \in Sessions \cup {None}
        /\ (point # "idle" <=> s # None)
    BY NoneIsNothing
  <1>4. /\ at' \in [Ids -> {"idle", "connect", "read", "close", "remove"}]
        /\ item' \in [Ids -> Sessions \cup {None}]
    BY <1>1, <1>3
  <1>5. \A i \in Ids : at'[i] # "idle" <=> item'[i] # None
    BY <1>1, <1>2, <1>3
  <1> QED
    BY <1>2, <1>4, <1>5

\* A loop that is busy has a session, and so has a timer that removes one.
LEMMA InHands ==
  ASSUME TypeOK
  PROVE  /\ \A id \in Ids : at[id] # "idle" => item[id] \in Sessions
         /\ \A r \in Rounds : timer[r] \in {"close", "remove"} =>
              entry[r] \in Entries /\ entry[r][1] \in Ids /\ entry[r][2] \in Sessions
         /\ \A id \in Ids : map_session[id] # None => map_session[id] \in Sessions
  <1>1. \A e \in Entries : e[1] \in Ids /\ e[2] \in Sessions
    BY DEF Entries
  <1> QED
    BY <1>1 DEF TypeOK

LEMMA RefreshType ==
  ASSUME TypeOK, NEW s, Refresh(s)
  PROVE  fresh' = fresh \cup {s} /\ due' \in [Rounds -> SUBSET Sessions]
  BY DEF Refresh, TypeOK

LEMMA NewSessionType ==
  ASSUME TypeOK, NEW id \in Ids, NewSession(id)
  PROVE  \E s \in Sessions \ made :
           /\ made' = made \cup {s} /\ map_session' = [map_session EXCEPT ![id] = s]
           /\ map_session' \in [Ids -> Sessions \cup {None}]
           /\ fresh' = fresh \cup {s} /\ due' \in [Rounds -> SUBSET Sessions]
           /\ at'[id] = "connect" /\ item'[id] = s
           /\ \A i \in Ids : i # id => at'[i] = at[i] /\ item'[i] = item[i]
           /\ at' \in [Ids -> {"idle", "connect", "read", "close", "remove"}]
           /\ item' \in [Ids -> Sessions \cup {None}]
           /\ \A i \in Ids : at'[i] # "idle" <=> item'[i] # None
  <1>1. PICK s \in Sessions \ made :
          /\ made' = made \cup {s} /\ map_session' = [map_session EXCEPT ![id] = s]
          /\ Refresh(s) /\ Goes(id, "connect", s)
    BY DEF NewSession
  <1>2. map_session' \in [Ids -> Sessions \cup {None}]
    BY <1>1 DEF TypeOK
  <1>3. /\ at'[id] = "connect" /\ item'[id] = s
        /\ \A i \in Ids : i # id => at'[i] = at[i] /\ item'[i] = item[i]
        /\ at' \in [Ids -> {"idle", "connect", "read", "close", "remove"}]
        /\ item' \in [Ids -> Sessions \cup {None}]
        /\ \A i \in Ids : at'[i] # "idle" <=> item'[i] # None
    BY <1>1, GoesType
  <1>4. fresh' = fresh \cup {s} /\ due' \in [Rounds -> SUBSET Sessions]
    BY <1>1, RefreshType
  <1> WITNESS s \in Sessions \ made
  <1> QED
    BY <1>1, <1>2, <1>3, <1>4

LEMMA TypesByLoop ==
  ASSUME TypeOK, NEW id \in Ids,
         ChannelActive(id) \/ FirstDatagram(id) \/ Data(id) \/ ChannelCloses(id) \/ Loop(id)
  PROVE  TypeOK'
  <1> USE DEF loopVars, timerVars, historyVars
  <1>1. CASE ChannelActive(id)
    <2>1. channel' \in [Ids -> {"new", "open", "closed", "gone"}]
      BY <1>1 DEF ChannelActive, TypeOK
    <2>2. UNCHANGED <<mode, stopped, timer, entries, entry, connected, closed, overlapped>>
      BY <1>1 DEF ChannelActive
    <2> QED
      BY <1>1, <2>1, <2>2, NewSessionType DEF ChannelActive, TypeOK
  <1>2. CASE FirstDatagram(id)
    <2>2. UNCHANGED <<mode, stopped, channel, timer, entries, entry, connected, closed, overlapped>>
      BY <1>2 DEF FirstDatagram
    <2> QED
      BY <1>2, <2>2, NewSessionType DEF FirstDatagram, TypeOK
  <1>3. CASE Data(id)
    <2>1. map_session[id] \in Sessions /\ Goes(id, "read", map_session[id])
          /\ Refresh(map_session[id])
          /\ UNCHANGED <<mode, stopped, channel, map_session, timer, entries, entry, connected, closed, made, overlapped>>
      BY <1>3, InHands DEF Data
    <2>2. fresh' = fresh \cup {map_session[id]} /\ due' \in [Rounds -> SUBSET Sessions]
      BY <2>1, RefreshType
    <2> QED
      BY <2>1, <2>2, GoesType DEF TypeOK
  <1>4. CASE ChannelCloses(id)
    <2>1. channel' \in [Ids -> {"new", "open", "closed", "gone"}]
      BY <1>4 DEF ChannelCloses, TypeOK
    <2> QED
      BY <1>4, <2>1 DEF ChannelCloses, TypeOK
  <1>5. CASE OnNewSessionConnected(id)
    <2>1. item[id] \in Sessions
      BY <1>5, InHands DEF OnNewSessionConnected
    <2>2. Goes(id, "read", item[id]) \/ Goes(id, "idle", None)
      BY <1>5 DEF OnNewSessionConnected
    <2>3. connected' = connected \cup {item[id]}
          /\ UNCHANGED <<mode, stopped, channel, map_session, fresh, timer, entries, entry, due, closed, made, overlapped>>
      BY <1>5 DEF OnNewSessionConnected
    <2> QED
      BY <2>1, <2>2, <2>3, GoesType DEF TypeOK
  <1>6. CASE OnNewDataReceived(id)
    <2>1. Goes(id, "idle", None)
          /\ UNCHANGED <<mode, stopped, channel, map_session, fresh, timer, entries, entry, due, connected, closed, made, overlapped>>
      BY <1>6 DEF OnNewDataReceived
    <2> QED
      BY <2>1, GoesType DEF TypeOK
  <1>7. CASE ChannelInactive(id)
    <2>1. channel' \in [Ids -> {"new", "open", "closed", "gone"}]
      BY <1>7 DEF ChannelInactive, TypeOK
    <2>2. UNCHANGED <<mode, stopped, map_session, fresh, timer, entries, entry, due, connected, closed, made, overlapped>>
      BY <1>7 DEF ChannelInactive
    <2>3. \/ UNCHANGED <<at, item>>
          \/ map_session[id] \in Sessions /\ Goes(id, "close", map_session[id])
      BY <1>7, InHands DEF ChannelInactive
    <2>4. CASE UNCHANGED <<at, item>>
      BY <2>1, <2>2, <2>4 DEF TypeOK
    <2>5. CASE map_session[id] \in Sessions /\ Goes(id, "close", map_session[id])
      BY <2>1, <2>2, <2>5, GoesType DEF TypeOK
    <2> QED
      BY <2>3, <2>4, <2>5
  <1>8. CASE OnSessionClosed(id)
    <2>1. item[id] \in Sessions /\ Goes(id, "remove", item[id])
          /\ closed' = [closed EXCEPT ![item[id]] = @ + 1]
          /\ UNCHANGED <<mode, stopped, channel, map_session, fresh, timer, entries, entry, due, connected, made, overlapped>>
      BY <1>8, InHands DEF OnSessionClosed, Announced
    <2>2. closed' \in [Sessions -> Nat]
      BY <2>1 DEF TypeOK
    <2> QED
      BY <2>1, <2>2, GoesType DEF TypeOK
  <1>9. CASE TryRemove(id)
    <2>1. Goes(id, "idle", None) /\ map_session' = [map_session EXCEPT ![id] = None]
          /\ UNCHANGED <<mode, stopped, channel, fresh, timer, entries, entry, due, connected, closed, made, overlapped>>
      BY <1>9 DEF TryRemove
    <2>2. map_session' \in [Ids -> Sessions \cup {None}]
      BY <2>1 DEF TypeOK
    <2> QED
      BY <2>1, <2>2, GoesType DEF TypeOK
  <1>10. CASE OnSessionClosedThrows(id)
    <2>1. Goes(id, "idle", None)
          /\ UNCHANGED <<mode, stopped, channel, map_session, fresh, timer, entries, entry, due, connected, closed, made, overlapped>>
      BY <1>10 DEF OnSessionClosedThrows
    <2> QED
      BY <2>1, GoesType DEF TypeOK
  <1> QED
    BY <1>1, <1>2, <1>3, <1>4, <1>5, <1>6, <1>7, <1>8, <1>9, <1>10 DEF Loop

\* What a round does next, and the entry in its hands.
LEMMA RoundGoesType ==
  ASSUME TypeOK, NEW r \in Rounds, NEW point, RoundGoes(r, point), NEW es \in SUBSET Entries,
         NEW e \in Entries \cup {None},
         entries' = [entries EXCEPT ![r] = es], entry' = [entry EXCEPT ![r] = e],
         \/ point \in {"close", "remove"} /\ e # None
         \/ point = "each" /\ e = None
         \/ point = "wait" /\ e = None /\ es = {}
  PROVE  /\ timer' \in [Rounds -> {"wait", "each", "close", "remove"}]
         /\ entries' \in [Rounds -> SUBSET Entries] /\ entry' \in [Rounds -> Entries \cup {None}]
         /\ \A q \in Rounds : /\ timer'[q] \in {"close", "remove"} <=> entry'[q] # None
                              /\ timer'[q] = "wait" => entries'[q] = {}
  BY DEF RoundGoes, TypeOK

LEMMA TypesByRound ==
  ASSUME TypeOK, NEW r \in Rounds, StartRound(r) \/ Round(r)
  PROVE  TypeOK'
  <1> USE DEF loopVars, timerVars, historyVars
  <1>0. /\ entries \in [Rounds -> SUBSET Entries] /\ entries[r] \in SUBSET Entries
        /\ entry \in [Rounds -> Entries \cup {None}] /\ entry[r] \in Entries \cup {None}
        /\ due \in [Rounds -> SUBSET Sessions]
        /\ entries = [entries EXCEPT ![r] = entries[r]] /\ entry = [entry EXCEPT ![r] = entry[r]]
    BY DEF TypeOK
  <1>1. CASE StartRound(r)
    <2>1. Copied \subseteq Entries /\ \A e \in Entries : e[2] \in Sessions
      BY InHands DEF Copied, Entries
    <2>2. /\ timer[r] = "wait" /\ entries' = [entries EXCEPT ![r] = Copied] /\ RoundGoes(r, "each")
          /\ due' = [due EXCEPT ![r] = {e[2] : e \in Copied} \ fresh] /\ overlapped' \in BOOLEAN
          /\ UNCHANGED <<mode, stopped, channel, map_session, fresh, at, item, entry, connected, closed, made>>
      BY <1>1 DEF StartRound, TypeOK
    <2>3. due' \in [Rounds -> SUBSET Sessions]
      BY <1>0, <2>1, <2>2
    <2>4. entry[r] = None /\ entry' = [entry EXCEPT ![r] = None]
      BY <1>0, <2>2 DEF TypeOK
    <2>5. /\ timer' \in [Rounds -> {"wait", "each", "close", "remove"}]
          /\ entries' \in [Rounds -> SUBSET Entries] /\ entry' \in [Rounds -> Entries \cup {None}]
          /\ \A q \in Rounds : /\ timer'[q] \in {"close", "remove"} <=> entry'[q] # None
                               /\ timer'[q] = "wait" => entries'[q] = {}
      BY <2>1, <2>2, <2>4, RoundGoesType
    <2> QED
      BY <2>2, <2>3, <2>5 DEF TypeOK
  <1>2. ASSUME Leaves(r), entry' = [entry EXCEPT ![r] = None],
               UNCHANGED <<mode, stopped, channel, map_session, fresh, at, item, connected, closed, made, overlapped>>
        PROVE  TypeOK'
    <2>1. due' \in [Rounds -> SUBSET Sessions]
      BY <1>0, <1>2 DEF Leaves
    <2> QED
      BY <1>2, <2>1, RoundGoesType DEF Leaves, TypeOK
  <1>3. CASE EndRound(r)
    <2>1. entry[r] = None
      BY <1>3 DEF EndRound, TypeOK
    <2> QED
      BY <1>0, <1>2, <1>3, <2>1 DEF EndRound
  <1>4. CASE TimerThrows(r)
    BY <1>2, <1>4 DEF TimerThrows
  <1>5. CASE TimerCloses(r)
    <2>1. entry[r][2] \in Sessions /\ entry[r] # None
      BY <1>5, InHands DEF TimerCloses, TypeOK
    <2>2. closed' \in [Sessions -> Nat]
      BY <1>5, <2>1 DEF TimerCloses, Announced, TypeOK
    <2>3. /\ RoundGoes(r, "remove")
          /\ UNCHANGED <<mode, stopped, channel, map_session, fresh, at, item, entries, entry, due, connected, made, overlapped>>
      BY <1>5 DEF TimerCloses
    <2> QED
      BY <1>0, <2>1, <2>2, <2>3, RoundGoesType DEF TypeOK
  <1>6. CASE TimerRemoves(r)
    <2>1. map_session' \in [Ids -> Sessions \cup {None}]
      BY <1>6 DEF TimerRemoves, TypeOK
    <2>2. /\ RoundGoes(r, "each") /\ entry' = [entry EXCEPT ![r] = None]
          /\ UNCHANGED <<mode, stopped, channel, fresh, at, item, entries, due, connected, closed, made, overlapped>>
      BY <1>6 DEF TimerRemoves
    <2> QED
      BY <1>0, <2>1, <2>2, RoundGoesType DEF TypeOK
  <1>7. ASSUME NEW e \in Entries, NotDue(r, e) \/ CloseAsync(r, e) \/ RemoveEntry(r, e)
        PROVE  TypeOK'
    <2>1. /\ timer[r] = "each" /\ entries' = [entries EXCEPT ![r] = @ \ {e}]
          /\ due' = [due EXCEPT ![r] = @ \ {e[2]}]
          /\ UNCHANGED <<mode, stopped, map_session, fresh, at, item, connected, closed, made, overlapped>>
      BY <1>7 DEF NotDue, CloseAsync, RemoveEntry, Treated
    <2>2. due' \in [Rounds -> SUBSET Sessions]
      BY <1>0, <2>1
    <2>3. channel' \in [Ids -> {"new", "open", "closed", "gone"}]
      <3>1. channel' = channel \/ channel' = [channel EXCEPT ![e[1]] = "closed"]
        BY <1>7 DEF NotDue, CloseAsync, RemoveEntry
      <3> QED
        BY <3>1 DEF TypeOK
    <2>4. entries' = [entries EXCEPT ![r] = entries[r] \ {e}] /\ entries[r] \ {e} \in SUBSET Entries
      BY <1>0, <2>1
    <2>5. CASE RemoveEntry(r, e)
      <3>1. e # None /\ RoundGoes(r, "close") /\ entry' = [entry EXCEPT ![r] = e]
        BY <2>5, NoneIsNothing DEF RemoveEntry
      <3>2. /\ timer' \in [Rounds -> {"wait", "each", "close", "remove"}]
            /\ entries' \in [Rounds -> SUBSET Entries] /\ entry' \in [Rounds -> Entries \cup {None}]
            /\ \A q \in Rounds : /\ timer'[q] \in {"close", "remove"} <=> entry'[q] # None
                                 /\ timer'[q] = "wait" => entries'[q] = {}
        BY <2>4, <3>1, RoundGoesType
      <3> QED
        BY <2>1, <2>2, <2>3, <3>2 DEF TypeOK
    <2>6. CASE timer' = timer /\ entry' = entry
      <3>1. \A q \in Rounds : /\ timer'[q] \in {"close", "remove"} <=> entry'[q] # None
                              /\ timer'[q] = "wait" => entries'[q] = {}
        BY <1>0, <2>1, <2>6 DEF TypeOK
      <3>2. entries' \in [Rounds -> SUBSET Entries]
        BY <1>0, <2>4
      <3> QED
        BY <2>1, <2>2, <2>3, <2>6, <3>1, <3>2 DEF TypeOK
    <2> QED
      BY <1>7, <2>5, <2>6 DEF NotDue, CloseAsync
  <1> QED
    BY <1>1, <1>3, <1>4, <1>5, <1>6, <1>7 DEF Round

LEMMA SessionTypes == TypeOK /\ [Next]_vars => TypeOK'
  <1> SUFFICES ASSUME TypeOK, [Next]_vars PROVE TypeOK'
    OBVIOUS
  <1>1. CASE UNCHANGED vars
    BY <1>1 DEF vars, loopVars, timerVars, historyVars, TypeOK
  <1>2. CASE (\E s \in Sessions : GrowsOld(s)) \/ CloseServer
    BY <1>2 DEF GrowsOld, CloseServer, loopVars, timerVars, historyVars, TypeOK
  <1> QED
    BY <1>1, <1>2, TypesByLoop, TypesByRound DEF Next, Elapsed

LEMMA TypesAtFirst == Init => TypeOK
  <1> SUFFICES ASSUME Init PROVE TypeOK
    OBVIOUS
  <1>1. channel \in [Ids -> {"new", "open", "closed", "gone"}]
    BY DEF Init
  <1>2. /\ map_session \in [Ids -> Sessions \cup {None}] /\ item \in [Ids -> Sessions \cup {None}]
        /\ at \in [Ids -> {"idle", "connect", "read", "close", "remove"}]
        /\ \A id \in Ids : at[id] # "idle" <=> item[id] # None
    BY DEF Init
  <1>3. closed \in [Sessions -> Nat]
    BY DEF Init
  <1>4. /\ timer \in [Rounds -> {"wait", "each", "close", "remove"}]
        /\ entries \in [Rounds -> SUBSET Entries] /\ due \in [Rounds -> SUBSET Sessions]
        /\ entry \in [Rounds -> Entries \cup {None}]
        /\ \A r \in Rounds : /\ timer[r] \in {"close", "remove"} <=> entry[r] # None
                             /\ timer[r] = "wait" => entries[r] = {}
    BY DEF Init
  <1>5. /\ fresh = {} /\ overlapped = FALSE
        /\ connected = {} /\ made = {} /\ mode \in {"Udp", "Tcp"} /\ stopped = FALSE
    BY DEF Init
  <1> QED
    BY <1>1, <1>2, <1>3, <1>4, <1>5 DEF TypeOK

\* Maps, loops and timer keep their types; a loop or a timer that is busy has a session.
THEOREM SessionsTypeOK == Spec => []TypeOK
  BY TypesAtFirst, SessionTypes, PTL DEF Spec

\* Who holds a session of an id: the map, its event loop, the timer's array, or the timer.
Removing(r) == {entry[r]} \ {None}
Held(r) ==
  {p \in Entries : \/ map_session[p[1]] = p[2] \/ item[p[1]] = p[2]
                   \/ p \in entries[r] \cup Removing(r)}

\* All of them hold the same, and no two ids the same.
OneOne(r) == \A p, q \in Held(r) : p[1] = q[1] <=> p[2] = q[2]
HeldAreMade(r) == \A p \in Held(r) : p[2] \in made

\* What the timer holds of UDP is in the map, since nobody else removes it; a new TCP
\* channel has had no session.
ListedIfUdp(r) == mode = "Udp" => \A e \in entries[r] \cup Removing(r) : map_session[e[1]] = e[2]
NoneBefore(r) == mode = "Tcp" => \A p \in Held(r) : channel[p[1]] # "new"

\* An event loop closes a session when its channel has become inactive, which it does once.
LoopCloses == \A id \in Ids : at[id] \in {"close", "remove"} => mode = "Tcp" /\ channel[id] = "gone"

\* Announced first, removed then.
Said(r) ==
  /\ \A id \in Ids : at[id] = "remove" => closed[item[id]] > 0
  /\ timer[r] = "remove" => closed[entry[r][2]] > 0
  /\ \A s \in made : InMap(s) \/ closed[s] > 0
  /\ \A s \in Sessions \ made : closed[s] = 0
  /\ connected \subseteq made
  /\ entry[r] \notin entries[r]

\* The timer, or the event loop, may yet announce the end of s.
TimerMay(r, s) ==
  \/ \E e \in entries[r] : e[2] = s
  \/ timer[r] = "close" /\ entry[r][2] = s
  \/ InMap(s) /\ ~(timer[r] = "remove" /\ entry[r][2] = s)
LoopMay(s) ==
  \E id \in Ids : \/ map_session[id] = s /\ channel[id] \in {"open", "closed"}
                  \/ item[id] = s /\ at[id] = "close"

\* Each does so once.
OnceEach(r) ==
  \A s \in Sessions :
    /\ mode = "Udp" => closed[s] <= 1 /\ (TimerMay(r, s) => closed[s] = 0)
    /\ mode = "Tcp" =>
         /\ closed[s] <= 2 /\ (TimerMay(r, s) => closed[s] <= 1) /\ (LoopMay(s) => closed[s] <= 1)
         /\ TimerMay(r, s) /\ LoopMay(s) => closed[s] = 0

SessionInv(r) ==
  /\ TypeOK /\ LoopCloses
  /\ OneOne(r) /\ HeldAreMade(r) /\ ListedIfUdp(r) /\ NoneBefore(r) /\ Said(r) /\ OnceEach(r)

LEMMA EntryParts ==
  /\ \A e \in Entries : e = <<e[1], e[2]>> /\ e[1] \in Ids /\ e[2] \in Sessions
  /\ \A id \in Ids, s \in Sessions : <<id, s>> \in Entries /\ <<id, s>>[1] = id /\ <<id, s>>[2] = s
  BY DEF Entries

LEMMA HeldParts ==
  ASSUME TypeOK, NEW r \in Rounds
  PROVE  /\ \A id \in Ids : map_session[id] # None => <<id, map_session[id]>> \in Held(r)
         /\ \A id \in Ids : at[id] # "idle" => <<id, item[id]>> \in Held(r) /\ item[id] \in Sessions
         /\ entries[r] \subseteq Held(r)
         /\ timer[r] \in {"close", "remove"} =>
              entry[r] \in Held(r) /\ entry[r] \in Removing(r) /\ entry[r] # None
         /\ \A s \in Sessions : s # None
  BY InHands, EntryParts, NoneIsNothing DEF Held, Removing, TypeOK

LEMMA SessionsAtFirst ==
  ASSUME Init, NEW r \in Rounds
  PROVE  SessionInv(r)
  <1>1. TypeOK
    BY TypesAtFirst
  <1>2. Removing(r) = {} /\ entries[r] = {}
    BY DEF Init, Removing
  <1>3. Held(r) = {}
    BY <1>2, EntryParts, NoneIsNothing DEF Init, Held
  <1>4. ListedIfUdp(r) /\ OneOne(r) /\ HeldAreMade(r) /\ NoneBefore(r)
    BY <1>2, <1>3 DEF ListedIfUdp, OneOne, HeldAreMade, NoneBefore
  <1>5. LoopCloses /\ Said(r)
    BY NoneIsNothing DEF Init, LoopCloses, Said
  <1>6. OnceEach(r)
    BY DEF Init, OnceEach
  <1> QED
    BY <1>1, <1>4, <1>5, <1>6 DEF SessionInv

\* A step that makes, announces and removes no session.
LEMMA QuietStep ==
  ASSUME NEW r \in Rounds, SessionInv(r), TypeOK', UNCHANGED <<mode, map_session, closed, made>>, Held(r)' \subseteq Held(r),
         \A e \in entries'[r] \cup Removing(r)' : e \in entries[r] \cup Removing(r) \/ map_session[e[1]] = e[2],
         entry'[r] \notin entries'[r],
         \A id \in Ids : channel'[id] = "new" => channel[id] = "new",
         LoopCloses',
         \A id \in Ids : at'[id] = "remove" => at[id] = "remove" /\ item'[id] = item[id],
         timer'[r] = "remove" => timer[r] = "remove" /\ entry'[r] = entry[r],
         connected' \subseteq made,
         \A s \in Sessions : (TimerMay(r, s)' => TimerMay(r, s)) /\ (LoopMay(s)' => LoopMay(s))
  PROVE  SessionInv(r)'
  <1>1. OneOne(r)' /\ HeldAreMade(r)'
    BY DEF SessionInv, OneOne, HeldAreMade
  <1>2. ListedIfUdp(r)'
    BY DEF SessionInv, ListedIfUdp
  <1>3. NoneBefore(r)'
    <2>1. \A p \in Held(r)' : p[1] \in Ids
      BY EntryParts DEF Held
    <2> QED
      BY <2>1 DEF SessionInv, NoneBefore
  <1>4. Said(r)'
    BY DEF SessionInv, Said, InMap
  <1>5. OnceEach(r)'
    <2> SUFFICES ASSUME NEW s \in Sessions
                 PROVE  /\ mode = "Udp" => closed[s] <= 1 /\ (TimerMay(r, s)' => closed[s] = 0)
                        /\ mode = "Tcp" =>
                             /\ closed[s] <= 2 /\ (TimerMay(r, s)' => closed[s] <= 1)
                             /\ (LoopMay(s)' => closed[s] <= 1)
                             /\ TimerMay(r, s)' /\ LoopMay(s)' => closed[s] = 0
      BY DEF OnceEach
    <2> QED
      BY DEF SessionInv, OnceEach
  <1> QED
    BY <1>1, <1>2, <1>3, <1>4, <1>5 DEF SessionInv

\* The first session of a channel, or of a peer that has none.
LEMMA NewStep ==
  ASSUME NEW r \in Rounds, SessionInv(r), TypeOK', NEW id \in Ids, NewSession(id),
         UNCHANGED <<mode, timer[r], entries[r], entry[r], connected, closed>>,
         \A p \in Held(r) : p[1] # id,
         \A i \in Ids : i # id => channel'[i] = channel[i],
         mode = "Tcp" => channel'[id] # "new"
  PROVE  SessionInv(r)'
  <1>1. TypeOK
    BY DEF SessionInv
  <1>2. PICK s \in Sessions \ made :
           /\ made' = made \cup {s} /\ map_session' = [map_session EXCEPT ![id] = s]
           /\ at'[id] = "connect" /\ item'[id] = s
           /\ \A i \in Ids : i # id => at'[i] = at[i] /\ item'[i] = item[i]
    BY <1>1, NewSessionType
  <1>3. map_session'[id] = s /\ \A i \in Ids : i # id => map_session'[i] = map_session[i]
    BY <1>1, <1>2 DEF TypeOK
  <1>4. Removing(r)' = Removing(r)
    BY DEF Removing
  <1>5. \A p \in Held(r)' : p \in Held(r) \/ p = <<id, s>>
    BY <1>2, <1>3, <1>4, EntryParts DEF Held
  <1>6. \A p \in Held(r) : p[2] # s
    BY DEF SessionInv, HeldAreMade
  <1>7. OneOne(r)'
    <2>1. <<id, s>>[1] = id /\ <<id, s>>[2] = s
      OBVIOUS
    <2> QED
      BY <1>5, <1>6, <2>1 DEF SessionInv, OneOne
  <1>8. HeldAreMade(r)'
    BY <1>2, <1>5 DEF SessionInv, HeldAreMade
  <1>9. ListedIfUdp(r)'
    <2>1. \A e \in entries[r] \cup Removing(r) : e[1] # id /\ e[1] \in Ids
      BY <1>1, EntryParts, NoneIsNothing DEF Held, Removing, TypeOK
    <2> QED
      BY <1>3, <1>4, <2>1 DEF SessionInv, ListedIfUdp
  <1>10. NoneBefore(r)'
    <2>1. \A p \in Held(r) : p[1] \in Ids
      BY EntryParts DEF Held
    <2> QED
      BY <1>5, <2>1 DEF SessionInv, NoneBefore
  <1>11. LoopCloses'
    BY <1>2 DEF SessionInv, LoopCloses
  <1>12. map_session[id] = None
    BY <1>1, HeldParts
  <1>13. \A x \in Sessions : x # s => (InMap(x)' <=> InMap(x))
    BY <1>1, <1>3, <1>12, HeldParts DEF InMap
  <1>14. Said(r)'
    <2>1. InMap(s)'
      BY <1>3 DEF InMap
    <2>2. made \subseteq Sessions
      BY <1>1 DEF TypeOK
    <2>3. \A x \in made' : InMap(x)' \/ closed'[x] > 0
      BY <1>2, <1>13, <2>1, <2>2 DEF SessionInv, Said
    <2>4. \A i \in Ids : at'[i] = "remove" => closed'[item'[i]] > 0
      BY <1>2 DEF SessionInv, Said
    <2> QED
      BY <1>2, <2>3, <2>4 DEF SessionInv, Said
  <1>15. OnceEach(r)'
    <2>1. ASSUME NEW x \in Sessions, x # s
          PROVE  (TimerMay(r, x)' => TimerMay(r, x)) /\ (LoopMay(x)' => LoopMay(x))
      <3>1. TimerMay(r, x)' => TimerMay(r, x)
        BY <1>13, <2>1 DEF TimerMay
      <3>2. LoopMay(x)' => LoopMay(x)
        BY <1>2, <1>3, <2>1 DEF LoopMay
      <3> QED
        BY <3>1, <3>2
    <2>2. closed[s] = 0
      BY DEF SessionInv, Said
    <2> SUFFICES ASSUME NEW x \in Sessions
                 PROVE  /\ mode = "Udp" => closed[x] <= 1 /\ (TimerMay(r, x)' => closed[x] = 0)
                        /\ mode = "Tcp" =>
                             /\ closed[x] <= 2 /\ (TimerMay(r, x)' => closed[x] <= 1)
                             /\ (LoopMay(x)' => closed[x] <= 1)
                             /\ TimerMay(r, x)' /\ LoopMay(x)' => closed[x] = 0
      BY DEF OnceEach
    <2> QED
      BY <2>1, <2>2 DEF SessionInv, OnceEach
  <1> QED
    BY <1>7, <1>8, <1>9, <1>10, <1>11, <1>14, <1>15 DEF SessionInv

\* The end of x is announced, by the loop or by the timer, which then may not any more.
LEMMA ClosingStep ==
  ASSUME NEW r \in Rounds, SessionInv(r), TypeOK', NEW x \in made,
         closed' = [closed EXCEPT ![x] = @ + 1],
         UNCHANGED <<mode, channel, map_session, item, entries[r], entry[r], connected, made>>,
         LoopCloses',
         \A id \in Ids : at'[id] = "remove" => at[id] = "remove" \/ item[id] = x,
         timer'[r] = "remove" => timer[r] = "remove" \/ entry[r][2] = x,
         \A s \in Sessions : (TimerMay(r, s)' => TimerMay(r, s)) /\ (LoopMay(s)' => LoopMay(s)),
         \/ mode = "Tcp" /\ LoopMay(x) /\ ~LoopMay(x)'
         \/ TimerMay(r, x) /\ ~TimerMay(r, x)'
  PROVE  SessionInv(r)'
  <1>1. TypeOK /\ made \subseteq Sessions /\ closed \in [Sessions -> Nat] /\ mode \in {"Udp", "Tcp"}
    BY DEF SessionInv, TypeOK
  <1>2. closed'[x] = closed[x] + 1 /\ \A s \in Sessions : s # x => closed'[s] = closed[s]
    BY <1>1
  <1>3. \A s \in Sessions : closed[s] \in Nat /\ (closed[s] > 0 => closed'[s] > 0)
    BY <1>1, <1>2
  <1>4. Held(r)' = Held(r) /\ Removing(r)' = Removing(r)
    BY DEF Held, Removing
  <1>5. OneOne(r)' /\ HeldAreMade(r)' /\ ListedIfUdp(r)' /\ NoneBefore(r)'
    BY <1>4 DEF SessionInv, OneOne, HeldAreMade, ListedIfUdp, NoneBefore
  <1>6. Said(r)'
    <2>1. x \in Sessions /\ closed'[x] > 0
      BY <1>1, <1>2, <1>3
    <2>2. \A id \in Ids : at'[id] = "remove" => closed'[item'[id]] > 0
      <3>1. \A id \in Ids : at[id] = "remove" => item[id] \in Sessions /\ closed[item[id]] > 0
        BY <1>1, HeldParts DEF SessionInv, Said
      <3> QED
        BY <1>3, <2>1, <3>1
    <2>3. timer'[r] = "remove" => closed'[entry'[r][2]] > 0
      <3>1. timer[r] = "remove" => entry[r][2] \in Sessions /\ closed[entry[r][2]] > 0
        BY <1>1, InHands DEF SessionInv, Said
      <3> QED
        BY <1>3, <2>1, <3>1
    <2>4. \A s \in made' : InMap(s)' \/ closed'[s] > 0
      BY <1>1, <1>3 DEF SessionInv, Said, InMap
    <2>5. \A s \in Sessions \ made' : closed'[s] = 0
      BY <1>2 DEF SessionInv, Said
    <2> QED
      BY <2>2, <2>3, <2>4, <2>5 DEF SessionInv, Said
  <1>7. OnceEach(r)'
    <2> SUFFICES ASSUME NEW s \in Sessions
                 PROVE  /\ mode = "Udp" => closed'[s] <= 1 /\ (TimerMay(r, s)' => closed'[s] = 0)
                        /\ mode = "Tcp" =>
                             /\ closed'[s] <= 2 /\ (TimerMay(r, s)' => closed'[s] <= 1)
                             /\ (LoopMay(s)' => closed'[s] <= 1)
                             /\ TimerMay(r, s)' /\ LoopMay(s)' => closed'[s] = 0
      BY DEF OnceEach
    <2>1. CASE s = x
      BY <1>1, <1>2, <2>1 DEF SessionInv, OnceEach
    <2>2. CASE s # x
      BY <1>2, <2>2 DEF SessionInv, OnceEach
    <2> QED
      BY <2>1, <2>2
  <1> QED
    BY <1>5, <1>6, <1>7 DEF SessionInv

\* A session whose end has been announced is removed from the map.
LEMMA RemovingStep ==
  ASSUME NEW r \in Rounds, SessionInv(r), TypeOK', NEW p \in Held(r), closed[p[2]] > 0,
         map_session' = [map_session EXCEPT ![p[1]] = None],
         UNCHANGED <<mode, channel, closed, made, entries[r], connected>>,
         \A id \in Ids : item'[id] = item[id] \/ item'[id] = None,
         \A id \in Ids : at'[id] # "idle" => at'[id] = at[id] /\ item'[id] = item[id],
         entry'[r] \in {entry[r], None}, timer'[r] # "remove" \/ (timer'[r] = timer[r] /\ entry'[r] = entry[r]),
         \A e \in entries[r] \cup Removing(r)' : e[1] # p[1] \/ mode = "Tcp",
         \A s \in Sessions : TimerMay(r, s)' => TimerMay(r, s)
  PROVE  SessionInv(r)'
  <1>1. TypeOK /\ p[1] \in Ids /\ p[2] \in Sessions
    BY EntryParts DEF SessionInv, Held
  <1>2. map_session'[p[1]] = None /\ \A i \in Ids : i # p[1] => map_session'[i] = map_session[i]
    BY <1>1 DEF TypeOK
  <1>3. Removing(r)' \subseteq Removing(r)
    BY DEF Removing
  <1>4. Held(r)' \subseteq Held(r)
    <2>1. \A q \in Entries : q[1] \in Ids /\ q[2] # None
      BY EntryParts, NoneIsNothing
    <2> QED
      BY <1>2, <1>3, <2>1 DEF Held
  <1>5. OneOne(r)' /\ HeldAreMade(r)' /\ NoneBefore(r)'
    BY <1>4 DEF SessionInv, OneOne, HeldAreMade, NoneBefore
  <1>6. ListedIfUdp(r)'
    <2>1. \A e \in entries[r] \cup Removing(r)' : e[1] \in Ids
      BY <1>1, <1>3, EntryParts DEF TypeOK, Removing
    <2> QED
      BY <1>2, <1>3, <2>1 DEF SessionInv, ListedIfUdp
  <1>7. LoopCloses'
    BY DEF SessionInv, LoopCloses
  <1>8. ASSUME NEW s \in Sessions PROVE /\ InMap(s) => InMap(s)' \/ s = p[2]
                                        /\ InMap(s)' => InMap(s)
    <2>1. InMap(s)' => InMap(s)
      BY <1>2, NoneIsNothing DEF InMap
    <2>2. map_session[p[1]] = s => s = p[2]
      <3>1. SUFFICES ASSUME map_session[p[1]] = s PROVE s = p[2]
        OBVIOUS
      <3>2. <<p[1], s>> \in Held(r) /\ <<p[1], s>>[1] = p[1] /\ <<p[1], s>>[2] = s
        BY <1>1, <3>1, EntryParts DEF Held
      <3> QED
        BY <3>2 DEF SessionInv, OneOne
    <2>3. InMap(s) => InMap(s)' \/ s = p[2]
      BY <1>2, <2>2 DEF InMap
    <2> QED
      BY <2>1, <2>3
  <1>9. Said(r)'
    <2>1. \A s \in made' : InMap(s)' \/ closed'[s] > 0
      BY <1>1, <1>8 DEF SessionInv, Said, TypeOK
    <2>2. entry'[r] \notin entries'[r]
      BY <1>1, NoneIsNothing DEF SessionInv, Said, TypeOK
    <2>3. \A id \in Ids : at'[id] = "remove" => closed'[item'[id]] > 0
      BY DEF SessionInv, Said
    <2>4. timer'[r] = "remove" => closed'[entry'[r][2]] > 0
      BY DEF SessionInv, Said
    <2> QED
      BY <2>1, <2>2, <2>3, <2>4 DEF SessionInv, Said
  <1>10. ASSUME NEW s \in Sessions PROVE LoopMay(s)' => LoopMay(s)
    <2>1. s # None
      BY NoneIsNothing
    <2> QED
      BY <1>2, <2>1 DEF LoopMay
  <1>11. OnceEach(r)'
    <2> SUFFICES ASSUME NEW s \in Sessions
                 PROVE  /\ mode = "Udp" => closed[s] <= 1 /\ (TimerMay(r, s)' => closed[s] = 0)
                        /\ mode = "Tcp" =>
                             /\ closed[s] <= 2 /\ (TimerMay(r, s)' => closed[s] <= 1)
                             /\ (LoopMay(s)' => closed[s] <= 1)
                             /\ TimerMay(r, s)' /\ LoopMay(s)' => closed[s] = 0
      BY DEF OnceEach
    <2> QED
      BY <1>10 DEF SessionInv, OnceEach
  <1> QED
    BY <1>5, <1>6, <1>7, <1>9, <1>11 DEF SessionInv

LEMMA SessionsByLoop ==
  ASSUME NEW r \in Rounds, SessionInv(r), TypeOK', NEW id \in Ids,
         ChannelActive(id) \/ FirstDatagram(id) \/ Data(id) \/ ChannelCloses(id) \/ Loop(id)
  PROVE  SessionInv(r)'
  <1> USE DEF loopVars, timerVars, historyVars
  <1>0. TypeOK
    BY DEF SessionInv
  <1>1. CASE ChannelActive(id)
    <2>1. /\ mode = "Tcp" /\ channel[id] = "new" /\ channel' = [channel EXCEPT ![id] = "open"]
          /\ NewSession(id) /\ UNCHANGED <<mode, timer[r], entries[r], entry[r], connected, closed>>
      BY <1>1 DEF ChannelActive
    <2>2. channel'[id] = "open" /\ \A i \in Ids : i # id => channel'[i] = channel[i]
      BY <1>0, <2>1 DEF TypeOK
    <2>3. \A p \in Held(r) : p[1] # id
      BY <2>1 DEF SessionInv, NoneBefore
    <2> QED
      BY <2>1, <2>2, <2>3, NewStep
  <1>2. CASE FirstDatagram(id)
    <2>1. /\ mode = "Udp" /\ channel' = channel /\ map_session[id] = None /\ at[id] = "idle"
          /\ NewSession(id) /\ UNCHANGED <<mode, timer[r], entries[r], entry[r], connected, closed>>
      BY <1>2 DEF FirstDatagram
    <2>2. item[id] = None
      BY <1>0, <2>1 DEF TypeOK
    <2>3. \A p \in Held(r) : p[1] # id
      <3>1. \A p \in Entries : p[2] # None
        BY EntryParts, NoneIsNothing
      <3> QED
        BY <2>1, <2>2, <3>1 DEF SessionInv, ListedIfUdp, Held
    <2> QED
      BY <2>1, <2>3, NewStep
  <1>3. CASE Data(id)
    <2>1. /\ map_session[id] \in Sessions /\ Goes(id, "read", map_session[id])
          /\ UNCHANGED <<mode, channel, map_session, timer[r], entries[r], entry[r], connected, closed, made>>
      BY <1>0, <1>3, InHands DEF Data
    <2>2. /\ at'[id] = "read" /\ item'[id] = map_session[id]
          /\ \A i \in Ids : i # id => at'[i] = at[i] /\ item'[i] = item[i]
      BY <1>0, <2>1, GoesType
    <2>3. Held(r)' \subseteq Held(r) /\ Removing(r)' = Removing(r)
      BY <2>1, <2>2, EntryParts DEF Held, Removing
    <2>4. LoopCloses'
      BY <2>1, <2>2 DEF SessionInv, LoopCloses
    <2>5. \A s \in Sessions : (TimerMay(r, s)' => TimerMay(r, s)) /\ (LoopMay(s)' => LoopMay(s))
      BY <2>1, <2>2 DEF TimerMay, LoopMay, InMap
    <2>6. entry'[r] \notin entries'[r] /\ connected' \subseteq made
      BY <2>1 DEF SessionInv, Said
    <2> QED
      BY <2>1, <2>2, <2>3, <2>4, <2>5, <2>6, QuietStep
  <1>4. CASE ChannelCloses(id)
    <2>1. /\ channel[id] = "open" /\ channel' = [channel EXCEPT ![id] = "closed"]
          /\ UNCHANGED <<mode, at, item, map_session, timer[r], entries[r], entry[r], connected, closed, made>>
      BY <1>4 DEF ChannelCloses
    <2>2. channel'[id] = "closed" /\ \A i \in Ids : i # id => channel'[i] = channel[i]
      BY <1>0, <2>1 DEF TypeOK
    <2>3. Held(r)' = Held(r) /\ Removing(r)' = Removing(r)
      BY <2>1 DEF Held, Removing
    <2>4. LoopCloses'
      BY <2>1, <2>2 DEF SessionInv, LoopCloses
    <2>5. \A s \in Sessions : (TimerMay(r, s)' => TimerMay(r, s)) /\ (LoopMay(s)' => LoopMay(s))
      BY <2>1, <2>2 DEF TimerMay, LoopMay, InMap
    <2>6. entry'[r] \notin entries'[r] /\ connected' \subseteq made
      BY <2>1 DEF SessionInv, Said
    <2> QED
      BY <2>1, <2>2, <2>3, <2>4, <2>5, <2>6, QuietStep
  <1>5. CASE OnNewSessionConnected(id) \/ OnNewDataReceived(id)
    <2>1. item[id] \in Sessions /\ <<id, item[id]>> \in Held(r)
      BY <1>0, <1>5, HeldParts DEF OnNewSessionConnected, OnNewDataReceived
    <2>2. /\ Goes(id, "read", item[id]) \/ Goes(id, "idle", None)
          /\ connected' \in {connected, connected \cup {item[id]}}
          /\ UNCHANGED <<mode, channel, map_session, timer[r], entries[r], entry[r], closed, made>>
      BY <1>5 DEF OnNewSessionConnected, OnNewDataReceived
    <2>3. /\ at'[id] \in {"read", "idle"} /\ item'[id] \in {item[id], None}
          /\ \A i \in Ids : i # id => at'[i] = at[i] /\ item'[i] = item[i]
      BY <1>0, <2>1, <2>2, GoesType
    <2>4. Held(r)' \subseteq Held(r) /\ Removing(r)' = Removing(r)
      BY <2>2, <2>3, EntryParts, NoneIsNothing DEF Held, Removing
    <2>5. LoopCloses'
      BY <2>2, <2>3 DEF SessionInv, LoopCloses
    <2>6. \A s \in Sessions : (TimerMay(r, s)' => TimerMay(r, s)) /\ (LoopMay(s)' => LoopMay(s))
      BY <2>2, <2>3 DEF TimerMay, LoopMay, InMap
    <2>7. entry'[r] \notin entries'[r] /\ connected' \subseteq made
      BY <2>1, <2>2, EntryParts DEF SessionInv, Said, HeldAreMade
    <2> QED
      BY <2>2, <2>3, <2>4, <2>5, <2>6, <2>7, QuietStep
  <1>6. CASE ChannelInactive(id)
    <2>1. /\ mode = "Tcp" /\ at[id] = "idle" /\ channel[id] = "closed"
          /\ channel' = [channel EXCEPT ![id] = "gone"]
          /\ UNCHANGED <<mode, map_session, timer[r], entries[r], entry[r], connected, closed, made>>
      BY <1>6 DEF ChannelInactive
    <2>2. channel'[id] = "gone" /\ \A i \in Ids : i # id => channel'[i] = channel[i]
      BY <1>0, <2>1 DEF TypeOK
    <2>3. \/ UNCHANGED <<at, item>>
          \/ map_session[id] \in Sessions /\ Goes(id, "close", map_session[id])
      BY <1>0, <1>6, InHands DEF ChannelInactive
    <2>4. /\ \A i \in Ids : i # id => at'[i] = at[i] /\ item'[i] = item[i]
          /\ \/ at'[id] = "idle" /\ item'[id] = item[id]
             \/ at'[id] = "close" /\ item'[id] = map_session[id]
      BY <1>0, <2>1, <2>3, GoesType
    <2>5. Held(r)' \subseteq Held(r) /\ Removing(r)' = Removing(r)
      BY <2>1, <2>4, EntryParts DEF Held, Removing
    <2>6. LoopCloses'
      BY <2>1, <2>2, <2>4 DEF SessionInv, LoopCloses
    <2>7. \A s \in Sessions : (TimerMay(r, s)' => TimerMay(r, s)) /\ (LoopMay(s)' => LoopMay(s))
      <3>1. \A s \in Sessions : TimerMay(r, s)' => TimerMay(r, s)
        BY <2>1 DEF TimerMay, InMap
      <3>2. \A s \in Sessions : LoopMay(s)' => LoopMay(s)
        BY <2>1, <2>2, <2>4 DEF LoopMay
      <3> QED
        BY <3>1, <3>2
    <2>8. entry'[r] \notin entries'[r] /\ connected' \subseteq made
      BY <2>1 DEF SessionInv, Said
    <2> QED
      BY <2>1, <2>2, <2>4, <2>5, <2>6, <2>7, <2>8, QuietStep
  <1>7. CASE OnSessionClosed(id)
    <2>0. PICK x \in Sessions : x = item[id]
      BY <1>0, <1>7, HeldParts DEF OnSessionClosed
    <2>1. /\ at[id] = "close" /\ closed' = [closed EXCEPT ![x] = @ + 1]
          /\ Goes(id, "remove", x)
          /\ UNCHANGED <<mode, channel, map_session, timer[r], entries[r], entry[r], connected, made>>
      BY <1>7, <2>0 DEF OnSessionClosed, Announced
    <2>2. x \in Sessions /\ <<id, x>> \in Held(r) /\ x \in made
      BY <1>0, <2>0, <2>1, HeldParts, EntryParts DEF SessionInv, HeldAreMade
    <2>3. /\ at'[id] = "remove" /\ item' = item
          /\ \A i \in Ids : i # id => at'[i] = at[i]
      <3>1. /\ at'[id] = "remove" /\ item'[id] = item[id]
            /\ \A i \in Ids : i # id => at'[i] = at[i]
        BY <1>0, <2>0, <2>1, <2>2, GoesType
      <3>2. item' = item
        BY <1>0, <2>0, <2>1 DEF Goes, TypeOK
      <3> QED
        BY <3>1, <3>2
    <2>4. mode = "Tcp" /\ channel[id] = "gone" /\ LoopCloses'
      BY <2>1, <2>3 DEF SessionInv, LoopCloses
    <2>5. \A s \in Sessions : (TimerMay(r, s)' => TimerMay(r, s)) /\ (LoopMay(s)' => LoopMay(s))
      BY <2>1, <2>3 DEF TimerMay, LoopMay, InMap
    <2>6. LoopMay(x)
      BY <2>0, <2>1 DEF LoopMay
    <2>7. ~LoopMay(x)'
      <3>1. \A i \in Ids : map_session[i] = x \/ item[i] = x => i = id
        <4>1. SUFFICES ASSUME NEW i \in Ids, map_session[i] = x \/ item[i] = x PROVE i = id
          OBVIOUS
        <4>2. <<i, x>> \in Held(r) /\ <<i, x>>[2] = <<id, x>>[2]
          BY <2>2, <4>1, EntryParts DEF Held
        <4> QED
          BY <2>2, <4>2 DEF SessionInv, OneOne
      <3> QED
        BY <2>1, <2>3, <2>4, <3>1 DEF LoopMay
    <2>8. \A i \in Ids : at'[i] = "remove" => at[i] = "remove" \/ item[i] = x
      BY <2>0, <2>3
    <2>9. /\ closed' = [closed EXCEPT ![x] = @ + 1] /\ x \in made
          /\ UNCHANGED <<mode, channel, map_session, item, entries[r], entry[r], connected, made>>
      BY <2>1, <2>2, <2>3
    <2>10. timer'[r] = "remove" => timer[r] = "remove" \/ entry[r][2] = x
      BY <2>1
    <2> QED
      BY <2>4, <2>5, <2>6, <2>7, <2>8, <2>9, <2>10, ClosingStep
  <1>8. CASE TryRemove(id)
    <2> DEFINE p == <<id, item[id]>>
    <2>1. /\ at[id] = "remove" /\ map_session' = [map_session EXCEPT ![id] = None]
          /\ Goes(id, "idle", None)
          /\ UNCHANGED <<mode, channel, timer[r], entries[r], entry[r], connected, closed, made>>
      BY <1>8 DEF TryRemove
    <2>2. p \in Held(r) /\ p[1] = id /\ p[2] = item[id] /\ closed[item[id]] > 0 /\ mode = "Tcp"
      BY <1>0, <2>1, HeldParts DEF SessionInv, Said, LoopCloses
    <2>3. /\ at'[id] = "idle" /\ item'[id] = None
          /\ \A i \in Ids : i # id => at'[i] = at[i] /\ item'[i] = item[i]
      BY <1>0, <2>1, GoesType
    <2>4. \A s \in Sessions : TimerMay(r, s)' => TimerMay(r, s)
      <3>1. \A i \in Ids : map_session'[i] = map_session[i] \/ map_session'[i] = None
        BY <1>0, <2>1 DEF TypeOK
      <3>2. \A s \in Sessions : InMap(s)' => InMap(s)
        BY <3>1, NoneIsNothing DEF InMap
      <3> QED
        BY <2>1, <3>2 DEF TimerMay
    <2>5. \A e \in entries[r] \cup Removing(r)' : e[1] # id \/ mode = "Tcp"
      BY <2>2
    <2> HIDE DEF p
    <2> QED
      BY <2>1, <2>2, <2>3, <2>4, <2>5, RemovingStep
  <1>9. CASE OnSessionClosedThrows(id)
    <2>1. /\ at[id] = "close" /\ Goes(id, "idle", None)
          /\ UNCHANGED <<mode, channel, map_session, timer[r], entries[r], entry[r], connected, closed, made>>
      BY <1>9 DEF OnSessionClosedThrows
    <2>2. /\ at'[id] = "idle" /\ item'[id] = None
          /\ \A i \in Ids : i # id => at'[i] = at[i] /\ item'[i] = item[i]
      BY <1>0, <2>1, GoesType
    <2>3. Held(r)' \subseteq Held(r) /\ Removing(r)' = Removing(r)
      BY <2>1, <2>2, EntryParts, NoneIsNothing DEF Held, Removing
    <2>4. LoopCloses'
      BY <2>1, <2>2 DEF SessionInv, LoopCloses
    <2>5. \A s \in Sessions : (TimerMay(r, s)' => TimerMay(r, s)) /\ (LoopMay(s)' => LoopMay(s))
      BY <2>1, <2>2 DEF TimerMay, LoopMay, InMap
    <2>6. entry'[r] \notin entries'[r] /\ connected' \subseteq made
      BY <2>1 DEF SessionInv, Said
    <2> QED
      BY <2>1, <2>2, <2>3, <2>4, <2>5, <2>6, QuietStep
  <1> QED
    BY <1>1, <1>2, <1>3, <1>4, <1>5, <1>6, <1>7, <1>8, <1>9 DEF Loop

\* A step of the round r itself.
LEMMA SessionsByRound ==
  ASSUME NEW r \in Rounds, SessionInv(r), TypeOK', StartRound(r) \/ Round(r)
  PROVE  SessionInv(r)'
  <1> USE DEF loopVars, timerVars, historyVars
  <1>0. /\ TypeOK /\ entry[r] \notin entries[r] /\ connected \subseteq made
        /\ timer \in [Rounds -> {"wait", "each", "close", "remove"}]
        /\ entries \in [Rounds -> SUBSET Entries] /\ entry \in [Rounds -> Entries \cup {None}]
    BY DEF SessionInv, Said, TypeOK
  <1>1. CASE StartRound(r)
    <2>1. /\ timer[r] = "wait" /\ timer'[r] = "each" /\ entries'[r] = Copied
          /\ UNCHANGED <<mode, channel, map_session, at, item, entry[r], connected, closed, made>>
      BY <1>0, <1>1 DEF StartRound, RoundGoes
    <2>2. Removing(r)' = {} /\ entry[r] = None
      BY <1>0, <2>1 DEF Removing, TypeOK
    <2>3. \A e \in Copied : e \in Entries /\ map_session[e[1]] = e[2]
      BY <1>0, InHands DEF Copied, Entries
    <2>4. Held(r)' \subseteq Held(r) /\ entry'[r] \notin entries'[r]
      BY <2>1, <2>2, <2>3, NoneIsNothing DEF Held
    <2>5. LoopCloses'
      BY <2>1 DEF SessionInv, LoopCloses
    <2>6. \A s \in Sessions : (TimerMay(r, s)' => TimerMay(r, s)) /\ (LoopMay(s)' => LoopMay(s))
      <3>1. \A e \in entries'[r] : InMap(e[2])
        BY <2>1, <2>3, EntryParts DEF InMap
      <3>2. \A s \in Sessions : TimerMay(r, s)' => TimerMay(r, s)
        BY <2>1, <3>1 DEF TimerMay, InMap
      <3> QED
        BY <2>1, <3>2 DEF LoopMay
    <2> QED
      BY <1>0, <2>1, <2>2, <2>3, <2>4, <2>5, <2>6, QuietStep
  <1>2. CASE EndRound(r) \/ TimerThrows(r) \/ (\E e \in Entries : NotDue(r, e))
    <2>1. /\ entries'[r] \subseteq entries[r] /\ entry'[r] \in {entry[r], None}
          /\ timer'[r] = "wait" \/ (timer[r] = "each" /\ timer'[r] = "each")
          /\ UNCHANGED <<mode, channel, map_session, at, item, connected, closed, made>>
      BY <1>0, <1>2 DEF EndRound, TimerThrows, Leaves, RoundGoes, NotDue, Treated
    <2>2. Removing(r)' \subseteq Removing(r) /\ Held(r)' \subseteq Held(r)
      BY <2>1 DEF Removing, Held
    <2>3. LoopCloses' /\ entry'[r] \notin entries'[r]
      <3>1. entries[r] \subseteq Entries
        BY <1>0
      <3> QED
        BY <1>0, <2>1, <3>1, NoneIsNothing DEF SessionInv, LoopCloses
    <2>4. \A s \in Sessions : (TimerMay(r, s)' => TimerMay(r, s)) /\ (LoopMay(s)' => LoopMay(s))
      <3>1. timer[r] # "remove"
        BY <1>2 DEF EndRound, TimerThrows, NotDue, Treated
      <3> QED
        BY <2>1, <3>1 DEF TimerMay, LoopMay, InMap
    <2> QED
      BY <1>0, <2>1, <2>2, <2>3, <2>4, QuietStep
  <1>3. ASSUME NEW e \in Entries, CloseAsync(r, e) PROVE SessionInv(r)'
    <2>1. /\ channel[e[1]] = "open" /\ channel' = [channel EXCEPT ![e[1]] = "closed"]
          /\ entries'[r] \subseteq entries[r]
          /\ UNCHANGED <<mode, map_session, at, item, timer[r], entry[r], connected, closed, made>>
      BY <1>0, <1>3 DEF CloseAsync, Treated
    <2>2. Removing(r)' = Removing(r) /\ Held(r)' \subseteq Held(r)
      BY <2>1 DEF Removing, Held
    <2>3. \A id \in Ids : channel'[id] = channel[id] \/ (channel[id] = "open" /\ channel'[id] = "closed")
      BY <1>0, <2>1 DEF TypeOK
    <2>4. LoopCloses'
      BY <2>1, <2>3 DEF SessionInv, LoopCloses
    <2>5. \A s \in Sessions : (TimerMay(r, s)' => TimerMay(r, s)) /\ (LoopMay(s)' => LoopMay(s))
      BY <2>1, <2>3 DEF TimerMay, LoopMay, InMap
    <2>6. \A id \in Ids : channel'[id] = "new" => channel[id] = "new"
      BY <2>3
    <2> QED
      BY <1>0, <2>1, <2>2, <2>4, <2>5, <2>6, QuietStep
  <1>4. ASSUME NEW e \in Entries, RemoveEntry(r, e) PROVE SessionInv(r)'
    <2>1. /\ timer[r] = "each" /\ e \in entries[r] /\ entries'[r] = entries[r] \ {e}
          /\ entry'[r] = e /\ timer'[r] = "close"
          /\ UNCHANGED <<mode, channel, map_session, at, item, connected, closed, made>>
      BY <1>0, <1>4 DEF RemoveEntry, Treated, RoundGoes
    <2>2. Removing(r)' \subseteq entries[r]
      BY <2>1 DEF Removing
    <2>3. Held(r)' \subseteq Held(r)
      BY <2>1, <2>2 DEF Held
    <2>4. LoopCloses'
      BY <2>1 DEF SessionInv, LoopCloses
    <2>5. \A s \in Sessions : (TimerMay(r, s)' => TimerMay(r, s)) /\ (LoopMay(s)' => LoopMay(s))
      BY <2>1 DEF TimerMay, LoopMay, InMap
    <2> QED
      BY <1>0, <2>1, <2>2, <2>3, <2>4, <2>5, QuietStep
  <1>5. CASE TimerCloses(r)
    <2>1. PICK x \in Sessions : x = entry[r][2]
      BY <1>0, <1>5, InHands DEF TimerCloses
    <2>2. /\ timer[r] = "close" /\ timer'[r] = "remove" /\ closed' = [closed EXCEPT ![x] = @ + 1]
          /\ UNCHANGED <<mode, channel, map_session, at, item, entries[r], entry[r], connected, made>>
      BY <1>0, <1>5, <2>1 DEF TimerCloses, Announced, RoundGoes
    <2>3. entry[r] \in Held(r) /\ x \in made
      BY <1>0, <2>1, <2>2, HeldParts DEF SessionInv, HeldAreMade
    <2>4. LoopCloses'
      BY <2>2 DEF SessionInv, LoopCloses
    <2>5. TimerMay(r, x) /\ \A s \in Sessions : LoopMay(s)' => LoopMay(s)
      BY <2>1, <2>2 DEF TimerMay, LoopMay
    <2>6. \A e \in entries[r] : e[2] # x
      <3>1. SUFFICES ASSUME NEW e \in entries[r], e[2] = x PROVE FALSE
        OBVIOUS
      <3>2. e \in Held(r) /\ e[1] = entry[r][1] /\ e[2] = entry[r][2]
        BY <1>0, <2>1, <2>3, <3>1, HeldParts DEF SessionInv, OneOne
      <3>3. e = entry[r]
        BY <2>3, <3>2, EntryParts DEF Held
      <3> QED
        BY <1>0, <3>3
    <2>7. ~TimerMay(r, x)'
      BY <2>1, <2>2, <2>6 DEF TimerMay
    <2>8. \A s \in Sessions : TimerMay(r, s)' => TimerMay(r, s)
      BY <2>1, <2>2 DEF TimerMay, InMap
    <2> QED
      BY <2>1, <2>2, <2>3, <2>4, <2>5, <2>7, <2>8, ClosingStep
  <1>6. CASE TimerRemoves(r)
    <2>1. PICK p \in Held(r) : p = entry[r]
      BY <1>0, <1>6, HeldParts DEF TimerRemoves
    <2>2. /\ timer[r] = "remove" /\ timer'[r] = "each" /\ entry'[r] = None
          /\ map_session' = [map_session EXCEPT ![p[1]] = None]
          /\ UNCHANGED <<mode, channel, at, item, entries[r], connected, closed, made>>
      BY <1>0, <1>6, <2>1 DEF TimerRemoves, RoundGoes
    <2>3. closed[p[2]] > 0 /\ p[1] \in Ids /\ p[2] \in Sessions
      BY <2>1, <2>2, EntryParts DEF SessionInv, Said, Held
    <2>4. Removing(r)' = {}
      BY <2>2 DEF Removing
    <2>5. \A e \in entries[r] : e[1] # p[1]
      <3>1. SUFFICES ASSUME NEW e \in entries[r], e[1] = p[1] PROVE FALSE
        OBVIOUS
      <3>2. e \in Held(r) /\ e[2] = p[2]
        BY <1>0, <3>1, HeldParts DEF SessionInv, OneOne
      <3>3. e = p
        BY <3>1, <3>2, EntryParts DEF Held
      <3> QED
        BY <1>0, <2>1, <3>3
    <2>6. ASSUME NEW s \in Sessions PROVE InMap(s)' => InMap(s) /\ s # p[2]
      <3>1. SUFFICES ASSUME NEW i \in Ids, map_session'[i] = s PROVE InMap(s) /\ s # p[2]
        BY DEF InMap
      <3>2. i # p[1] /\ map_session[i] = s
        BY <1>0, <2>2, <2>3, <3>1, NoneIsNothing DEF TypeOK
      <3>3. <<i, s>> \in Held(r) /\ <<i, s>>[1] = i /\ <<i, s>>[2] = s
        BY <3>2, EntryParts DEF Held
      <3> QED
        BY <3>2, <3>3 DEF SessionInv, OneOne, InMap
    <2>7. \A s \in Sessions : TimerMay(r, s)' => TimerMay(r, s)
      BY <2>1, <2>2, <2>6 DEF TimerMay
    <2> QED
      BY <2>2, <2>3, <2>4, <2>5, <2>7, RemovingStep
  <1> QED
    BY <1>1, <1>2, <1>3, <1>4, <1>5, <1>6 DEF Round

\* Only this round runs.
Alone(r) == \A q \in Rounds \ {r} : timer[q] = "wait"

SessionsInv == TypeOK /\ (overlapped \/ \E r \in Rounds : Alone(r) /\ SessionInv(r))

\* Rounds that wait hold nothing, so that the invariant may speak of any of them.
LEMMA AnyOfTheIdle ==
  ASSUME NEW r \in Rounds, NEW q \in Rounds, SessionInv(r), timer[r] = "wait", timer[q] = "wait"
  PROVE  SessionInv(q)
  <1>1. /\ TypeOK /\ entries[r] = {} /\ entries[q] = {} /\ entry[r] = None /\ entry[q] = None
    BY DEF SessionInv, TypeOK
  <1>2. Removing(r) = Removing(q)
    BY <1>1 DEF Removing
  <1>3. Held(r) = Held(q)
    BY <1>1, <1>2 DEF Held
  <1>4. \A s \in Sessions : TimerMay(r, s) <=> TimerMay(q, s)
    BY <1>1 DEF TimerMay
  <1>5. OneOne(q) /\ HeldAreMade(q) /\ ListedIfUdp(q) /\ NoneBefore(q)
    BY <1>1, <1>2, <1>3 DEF SessionInv, OneOne, HeldAreMade, ListedIfUdp, NoneBefore
  <1>6. Said(q)
    BY <1>1 DEF SessionInv, Said
  <1>7. OnceEach(q)
    BY <1>4 DEF SessionInv, OnceEach
  <1> QED
    BY <1>1, <1>5, <1>6, <1>7 DEF SessionInv

LEMMA SessionsNext == SessionsInv /\ [Next]_vars => SessionsInv'
  <1> SUFFICES ASSUME SessionsInv, [Next]_vars PROVE SessionsInv'
    OBVIOUS
  <1>1. TypeOK /\ TypeOK'
    BY SessionTypes DEF SessionsInv
  <1>2. overlapped => overlapped'
    <2> USE DEF loopVars, timerVars, historyVars
    <2>1. ASSUME NEW id \in Ids,
                 ChannelActive(id) \/ FirstDatagram(id) \/ Data(id) \/ ChannelCloses(id) \/ Loop(id)
          PROVE  overlapped' = overlapped
      BY <2>1
      DEF ChannelActive, FirstDatagram, Data, ChannelCloses, Loop, OnNewSessionConnected,
          OnNewDataReceived, ChannelInactive, OnSessionClosed, OnSessionClosedThrows, TryRemove
    <2>2. ASSUME NEW r \in Rounds, Round(r) PROVE overlapped' = overlapped
      BY <2>2
      DEF Round, EndRound, TimerCloses, TimerThrows, TimerRemoves, NotDue, CloseAsync, RemoveEntry
    <2>3. Elapsed => (overlapped => overlapped')
      BY DEF Elapsed, StartRound
    <2>4. (\E s \in Sessions : GrowsOld(s)) \/ CloseServer \/ UNCHANGED vars => overlapped' = overlapped
      BY DEF GrowsOld, CloseServer, vars
    <2> QED
      BY <2>1, <2>2, <2>3, <2>4 DEF Next
  <1> SUFFICES ASSUME ~overlapped' PROVE \E r \in Rounds : Alone(r)' /\ SessionInv(r)'
    BY <1>1 DEF SessionsInv
  <1>3. PICK r \in Rounds : Alone(r) /\ SessionInv(r)
    BY <1>2 DEF SessionsInv
  <1>4. CASE UNCHANGED vars
    <2>1. UNCHANGED <<mode, channel, map_session, at, item, timer, entries, entry, connected, closed, made>>
      BY <1>4 DEF vars, loopVars, timerVars, historyVars
    <2>2. SessionInv(r)'
      BY <1>1, <1>3, <2>1
      DEF SessionInv, OneOne, HeldAreMade, ListedIfUdp, NoneBefore, LoopCloses, Said, OnceEach,
          Held, Removing, InMap, TimerMay, LoopMay
    <2> QED
      BY <1>3, <2>1, <2>2 DEF Alone
  <1>5. ASSUME NEW id \in Ids,
               ChannelActive(id) \/ FirstDatagram(id) \/ Data(id) \/ ChannelCloses(id) \/ Loop(id)
        PROVE  Alone(r)' /\ SessionInv(r)'
    <2>1. timer' = timer
      BY <1>5
      DEF ChannelActive, FirstDatagram, Data, ChannelCloses, Loop, OnNewSessionConnected,
          OnNewDataReceived, ChannelInactive, OnSessionClosed, OnSessionClosedThrows, TryRemove, timerVars
    <2> QED
      BY <1>1, <1>3, <1>5, <2>1, SessionsByLoop DEF Alone
  <1>6. CASE (\E s \in Sessions : GrowsOld(s)) \/ CloseServer
    <2>1. UNCHANGED <<mode, channel, map_session, at, item, timer, entries, entry, connected, closed, made>>
      BY <1>6 DEF GrowsOld, CloseServer, loopVars, timerVars, historyVars
    <2>2. SessionInv(r)'
      BY <1>1, <1>3, <2>1
      DEF SessionInv, OneOne, HeldAreMade, ListedIfUdp, NoneBefore, LoopCloses, Said, OnceEach,
          Held, Removing, InMap, TimerMay, LoopMay
    <2> QED
      BY <1>3, <2>1, <2>2 DEF Alone
  <1>7. ASSUME NEW q \in Rounds, StartRound(q) \/ Round(q)
        PROVE  \E x \in Rounds : Alone(x)' /\ SessionInv(x)'
    <2>1. Alone(q) /\ SessionInv(q)
      <3>1. CASE q = r
        BY <1>3, <3>1
      <3>2. CASE q # r
        <4>1. timer[q] = "wait"
          BY <1>3, <3>2 DEF Alone
        <4>2. StartRound(q)
          BY <1>7, <4>1
          DEF Round, EndRound, TimerCloses, TimerThrows, TimerRemoves, NotDue, CloseAsync, RemoveEntry, Treated
        <4>3. timer[r] = "wait"
          BY <3>2, <4>2 DEF StartRound
        <4> QED
          BY <1>3, <4>1, <4>3, AnyOfTheIdle DEF Alone
      <3> QED
        BY <3>1, <3>2
    <2>2. \A x \in Rounds \ {q} : timer'[x] = timer[x]
      <3>1. timer' = timer \/ \E point \in {"wait", "each", "close", "remove"} : timer' = [timer EXCEPT ![q] = point]
        BY <1>7
        DEF StartRound, Round, EndRound, TimerCloses, TimerThrows, TimerRemoves, Leaves, RoundGoes,
            NotDue, CloseAsync, RemoveEntry
      <3> QED
        BY <1>1, <3>1 DEF TypeOK
    <2> QED
      BY <1>1, <1>7, <2>1, <2>2, SessionsByRound DEF Alone
  <1> QED
    BY <1>3, <1>4, <1>5, <1>6, <1>7 DEF Next, Elapsed

LEMMA SessionsInvAtFirst == Init => SessionsInv
  <1> SUFFICES ASSUME Init PROVE SessionsInv
    OBVIOUS
  <1>1. PICK r \in Rounds : TRUE
    BY RoundsAssumption
  <1>2. Alone(r) /\ SessionInv(r)
    BY SessionsAtFirst DEF Init, Alone
  <1> QED
    BY <1>2, TypesAtFirst DEF SessionsInv

LEMMA InvariantSaysGoodbye == SessionsInv => Goodbyes
  <1> SUFFICES ASSUME SessionsInv, ~overlapped PROVE Goodbyes
    BY DEF Goodbyes
  <1>1. PICK r \in Rounds : SessionInv(r)
    BY DEF SessionsInv
  <1>2. TypeOK /\ mode \in {"Udp", "Tcp"}
    BY <1>1 DEF SessionInv, TypeOK
  <1> QED
    BY <1>1, <1>2 DEF SessionInv, Said, OnceEach, Goodbyes

\* Whatever the event loops and a round of the timer do to the same session, with what they
\* have read of it before, and whenever OnSessionClosed throws: as long as rounds do not
\* overlap, one that was announced does not leave the map in silence, and its end is
\* announced once (UDP) or at most twice (TCP).
THEOREM NoSessionLeavesInSilence == Spec => []Goodbyes
  BY SessionsInvAtFirst, SessionsNext, InvariantSaysGoodbye, PTL DEF Spec

-----------------------------------------------------------------------------
(* DaemonThread.                                                             *)

NoVictim == idle \in [Tokens -> Nat] /\ victim = NoToken

LEMMA OlderIsNat ==
  ASSUME Second \in Nat \ {0}, SocketTimeOutMS \in Nat, NEW d \in Nat
  PROVE  Older(d) \in Nat
  BY DEF Older

LEMMA MillisecondsAreBelowASecond ==
  ASSUME Second \in Nat \ {0}, NEW d \in Nat
  PROVE  Milliseconds(d) < Second
  BY DEF Milliseconds

\* With a timeout of a second or more (app.config: 300 s, the default: 60 s) no step of
\* the daemon closes a connection, however long the connection has been idle.
THEOREM DaemonClosesNothing ==
  ASSUME Second \in Nat \ {0}, SocketTimeOutMS \in Nat, SocketTimeOutMS >= Second,
         NoToken \notin Tokens
  PROVE  DaemonSpec => DaemonIsInert
<1>1. DaemonInit => NoVictim
  BY DEF DaemonInit, NoVictim
<1>2. NoVictim /\ [DaemonNext]_daemonVars => NoVictim'
  <2> SUFFICES ASSUME NoVictim, [DaemonNext]_daemonVars PROVE NoVictim' OBVIOUS
  <2>1. CASE Connections
    BY <2>1 DEF Connections, NoVictim
  <2>2. CASE Tick
    <3>1. idle' = [t \in Tokens |-> Older(idle[t])] /\ victim' = victim
      BY <2>2 DEF Tick
    <3>2. \A t \in Tokens : Older(idle[t]) \in Nat
      BY OlderIsNat DEF NoVictim
    <3> QED BY <3>1, <3>2 DEF NoVictim
  <2>3. CASE CopyList
    BY <2>3 DEF CopyList, NoVictim
  <2>4. ASSUME NEW t \in Tokens, Examine(t) PROVE NoVictim'
    <3>1. ~(Milliseconds(idle[t]) > SocketTimeOutMS)
      <4>1. idle[t] \in Nat BY DEF NoVictim
      <4>2. Milliseconds(idle[t]) < Second BY <4>1, MillisecondsAreBelowASecond
      <4>3. Milliseconds(idle[t]) \in Nat BY <4>1 DEF Milliseconds
      <4> QED BY <4>2, <4>3
    <3> QED BY <2>4, <3>1 DEF Examine, NoVictim
  <2>5. CASE CloseClientSocket
    BY <2>5 DEF CloseClientSocket, NoVictim
  <2>6. ASSUME NEW t \in Tokens, Completed(t) PROVE NoVictim'
    BY <2>6 DEF Completed, NoVictim
  <2>7. CASE UNCHANGED daemonVars
    BY <2>7 DEF daemonVars, NoVictim
  <2> QED BY <2>1, <2>2, <2>3, <2>4, <2>5, <2>6, <2>7 DEF DaemonNext, Daemon
<1>3. NoVictim /\ [DaemonNext]_daemonVars => [Daemon => UNCHANGED state]_daemonVars
  <2> SUFFICES ASSUME NoVictim, Daemon PROVE UNCHANGED state OBVIOUS
  <2> QED BY DEF Daemon, CopyList, Examine, CloseClientSocket, NoVictim, pool
<1> QED BY <1>1, <1>2, <1>3, PTL DEF DaemonSpec, DaemonIsInert

====================================================================================
