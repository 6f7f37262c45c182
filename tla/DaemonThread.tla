------------------------------ MODULE DaemonThread ------------------------------
(***************************************************************************)
(* The thread that is to close idle connections of NETIOCPSvr, composed    *)
(* with the connections as ConnectionPool describes them (IocpConnections  *)
(* implements that).  Once a round it copies the online list, and for each *)
(* token of the copy compares the time since ActiveDateTime with           *)
(* SocketTimeOutMS and, if it is longer, takes lock(token) and calls       *)
(* CloseClientSocket.  The comparison is outside the lock, and the token   *)
(* may serve another connection by then.                                   *)
(*                                                                         *)
(* Time passes in ticks.  TimeSpan.Milliseconds is the component below one *)
(* second, TotalMilliseconds the whole; idle times are followed up to      *)
(* SocketTimeOutMS and then modulo a second, so that time never ends.      *)
(***************************************************************************)
EXTENDS Integers

CONSTANTS
  Tokens,
  NoToken,
  numConnections,
  Second,           \* ticks in a second: 1000 where a tick is a millisecond
  SocketTimeOutMS,  \* in ticks
  Pause             \* ticks between two rounds

VARIABLES
  permits, acceptor, state,  \* of the connections
  idle,    \* ticks since ActiveDateTime of each token
  pause,   \* ticks until the next round
  array,   \* tokens of userTokenArray that have not been examined
  victim   \* the token about to be closed

pool == <<permits, acceptor, state>>
daemonVars == <<pool, idle, pause, array, victim>>

Pool == INSTANCE ConnectionPool

DaemonInit ==
  /\ Pool!Init
  /\ idle = [t \in Tokens |-> SocketTimeOutMS + 1]  \* ActiveDateTime is DateTime.MinValue
  /\ pause = 0 /\ array = {} /\ victim = NoToken

\* Accept does not set ActiveDateTime; whatever completes on the socket does.
Connections == Pool!Next /\ UNCHANGED <<idle, pause, array, victim>>

Completed(t) ==
  /\ state[t] # "free"
  /\ idle' = [idle EXCEPT ![t] = 0]
  /\ UNCHANGED <<pool, pause, array, victim>>

Older(d) == IF d > SocketTimeOutMS + Second THEN d + 1 - Second ELSE d + 1
Tick ==
  /\ idle' = [t \in Tokens |-> Older(idle[t])]
  /\ pause' = IF pause > 0 THEN pause - 1 ELSE 0
  /\ UNCHANGED <<pool, array, victim>>

\* CopyList: who serves is on the list, and who is on the way to or from it may be.
CopyList ==
  /\ pause = 0 /\ array = {} /\ victim = NoToken
  /\ \E others \in SUBSET {t \in Tokens : state[t] # "serving"} :
       array' = {t \in Tokens : state[t] = "serving"} \cup others
  /\ pause' = Pause
  /\ UNCHANGED <<pool, idle, victim>>

Milliseconds(d) == d % Second

Examine(t) ==
  /\ t \in array /\ victim = NoToken
  /\ array' = array \ {t}
  /\ victim' = IF Milliseconds(idle[t]) > SocketTimeOutMS THEN t ELSE NoToken
  /\ UNCHANGED <<pool, idle, pause>>

CloseClientSocket ==
  /\ victim # NoToken
  /\ IF state[victim] = "serving" THEN Pool!End(victim) ELSE UNCHANGED pool
  /\ victim' = NoToken
  /\ UNCHANGED <<idle, pause, array>>

Daemon == CopyList \/ (\E t \in Tokens : Examine(t)) \/ CloseClientSocket

DaemonNext == Connections \/ Tick \/ Daemon \/ \E t \in Tokens : Completed(t)

DaemonSpec == DaemonInit /\ [][DaemonNext]_daemonVars

\* Time passes and the daemon thread runs; a client need never do anything again.
FairDaemonSpec == DaemonSpec /\ WF_daemonVars(Tick) /\ WF_daemonVars(Daemon)

(***************************************************************************)
(* Properties.                                                             *)
(***************************************************************************)

\* "Disconnect the socket on timeout" (DaemonThread.cs:33): a connection that stays idle
\* beyond SocketTimeOutMS is closed.
Idle(t) == state[t] = "serving" /\ idle[t] > SocketTimeOutMS
IdleIsClosed == \A t \in Tokens : Idle(t) ~> ~Idle(t)

\* No step of the daemon ends a connection.
DaemonIsInert == [][Daemon => UNCHANGED state]_daemonVars
================================================================================
