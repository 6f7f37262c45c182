---------------------------- MODULE ConnectionPool ----------------------------
(***************************************************************************)
(* What the connections of NETIOCPSvr look like to whoever counts them: a  *)
(* fixed set of tokens, each of which is free or serves one connection,    *)
(* and one permit for every token.  A permit is taken before a connection  *)
(* is accepted and given back when it ends, before its token is free       *)
(* again.  Callbacks, elements, the online list and the threads that may   *)
(* all want to close one connection are not here: IocpConnections has      *)
(* them, and implements this specification.                                *)
(***************************************************************************)
EXTENDS Integers

CONSTANTS
  Tokens,
  numConnections  \* permits: one for every token

VARIABLES
  permits,   \* free permits
  acceptor,  \* "waiting" for a permit, "accepting" a connection with it, "binding"
             \* it to a token, or "stopped" by an exception
  state      \* of each token

vars == <<permits, acceptor, state>>

Init ==
  /\ permits = numConnections
  /\ acceptor = "waiting"
  /\ state = [t \in Tokens |-> "free"]

Becomes(t, from, to) == state[t] = from /\ state' = [state EXCEPT ![t] = to]

TakePermit ==
  /\ acceptor = "waiting" /\ acceptor' = "accepting"
  /\ permits > 0 /\ permits' = permits - 1
  /\ UNCHANGED state

TakeToken(t) ==
  /\ acceptor = "accepting" /\ acceptor' = "binding"
  /\ Becomes(t, "free", "taken")
  /\ UNCHANGED permits

Stop ==
  /\ acceptor = "accepting" /\ acceptor' = "stopped"
  /\ UNCHANGED <<permits, state>>

Serve(t) ==
  /\ acceptor = "binding" /\ acceptor' = "waiting"
  /\ Becomes(t, "taken", "serving")
  /\ UNCHANGED permits

\* Only one of those who want to close a connection gets this far.
End(t) == Becomes(t, "serving", "ended") /\ UNCHANGED <<permits, acceptor>>

\* Of the permits only those that connections had are given back.
GivePermit(t) ==
  /\ Becomes(t, "ended", "returning")
  /\ permits' = permits + 1
  /\ UNCHANGED acceptor

GiveToken(t) == Becomes(t, "returning", "free") /\ UNCHANGED <<permits, acceptor>>

Next ==
  \/ TakePermit \/ Stop
  \/ \E t \in Tokens : TakeToken(t) \/ Serve(t) \/ End(t) \/ GivePermit(t) \/ GiveToken(t)

Spec == Init /\ [][Next]_vars
=============================================================================
