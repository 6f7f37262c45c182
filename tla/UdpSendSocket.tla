------------------------------ MODULE UdpSendSocket ------------------------------
(***************************************************************************)
(* UdpSendSocket of UdpServerFrame: Send pops a SocketAsyncEventArgs from  *)
(* a pool, stores it in the field socketArgs, sets it up and hands it to   *)
(* SendToAsync, each time by way of the field; its completion pushes it    *)
(* back.  UdpServer calls Send on its receive callback, one call at a      *)
(* time; UdpSend calls it for the clients of a WCF service, any number at  *)
(* once.                                                                   *)
(*                                                                         *)
(* A call of Send is named after its message.  Of the framework, an        *)
(* SocketAsyncEventArgs in use refuses SetBuffer and SendToAsync but not   *)
(* the setter of RemoteEndPoint; it is no longer in use when its           *)
(* completion is called.                                                   *)
(*                                                                         *)
(* A definition named X_Bug is X with a plausible mistake in it; no action *)
(* uses it, it serves to see that a property notices the mistake.  Names   *)
(* are such that the module can be extended together with QueueServer.     *)
(***************************************************************************)
EXTENDS Integers, FiniteSets, Sequences

CONSTANTS
  Args,      \* the SocketAsyncEventArgs that Init makes: numClient of them
  Messages,  \* bound: contents, each sent by one call
  NullPeer,  \* messages whose remoteEndPoint is null
  NullData,  \* messages whose content is null
  Null       \* null

ASSUME ArgsAssumption == IsFiniteSet(Args) /\ Args # {} /\ Null \notin Args
ASSUME MessagesAssumption == IsFiniteSet(Messages) /\ Null \notin Messages

VARIABLES
  pool,        \* m_pool, its top first
  socketArgs,  \* the field
  popped,      \* what Pop has returned to each call that has not stored it
  endpoint,    \* RemoteEndPoint of each args: the message whose peer it is
  buffer,      \* the message each args holds, or Null for the bytes Init has filled it with
  inUse,       \* args with an operation in progress
  completing,  \* number of completions of each args that have not pushed it
  at,          \* where each call of Send is
  wire,        \* history: messages transmitted, and the message to whose peer
  lost,        \* history: calls that ended without giving an args back
  concurrent   \* history: two calls of Send ran at the same time

argsVars    == <<endpoint, buffer, inUse>>
sendHistory == <<wire, lost, concurrent>>
socketVars  == <<pool, socketArgs, popped, argsVars, completing, at, sendHistory>>

SendPoints == {"new", "store", "endpoint", "buffer", "test", "send", "sent", "returned", "thrown"}

SocketTypeOK ==
  /\ pool \in Seq(Args)
  /\ socketArgs \in Args
  /\ popped \in [Messages -> Args \cup {Null}]
  /\ endpoint \in [Args -> Messages \cup {Null}]
  /\ buffer \in [Args -> Messages \cup {Null}]
  /\ inUse \subseteq Args
  /\ completing \in [Args -> Nat]
  /\ at \in [Messages -> SendPoints]
  /\ wire \subseteq (Messages \cup {Null}) \X Messages
  /\ lost \in Nat /\ concurrent \in BOOLEAN
  /\ \A m \in Messages : at[m] = "store" <=> popped[m] # Null

\* Init leaves the field at the args it has made last.
SocketInit ==
  /\ pool \in {s \in [1..Cardinality(Args) -> Args] : {s[n] : n \in DOMAIN s} = Args}
  /\ socketArgs = pool[1]
  /\ popped = [m \in Messages |-> Null]
  /\ endpoint = [a \in Args |-> Null] /\ buffer = [a \in Args |-> Null]
  /\ inUse = {} /\ completing = [a \in Args |-> 0]
  /\ at = [m \in Messages |-> "new"]
  /\ wire = {} /\ lost = 0 /\ concurrent = FALSE

Sending(m) == at[m] \notin {"new", "returned", "thrown"}
At(m, point) == at' = [at EXCEPT ![m] = point]
Push(a) == pool' = <<a>> \o pool

(***************************************************************************)
(* Send.                                                                   *)
(***************************************************************************)
Overlaps == concurrent' = (concurrent \/ \E n \in Messages : Sending(n))

Pop(m) ==
  /\ at[m] = "new"
  /\ pool # <<>>
  /\ popped' = [popped EXCEPT ![m] = Head(pool)]
  /\ pool' = Tail(pool)
  /\ At(m, "store")
  /\ Overlaps
  /\ UNCHANGED <<socketArgs, argsVars, completing, wire, lost>>

\* Stack.Pop throws; UdpSend answers false, on a receive callback nobody catches it.
PopEmpty(m) ==
  /\ at[m] = "new"
  /\ pool = <<>>
  /\ At(m, "thrown")
  /\ UNCHANGED <<pool, socketArgs, popped, argsVars, completing, sendHistory>>

StoreField(m) ==
  /\ at[m] = "store"
  /\ socketArgs' = popped[m]
  /\ popped' = [popped EXCEPT ![m] = Null]
  /\ At(m, "endpoint")
  /\ UNCHANGED <<pool, argsVars, completing, sendHistory>>

Peer(m) == IF m \in NullPeer THEN Null ELSE m

\* Only an args that has none gets an end point.
RemoteEndPoint_Bug(m) ==
  /\ at[m] = "endpoint"
  /\ endpoint' = [endpoint EXCEPT ![socketArgs] = IF @ = Null THEN Peer(m) ELSE @]
  /\ At(m, "buffer")
  /\ UNCHANGED <<pool, socketArgs, popped, buffer, inUse, completing, sendHistory>>

RemoteEndPoint(m) ==
  /\ at[m] = "endpoint"
  /\ endpoint' = [endpoint EXCEPT ![socketArgs] = Peer(m)]
  /\ At(m, "buffer")
  /\ UNCHANGED <<pool, socketArgs, popped, buffer, inUse, completing, sendHistory>>

Throws(m) ==
  /\ At(m, "thrown")
  /\ lost' = lost + 1

\* content.Length of null throws, and so does SetBuffer of an args in use.
SetBuffer(m) ==
  /\ at[m] = "buffer"
  /\ IF m \in NullData \/ socketArgs \in inUse
     THEN Throws(m) /\ UNCHANGED buffer
     ELSE /\ buffer' = [buffer EXCEPT ![socketArgs] = m]
          /\ At(m, "test")
          /\ UNCHANGED lost
  /\ UNCHANGED <<pool, socketArgs, popped, endpoint, inUse, completing, wire, concurrent>>

TestEndPoint(m) ==
  /\ at[m] = "test"
  /\ IF endpoint[socketArgs] = Null
     THEN At(m, "returned") /\ lost' = lost + 1
     ELSE At(m, "send") /\ UNCHANGED lost
  /\ UNCHANGED <<pool, socketArgs, popped, argsVars, completing, wire, concurrent>>

Transmits(a) == wire' = wire \cup {<<buffer[a], endpoint[a]>>}

\* Another call may have set the end point to null since the test: SendToAsync throws.
SendToAsync(m) ==
  /\ at[m] = "send"
  /\ IF socketArgs \in inUse \/ endpoint[socketArgs] = Null
     THEN Throws(m) /\ UNCHANGED <<inUse, wire>>
     ELSE /\ Transmits(socketArgs)
          /\ \/ inUse' = inUse \cup {socketArgs} /\ At(m, "returned")
             \/ At(m, "sent") /\ UNCHANGED inUse
          /\ UNCHANGED lost
  /\ UNCHANGED <<pool, socketArgs, popped, endpoint, buffer, completing, concurrent>>

\* A send that has completed at once is taken for one whose completion is to come.
ProcessSent_Bug(m) ==
  /\ at[m] = "sent"
  /\ At(m, "returned")
  /\ UNCHANGED <<pool, socketArgs, popped, argsVars, completing, sendHistory>>

\* SendToAsync has returned false.
ProcessSent(m) ==
  /\ at[m] = "sent"
  /\ Push(socketArgs)
  /\ At(m, "returned")
  /\ UNCHANGED <<socketArgs, popped, argsVars, completing, sendHistory>>

(***************************************************************************)
(* Completions.                                                            *)
(***************************************************************************)
Complete(a) ==
  /\ a \in inUse
  /\ inUse' = inUse \ {a}
  /\ completing' = [completing EXCEPT ![a] = @ + 1]
  /\ UNCHANGED <<pool, socketArgs, popped, endpoint, buffer, at, sendHistory>>

\* What is pushed is the field, not the args of the event.
socketArgs_Completed_Bug(a) ==
  /\ completing[a] > 0
  /\ completing' = [completing EXCEPT ![a] = @ - 1]
  /\ Push(socketArgs)
  /\ UNCHANGED <<socketArgs, popped, argsVars, at, sendHistory>>

socketArgs_Completed(a) ==
  /\ completing[a] > 0
  /\ completing' = [completing EXCEPT ![a] = @ - 1]
  /\ Push(a)
  /\ UNCHANGED <<socketArgs, popped, argsVars, at, sendHistory>>

Send(m) ==
  \/ StoreField(m) \/ RemoteEndPoint(m) \/ SetBuffer(m) \/ TestEndPoint(m)
  \/ SendToAsync(m) \/ ProcessSent(m)

SocketNext ==
  \/ \E m \in Messages : Pop(m) \/ PopEmpty(m) \/ Send(m)
  \/ \E a \in Args : Complete(a) \/ socketArgs_Completed(a)

SocketSpec == SocketInit /\ [][SocketNext]_socketVars

(***************************************************************************)
(* Properties.                                                             *)
(***************************************************************************)
Callers == {m \in Messages : Sending(m)}

\* As many for each args as have not pushed it.
Completions == UNION {{a} \X (1..completing[a]) : a \in Args}

\* Calls that overlap may lose one args and push another twice; the number of those in
\* the pool, with callers and in flight and of those lost stays numClient for all that,
\* so the pool neither overflows nor lets more sends begin than there are args.
Counted ==
  Len(pool) + Cardinality(Callers) + Cardinality(inUse) + Cardinality(Completions) + lost
    = Cardinality(Args)

\* As long as no calls have overlapped, which is so in UdpServer, an args is in one
\* place at a time: once in the pool, with the caller, in flight or completing; and a
\* caller has an args that is nowhere else.
InPool(a) == Cardinality({n \in DOMAIN pool : pool[n] = a})
Holder(a) == IF \E m \in Callers : a = (IF at[m] = "store" THEN popped[m] ELSE socketArgs)
             THEN 1 ELSE 0
Flying(a) == IF a \in inUse THEN 1 ELSE 0
OneOwner == ~concurrent => \A a \in Args : InPool(a) + Holder(a) + Flying(a) + completing[a] <= 1

\* As long as no calls have overlapped, a message goes to its own peer, however often
\* its args has been used for others.
OwnPeer == ~concurrent => \A s \in wire : s[1] = s[2]
================================================================================
