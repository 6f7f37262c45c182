--------------------------- MODULE IocpConnections ---------------------------
(***************************************************************************)
(* The connection life cycle of NETIOCPSvr (AsyncSocketServer and the pool *)
(* and list of AsyncSocketUserToken): the accept loop behind a semaphore,  *)
(* the fixed pool of user tokens, the list of online tokens, the I/O       *)
(* completion callbacks and CloseClientSocket.                             *)
(*                                                                         *)
(* Threads: the accept loop (one AcceptAsync outstanding), one thread-pool *)
(* thread per completion callback, and any other thread that closes a      *)
(* connection (DaemonThread, CheckFileInUse of another connection).        *)
(* Callbacks and closers run under lock(userToken); the accept loop does   *)
(* not take that lock.  CloseClientSocket is five steps because the accept *)
(* loop can run between them; closing[t] # "idle" is also the fact that    *)
(* lock(t) is held by the closer.  The second of them is Close of the      *)
(* protocol object, which waits for a list that others may have locked and *)
(* flushes a file: it may throw, and nothing says that it ends (FileUse    *)
(* has the deadlock).                                                      *)
(*                                                                         *)
(* A synchronous completion (willRaiseEvent = false) is the schedule in    *)
(* which the callback runs before any other step.                          *)
(*                                                                         *)
(* A definition named X_Bug is X with a plausible mistake in it; no action *)
(* uses it, it serves to see that a property notices the mistake.          *)
(***************************************************************************)
EXTENDS Integers, FiniteSets

CONSTANTS
  Tokens,        \* the AsyncSocketUserToken objects made by Init()
  NoToken,       \* null
  MaxCallbacks   \* bound: callbacks of one token and kind waiting for its lock

ASSUME TokensAssumption == IsFiniteSet(Tokens) /\ Tokens # {} /\ NoToken \notin Tokens
ASSUME MaxCallbacksAssumption == MaxCallbacks \in Nat \ {0}

Ops == {"Receive", "Send"}     \* ReceiveEventArgs and SendEventArgs of a token
Eras == {"current", "old"}     \* of the socket the token holds, of one it has closed
numConnections == Cardinality(Tokens)

VARIABLES
  sem,      \* count of m_maxNumberAcceptedClients
  pool,     \* times each token is on the stack m_asyncSocketUserTokenPool
  online,   \* times each token is in m_asyncSocketUserTokenList
  sock,     \* ConnectSocket # null
  element,  \* AsyncSocketInvokeElement # null
  closing,  \* where the lock holder is in CloseClientSocket
  lost,     \* tokens whose CloseClientSocket has ended in an exception
  acc,      \* where the accept loop is
  hand,     \* userToken of ProcessAccept
  op,       \* asynchronous operation in progress on each SocketAsyncEventArgs:
            \*   none, on the current socket, or on one already closed
  cb        \* callbacks waiting for lock(t): of the current socket, of closed ones

ioVars == <<op, cb>>
vars == <<sem, pool, online, sock, element, closing, lost, acc, hand, op, cb>>

AccStates   == {"wait", "accept", "pop", "add", "bind", "post", "dead"}
CloseStates == {"idle", "unset", "shut", "released", "pushed"}

TypeOK ==
  /\ sem \in Nat
  /\ pool \in [Tokens -> Nat]
  /\ online \in [Tokens -> Nat]
  /\ sock \in [Tokens -> BOOLEAN]
  /\ element \in [Tokens -> BOOLEAN]
  /\ closing \in [Tokens -> CloseStates]
  /\ lost \subseteq Tokens
  /\ acc \in AccStates
  /\ hand \in IF acc \in {"add", "bind", "post"} THEN Tokens ELSE {NoToken}
  /\ op \in [Tokens -> [Ops -> Eras \cup {"none"}]]
  /\ cb \in [Tokens -> [Ops -> [Eras -> Nat]]]

Init ==
  /\ sem = numConnections
  /\ pool = [t \in Tokens |-> 1]
  /\ online = [t \in Tokens |-> 0]
  /\ sock = [t \in Tokens |-> FALSE]
  /\ element = [t \in Tokens |-> FALSE]
  /\ closing = [t \in Tokens |-> "idle"]
  /\ lost = {}
  /\ acc = "wait"
  /\ hand = NoToken
  /\ op = [t \in Tokens |-> [o \in Ops |-> "none"]]
  /\ cb = [t \in Tokens |-> [o \in Ops |-> [e \in Eras |-> 0]]]

(***************************************************************************)
(* The accept loop: StartAccept and ProcessAccept.                         *)
(***************************************************************************)

\* WaitOne(), then AcceptAsync.
WaitOne ==
  /\ acc = "wait"
  /\ sem > 0
  /\ sem' = sem - 1
  /\ acc' = "accept"
  /\ UNCHANGED <<pool, online, sock, element, closing, lost, hand, ioVars>>

\* A connection arrives: the two end points can be read and logged.
Accepted ==
  /\ acc = "accept"
  /\ acc' = "pop"
  /\ UNCHANGED <<sem, pool, online, sock, element, closing, lost, hand, ioVars>>

\* The accept completes with an error: AcceptSocket's end points throw, the
\* exception is logged in AcceptEventArg_Completed and StartAccept is not called.
AcceptFailed ==
  /\ acc = "accept"
  /\ acc' = "dead"
  /\ UNCHANGED <<sem, pool, online, sock, element, closing, lost, hand, ioVars>>

\* The top of the stack is read and not taken off.
PopToken_Bug ==
  /\ acc = "pop"
  /\ \E t \in Tokens : pool[t] > 0 /\ hand' = t
  /\ acc' = "add"
  /\ UNCHANGED <<sem, pool, online, sock, element, closing, lost, ioVars>>

PopToken ==
  /\ acc = "pop"
  /\ \E t \in Tokens :
       /\ pool[t] > 0
       /\ pool' = [pool EXCEPT ![t] = @ - 1]
       /\ hand' = t
  /\ acc' = "add"
  /\ UNCHANGED <<sem, online, sock, element, closing, lost, ioVars>>

\* Stack.Pop() on an empty stack throws; again StartAccept is not called.
PopEmpty ==
  /\ acc = "pop"
  /\ \A t \in Tokens : pool[t] = 0
  /\ acc' = "dead"
  /\ UNCHANGED <<sem, pool, online, sock, element, closing, lost, hand, ioVars>>

AddOnline ==
  /\ acc = "add"
  /\ online' = [online EXCEPT ![hand] = @ + 1]
  /\ acc' = "bind"
  /\ UNCHANGED <<sem, pool, sock, element, closing, lost, hand, ioVars>>

\* userToken.ConnectSocket = AcceptSocket; the setter drops the old element.
BindSocket ==
  /\ acc = "bind"
  /\ sock' = [sock EXCEPT ![hand] = TRUE]
  /\ element' = [element EXCEPT ![hand] = FALSE]
  /\ acc' = "post"
  /\ UNCHANGED <<sem, pool, online, closing, lost, hand, ioVars>>

\* XxxAsync on an args object: it is refused (InvalidOperationException, caught
\* and logged by every caller) while an earlier operation is still in progress.
Posted(f, t, o) == [f EXCEPT ![t][o] = IF @ = "none" THEN "current" ELSE @]

\* The first ReceiveAsync (a null ConnectSocket or an args object in use only
\* throws into the catch), then StartAccept again.
PostFirstReceive ==
  /\ acc = "post"
  /\ op' = IF sock[hand] THEN Posted(op, hand, "Receive") ELSE op
  /\ acc' = "wait"
  /\ hand' = NoToken
  /\ UNCHANGED <<sem, pool, online, sock, element, closing, lost, cb>>

(***************************************************************************)
(* CloseClientSocket, always entered with lock(t) free.                    *)
(***************************************************************************)

\* Without the null test of lines 358 and 359.
BeginClose_Bug(t, left) ==
  /\ sock' = [sock EXCEPT ![t] = FALSE]
  /\ closing' = [closing EXCEPT ![t] = "unset"]
  /\ UNCHANGED ioVars

\* Null test, Shutdown, Close, and the setter of ConnectSocket has set null.  What is in
\* progress, and the callbacks still waiting (left), belong to a closed socket from now on.
BeginClose(t, left) ==
  /\ sock[t]
  /\ sock' = [sock EXCEPT ![t] = FALSE]
  /\ closing' = [closing EXCEPT ![t] = "unset"]
  /\ op' = [op EXCEPT ![t] = [o \in Ops |-> IF op[t][o] = "none" THEN "none" ELSE "old"]]
  /\ cb' = [cb EXCEPT ![t] = [o \in Ops |-> [e \in Eras |->
                IF e = "old" THEN left[o]["old"] + left[o]["current"] ELSE 0]]]

\* The rest of the setter: Close of the element, if there is one, then it is dropped.
CloseElement(t) ==
  /\ closing[t] = "unset"
  /\ element' = [element EXCEPT ![t] = FALSE]
  /\ closing' = [closing EXCEPT ![t] = "shut"]
  /\ UNCHANGED <<sem, pool, online, sock, lost, acc, hand, ioVars>>

\* Close throws: the rest of CloseClientSocket is not executed.
ElementThrows(t) ==
  /\ closing[t] = "unset" /\ element[t]
  /\ closing' = [closing EXCEPT ![t] = "idle"]
  /\ lost' = lost \cup {t}
  /\ UNCHANGED <<sem, pool, online, sock, element, acc, hand, ioVars>>

\* The permit is not given back.
Release_Bug(t) ==
  /\ closing[t] = "shut"
  /\ closing' = [closing EXCEPT ![t] = "released"]
  /\ UNCHANGED <<sem, pool, online, sock, element, lost, acc, hand, ioVars>>

\* m_maxNumberAcceptedClients.Release(), which throws at its maximum.
Release(t) ==
  /\ closing[t] = "shut"
  /\ IF sem < numConnections
     THEN /\ sem' = sem + 1
          /\ closing' = [closing EXCEPT ![t] = "released"]
          /\ UNCHANGED lost
     ELSE /\ closing' = [closing EXCEPT ![t] = "idle"]
          /\ lost' = lost \cup {t}
          /\ UNCHANGED sem
  /\ UNCHANGED <<pool, online, sock, element, acc, hand, ioVars>>

\* The token is not given back.
PushToken_Bug(t) ==
  /\ closing[t] = "released"
  /\ closing' = [closing EXCEPT ![t] = "pushed"]
  /\ UNCHANGED <<sem, pool, online, sock, element, lost, acc, hand, ioVars>>

PushToken(t) ==
  /\ closing[t] = "released"
  /\ pool' = [pool EXCEPT ![t] = @ + 1]
  /\ closing' = [closing EXCEPT ![t] = "pushed"]
  /\ UNCHANGED <<sem, online, sock, element, lost, acc, hand, ioVars>>

\* List.Remove takes out one occurrence, if there is one; then lock(t) is left.
RemoveOnline(t) ==
  /\ closing[t] = "pushed"
  /\ online' = [online EXCEPT ![t] = IF @ = 0 THEN 0 ELSE @ - 1]
  /\ closing' = [closing EXCEPT ![t] = "idle"]
  /\ UNCHANGED <<sem, pool, sock, element, lost, acc, hand, ioVars>>

\* The closer does not take lock(t).
CloseByOther_Bug(t) ==
  /\ BeginClose(t, cb[t])
  /\ UNCHANGED <<sem, pool, online, element, lost, acc, hand>>

\* The daemon thread, or CheckFileInUse of another connection, takes lock(t).
CloseByOther(t) ==
  /\ closing[t] = "idle"
  /\ BeginClose(t, cb[t])
  /\ UNCHANGED <<sem, pool, online, element, lost, acc, hand>>

(***************************************************************************)
(* I/O completion: IO_Completed, ProcessReceive, ProcessSend.              *)
(***************************************************************************)

\* The operation ends (data, error or abort): the args object is free again and
\* IO_Completed runs on a pool thread, up to lock(userToken).
Complete(t, o) ==
  /\ op[t][o] # "none"
  /\ cb[t][o]["current"] + cb[t][o]["old"] < MaxCallbacks
  /\ op' = [op EXCEPT ![t][o] = "none"]
  /\ cb' = [cb EXCEPT ![t][o][op[t][o]] = @ + 1]
  /\ UNCHANGED <<sem, pool, online, sock, element, closing, lost, acc, hand>>

\* A callback gets lock(t); nothing tells it of which era it is.
Left(t, o, e) == [cb[t] EXCEPT ![o][e] = @ - 1]
Callback(t, o, e) == closing[t] = "idle" /\ cb[t][o][e] > 0

\* ProcessReceive finds no socket, ProcessSend no element; or the handler throws
\* and IO_Completed only logs it, so that no receive is posted again.
HandleNothing(t, o, e) ==
  /\ Callback(t, o, e)
  /\ cb' = [cb EXCEPT ![t] = Left(t, o, e)]
  /\ UNCHANGED <<sem, pool, online, sock, element, closing, lost, acc, hand, op>>

\* ProcessReceive with data: an element is bound if there is none, it may answer
\* (SendAsync, if nothing is being sent), and the next receive is posted.
HandleData(t, e) ==
  /\ Callback(t, "Receive", e)
  /\ sock[t]
  /\ element' = [element EXCEPT ![t] = TRUE]
  /\ \E answered \in {op, Posted(op, t, "Send")} : op' = Posted(answered, t, "Receive")
  /\ cb' = [cb EXCEPT ![t] = Left(t, "Receive", e)]
  /\ UNCHANGED <<sem, pool, online, sock, closing, lost, acc, hand>>

\* ProcessSend with success: SendCompleted sends the next packet, if any; both
\* ways its result is true and the element is dropped.  Without a socket, after a
\* close that has thrown, nothing is sent and a packet that waits keeps the element.
HandleSent(t, e) ==
  /\ Callback(t, "Send", e)
  /\ element[t]
  /\ element' = [element EXCEPT ![t] = FALSE]
  /\ op' \in IF sock[t] THEN {op, Posted(op, t, "Send")} ELSE {op}
  /\ cb' = [cb EXCEPT ![t] = Left(t, "Send", e)]
  /\ UNCHANGED <<sem, pool, online, sock, closing, lost, acc, hand>>

\* No data, an error, an unknown protocol flag, a command that fails: close.
HandleClose(t, o, e) ==
  /\ Callback(t, o, e)
  /\ o = "Send" => element[t]
  /\ BeginClose(t, Left(t, o, e))
  /\ UNCHANGED <<sem, pool, online, element, lost, acc, hand>>

Accepting == WaitOne \/ Accepted \/ AcceptFailed \/ PopToken \/ PopEmpty
             \/ AddOnline \/ BindSocket \/ PostFirstReceive
Closing(t) ==
  CloseElement(t) \/ ElementThrows(t) \/ Release(t) \/ PushToken(t) \/ RemoveOnline(t)
Handling(t, o, e) ==
  \/ HandleNothing(t, o, e)
  \/ o = "Receive" /\ HandleData(t, e)
  \/ o = "Send" /\ HandleSent(t, e)
  \/ HandleClose(t, o, e)

Next ==
  \/ Accepting
  \/ \E t \in Tokens :
       \/ Closing(t)
       \/ CloseByOther(t)
       \/ \E o \in Ops : Complete(t, o) \/ (\E e \in Eras : Handling(t, o, e))

\* The closing thread and the accept loop keep running, but for Close of an element; a
\* connection attempt, a completion or a close by another thread need not happen.
Fairness ==
  /\ \A t \in Tokens :
       WF_vars((~element[t] /\ CloseElement(t)) \/ Release(t) \/ PushToken(t) \/ RemoveOnline(t))
  /\ WF_vars(PopToken \/ PopEmpty \/ AddOnline \/ BindSocket \/ PostFirstReceive)

Spec == Init /\ [][Next]_vars
FairSpec == Spec /\ Fairness

(***************************************************************************)
(* Properties.                                                             *)
(***************************************************************************)

\* The connection is closed and has not given anything back, if it ever does.
Ended(t) == closing[t] \in {"unset", "shut"} \/ t \in lost
HasPermit == {t \in Tokens : sock[t] \/ Ended(t)}
AcceptorHasPermit == acc \notin {"wait", "post"}

\* Every permit of m_maxNumberAcceptedClients is at one place: free, with the
\* accept loop, or with a connection from BindSocket to Release, which a Close that
\* throws or waits for ever never reaches.  So Release never throws
\* SemaphoreFullException and no close frees two connections.
PermitsBalance ==
  sem + Cardinality(HasPermit) + (IF AcceptorHasPermit THEN 1 ELSE 0) = numConnections

\* A token is on the stack once or not at all, and never while it carries a
\* connection, is on its way back, has been lost on it, or is in the accept loop's hand.
InHand(t) == acc \in {"add", "bind"} /\ hand = t
PoolPartition ==
  \A t \in Tokens :
    /\ pool[t] = IF sock[t] \/ Ended(t) \/ closing[t] = "released" \/ InHand(t) THEN 0 ELSE 1
    /\ InHand(t) => ~sock[t] /\ ~Ended(t) /\ closing[t] # "released"
    /\ sock[t] => ~Ended(t) /\ closing[t] # "released"
    /\ t \in lost => closing[t] = "idle"

\* The online list, from which the daemon works, holds each connected token
\* exactly once, plus once for a close that has not reached Remove, or never will,
\* although a token can be popped and added again before the close of its last
\* connection has removed it.
OnlineExact ==
  \A t \in Tokens :
    online[t] =   (IF sock[t] \/ (acc = "bind" /\ hand = t) THEN 1 ELSE 0)
                + (IF closing[t] # "idle" \/ t \in lost THEN 1 ELSE 0)

\* A connection without an element, or whose element's Close has returned, gives its
\* token back: no other closer, late completion or full semaphore takes it away.  (Where
\* Close throws, or waits for ever for UploadSocketProtocolMgr, nothing is promised.)
ClosedTokenReturns ==
  \A t \in Tokens : closing[t] = "shut" \/ (closing[t] = "unset" /\ ~element[t]) ~> pool[t] > 0

\* What whoever counts connections sees: permits, the acceptor, and for each token
\* whether it is free, serves a connection, or is on its way to or from one.
TokenState(t) ==
  IF sock[t] THEN "serving"
  ELSE IF Ended(t) THEN "ended"
  ELSE IF closing[t] = "released" THEN "returning"
  ELSE IF InHand(t) THEN "taken" ELSE "free"
Acceptor ==
  CASE acc \in {"wait", "post"} -> "waiting"
    [] acc \in {"accept", "pop"} -> "accepting"
    [] acc \in {"add", "bind"} -> "binding"
    [] acc = "dead" -> "stopped"

Abstract == INSTANCE ConnectionPool WITH
  permits <- sem, acceptor <- Acceptor, state <- [t \in Tokens |-> TokenState(t)]

\* The accept loop, the callbacks, the closers and the daemon implement a plain pool of
\* connections: a permit and a token go to one connection at a time, the end of which,
\* whoever brings it about, gives each of them back once at most.
ImplementsPool == Abstract!Spec

\* Does not hold, and no run checks it: IO_Completed is called "when a send or receive
\* request on the socket has completed" (AsyncSocketServer.cs:195), so the completion of
\* an operation of a closed socket does not close the connection that uses the token now.
OldCallbackIsInert ==
  [][\A t \in Tokens, o \in Ops : HandleClose(t, o, "old") => sock'[t]]_vars
=============================================================================
