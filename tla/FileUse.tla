-------------------------------- MODULE FileUse --------------------------------
(***************************************************************************)
(* How the upload connections of NETIOCPSvr share files: DoUpload takes a  *)
(* file over from the connection that has it open.  CheckFileInUse looks   *)
(* for it in UploadSocketProtocolMgr, the list of all upload elements, and *)
(* closes it.                                                              *)
(*                                                                         *)
(* The callback of a receive holds lock(userToken) of its connection from  *)
(* beginning to end.  In it the constructor, Close and CheckFileInUse lock *)
(* UploadSocketProtocolMgr, and CheckFileInUse also locks the other token. *)
(* Monitors are reentrant.  A step is what happens between two places      *)
(* where a callback can wait or another one can interfere.                 *)
(*                                                                         *)
(* FileStream opens a file for reading and writing only when nobody has it *)
(* open, and throws if somebody has.  IsFileInUse tries with an open of    *)
(* its own.  Downloads and other programs have files open, too, and a disk *)
(* can be full: both may fail although no upload is in the way.  No file   *)
(* is deleted.  ProcessSend drops the element when a response has been     *)
(* sent (RequestPipeline); completions of a closed connection are in       *)
(* IocpConnections.                                                        *)
(*                                                                         *)
(* A definition named X_Bug is X with a plausible mistake in it; no action *)
(* uses it, it serves to see that a property notices the mistake.          *)
(***************************************************************************)
EXTENDS Integers, Sequences, FiniteSets, SequencesExt

CONSTANTS
  Tokens,       \* user tokens, one for each connection
  Files,
  MaxElements,  \* bound: UploadSocketProtocol objects made
  MaxSends,     \* bound: completions of sends pending on a connection
  None          \* null

ASSUME NoneAssumption == None \notin Tokens \cup Files \cup Nat
ASSUME BoundsAssumption == MaxElements \in Nat /\ MaxSends \in Nat

Elements == 1..MaxElements

VARIABLES
  conn,      \* "up" is ConnectSocket # null; "down" is null and not in the pool (yet); "free" is in the pool
  element,   \* AsyncSocketInvokeElement
  waiting,   \* a receive is posted, or its callback runs
  sends,     \* completions of sends to come
  at,        \* where the thread is that works for the token and holds its lock
  this,      \* the element it works for
  fileName,  \* the local fileName of DoUpload
  index,     \* i of CheckFileInUse
  closed,    \* its result is false
  victim,    \* the token it closes, whose lock it holds
  mgr,       \* token whose thread has locked UploadSocketProtocolMgr in CheckFileInUse
  list,      \* its m_list
  made,      \* elements made so far
  token,     \* AsyncSocketUserToken of each element
  name,      \* m_fileName of each element
  stream,    \* file that m_fileStream has open
  exists     \* files on the disk

connVars == <<conn, element, waiting, sends>>
callVars == <<this, fileName, index, closed, victim>>
elemVars == <<made, token, name, stream>>
vars == <<connVars, at, callVars, mgr, list, elemVars, exists>>

\* Places of CloseClientSocket, with the token's setter and Close of the element.
Closing == {"close", "clear", "shut", "unlist", "unbind"}
Places == {"idle", "build", "command", "unname", "check", "probe", "lock", "scan", "wait",
           "open", "create", "respond"} \cup Closing

TypeOK ==
  /\ conn \in [Tokens -> {"free", "up", "down"}]
  /\ element \in [Tokens -> Elements \cup {None}]
  /\ waiting \in [Tokens -> BOOLEAN]
  /\ sends \in [Tokens -> Nat]
  /\ at \in [Tokens -> Places]
  /\ this \in [Tokens -> Elements \cup {None}]
  /\ fileName \in [Tokens -> Files \cup {None}]
  /\ index \in [Tokens -> Nat] /\ closed \in [Tokens -> BOOLEAN]
  /\ victim \in [Tokens -> Tokens \cup {None}]
  /\ mgr \in Tokens \cup {None}
  /\ list \in Seq(Elements) /\ IsInjective(list)
  /\ made \in 0..MaxElements
  /\ token \in [Elements -> Tokens \cup {None}]
  /\ name \in [Elements -> Files \cup {None}]
  /\ stream \in [Elements -> Files \cup {None}]
  /\ exists \subseteq Files

Init ==
  /\ conn = [t \in Tokens |-> "free"]
  /\ element = [t \in Tokens |-> None]
  /\ waiting = [t \in Tokens |-> FALSE]
  /\ sends = [t \in Tokens |-> 0]
  /\ at = [t \in Tokens |-> "idle"]
  /\ this = [t \in Tokens |-> None]
  /\ fileName = [t \in Tokens |-> None]
  /\ index = [t \in Tokens |-> 0] /\ closed = [t \in Tokens |-> FALSE]
  /\ victim = [t \in Tokens |-> None]
  /\ mgr = None /\ list = <<>>
  /\ made = 0
  /\ token = [e \in Elements |-> None]
  /\ name = [e \in Elements |-> None]
  /\ stream = [e \in Elements |-> None]
  /\ exists \in SUBSET Files

\* A FileStream of an upload has f open, or a probe of IsFileInUse has.
InUse(f) ==
  \/ \E e \in Elements : stream[e] = f
  \/ \E t \in Tokens : at[t] = "probe" /\ fileName[t] = f

\* Nobody has locked token u.
Unlocked(u) == at[u] = "idle" /\ \A t \in Tokens : victim[t] # u

\* The thread of t goes to p, and with what it works on.
Goto(t, p) == at' = [at EXCEPT ![t] = p]
Return(t) ==
  /\ Goto(t, "idle")
  /\ this' = [this EXCEPT ![t] = None]
  /\ fileName' = [fileName EXCEPT ![t] = None]
  /\ victim' = [victim EXCEPT ![t] = None]

\* It goes to CloseClientSocket for its own connection.
GoClose(t) == Goto(t, "close") /\ victim' = [victim EXCEPT ![t] = t]

\* An exception leaves everything; IO_Completed logs it, and no receive is posted.
Throw(t) ==
  /\ Return(t)
  /\ waiting' = [waiting EXCEPT ![t] = FALSE]
  /\ mgr' = IF mgr = t THEN None ELSE mgr
  /\ UNCHANGED <<index, closed>>

(***************************************************************************)
(* Connections.                                                            *)
(***************************************************************************)

\* BindSocket takes no lock: the last callback of the token may still run.
Connect(t) ==
  /\ conn[t] = "free"
  /\ conn' = [conn EXCEPT ![t] = "up"]
  /\ element' = [element EXCEPT ![t] = None]
  /\ waiting' = [waiting EXCEPT ![t] = TRUE]
  /\ UNCHANGED <<sends, at, callVars, mgr, list, elemVars, exists>>

\* ProcessSend, with the token locked.
SendCompleted(t) ==
  /\ Unlocked(t)
  /\ sends[t] > 0
  /\ sends' = [sends EXCEPT ![t] = @ - 1]
  /\ element' = [element EXCEPT ![t] = None]
  /\ UNCHANGED <<conn, waiting, at, callVars, mgr, list, elemVars, exists>>

\* The client has closed the connection, a send has failed, or it has been idle too long.
Disconnected(t) ==
  /\ Unlocked(t) /\ conn[t] = "up"
  /\ GoClose(t)
  /\ UNCHANGED <<connVars, this, fileName, index, closed, mgr, list, elemVars, exists>>

(***************************************************************************)
(* CloseClientSocket of the victim's connection.  ConnectSocket's setter   *)
(* has Close of the element called between its two assignments.            *)
(***************************************************************************)

\* CheckFileInUse goes on with the loop; a callback that closes its own connection ends.
CloseEnds(t) ==
  IF mgr = t
  THEN /\ Goto(t, "scan")
       /\ index' = [index EXCEPT ![t] = @ + 1]
       /\ closed' = [closed EXCEPT ![t] = TRUE]
       /\ victim' = [victim EXCEPT ![t] = None]
       /\ UNCHANGED <<this, fileName>>
  ELSE Return(t) /\ UNCHANGED <<index, closed>>

CloseClientSocket(t) ==
  /\ at[t] = "close"
  /\ LET u == victim[t] IN
     IF conn[u] = "up"
     THEN /\ conn' = [conn EXCEPT ![u] = "down"]
          /\ waiting' = [waiting EXCEPT ![u] = FALSE]
          /\ sends' = [sends EXCEPT ![u] = 0]
          /\ Goto(t, IF element[u] = None THEN "unbind" ELSE "clear")
          /\ UNCHANGED callVars
     ELSE CloseEnds(t) /\ UNCHANGED <<conn, waiting, sends>>
  /\ UNCHANGED <<element, mgr, list, elemVars, exists>>

CloseClears(t) ==
  /\ at[t] = "clear"
  /\ name' = [name EXCEPT ![element[victim[t]]] = None]
  /\ Goto(t, "shut")
  /\ UNCHANGED <<connVars, callVars, mgr, list, made, token, stream, exists>>

CloseStream(t) ==
  /\ at[t] = "shut"
  /\ stream' = [stream EXCEPT ![element[victim[t]]] = None]
  /\ Goto(t, "unlist")
  /\ UNCHANGED <<connVars, callVars, mgr, list, made, token, name, exists>>

\* What was written cannot be flushed: the file is closed, and the token never comes back.
CloseThrows(t) ==
  /\ at[t] = "shut"
  /\ stream[element[victim[t]]] # None
  /\ stream' = [stream EXCEPT ![element[victim[t]]] = None]
  /\ Throw(t)
  /\ UNCHANGED <<conn, element, sends, list, made, token, name, exists>>

\* The list's Monitor is reentrant.
CloseUnlists(t) ==
  /\ at[t] = "unlist"
  /\ mgr \in {None, t}
  /\ list' = RemoveFirst(list, element[victim[t]])
  /\ Goto(t, "unbind")
  /\ UNCHANGED <<connVars, callVars, mgr, elemVars, exists>>

Unbind_Bug(t) ==   \* the setter forgets the element
  /\ at[t] = "unbind"
  /\ conn' = [conn EXCEPT ![victim[t]] = "free"]
  /\ CloseEnds(t)
  /\ UNCHANGED <<element, waiting, sends, mgr, list, elemVars, exists>>

\* The setter's end; then the token is pushed to the pool.
Unbind(t) ==
  /\ at[t] = "unbind"
  /\ element' = [element EXCEPT ![victim[t]] = None]
  /\ conn' = [conn EXCEPT ![victim[t]] = "free"]
  /\ CloseEnds(t)
  /\ UNCHANGED <<waiting, sends, mgr, list, elemVars, exists>>

Close(t) ==
  \/ CloseClientSocket(t) \/ CloseClears(t) \/ CloseStream(t) \/ CloseThrows(t)
  \/ CloseUnlists(t) \/ Unbind(t)

(***************************************************************************)
(* The callback of a receive.                                              *)
(***************************************************************************)
ReceiveBytes(t) ==
  /\ Unlocked(t) /\ conn[t] = "up" /\ waiting[t]
  /\ sends[t] < MaxSends
  /\ IF element[t] # None
     THEN Goto(t, "command") /\ this' = [this EXCEPT ![t] = element[t]] /\ UNCHANGED <<made, token>>
     ELSE /\ made < MaxElements
          /\ Goto(t, "build")
          /\ made' = made + 1
          /\ this' = [this EXCEPT ![t] = made + 1]
          /\ token' = [token EXCEPT ![made + 1] = t]
  /\ UNCHANGED <<connVars, fileName, index, closed, victim, mgr, list, name, stream, exists>>

\* The constructor adds the element to the list.
BuildingSocketInvokeElement(t) ==
  /\ at[t] = "build"
  /\ mgr = None
  /\ list' = Append(list, this[t])
  /\ element' = [element EXCEPT ![t] = this[t]]
  /\ Goto(t, "command")
  /\ UNCHANGED <<conn, waiting, sends, callVars, mgr, elemVars, exists>>

\* A command that leaves the files alone, a part of a command, and one that is unknown.
OtherCommand(t) ==
  /\ at[t] = "command"
  /\ \/ Goto(t, "respond") /\ UNCHANGED <<this, fileName, victim>>
     \/ Return(t)
     \/ GoClose(t) /\ UNCHANGED <<this, fileName>>
  /\ UNCHANGED <<connVars, index, closed, mgr, list, elemVars, exists>>

\* DoData fails when no file is open, and throws when the disk is full.
DoData(t) ==
  /\ at[t] = "command"
  /\ IF stream[this[t]] = None
     THEN GoClose(t) /\ UNCHANGED <<waiting, this, fileName, index, closed, mgr>>
     ELSE \/ Return(t) /\ UNCHANGED <<waiting, index, closed, mgr>>
          \/ Throw(t)
  /\ UNCHANGED <<conn, element, sends, list, elemVars, exists>>

\* DoUpload and DoEof close the file first, if there is one, and clear the name then.
StreamClosed(t, next) ==
  IF stream[this[t]] = None THEN Goto(t, next) /\ UNCHANGED stream
  ELSE Goto(t, "unname") /\ stream' = [stream EXCEPT ![this[t]] = None]

\* Where DoUpload goes on.
FileExists(f) == IF f \in exists THEN "check" ELSE "open"

DoEof(t) ==
  /\ at[t] = "command"
  /\ StreamClosed(t, "respond")
  /\ UNCHANGED <<connVars, callVars, mgr, list, made, token, name, exists>>

DoUpload(t, f) ==
  /\ at[t] = "command"
  /\ fileName' = [fileName EXCEPT ![t] = f]
  /\ StreamClosed(t, FileExists(f))
  /\ UNCHANGED <<connVars, this, index, closed, victim, mgr, list, made, token, name, exists>>

ClearName(t) ==
  /\ at[t] = "unname"
  /\ name' = [name EXCEPT ![this[t]] = None]
  /\ Goto(t, IF fileName[t] = None THEN "respond" ELSE FileExists(fileName[t]))
  /\ UNCHANGED <<connVars, callVars, mgr, list, made, token, stream, exists>>

\* CheckFileInUse: nothing to do if IsFileInUse can open the file, which nobody else can meanwhile.
IsFileInUse(t) ==
  /\ at[t] = "check"
  /\ \/ Goto(t, "lock")
     \/ ~InUse(fileName[t]) /\ Goto(t, "probe")
  /\ UNCHANGED <<connVars, callVars, mgr, list, elemVars, exists>>

ProbeEnds(t) ==
  /\ at[t] = "probe"
  /\ Goto(t, "open")
  /\ UNCHANGED <<connVars, callVars, mgr, list, elemVars, exists>>

LockMgr(t) ==
  /\ at[t] = "lock"
  /\ mgr = None
  /\ mgr' = t
  /\ index' = [index EXCEPT ![t] = 1]
  /\ closed' = [closed EXCEPT ![t] = FALSE]
  /\ Goto(t, "scan")
  /\ UNCHANGED <<connVars, this, fileName, victim, list, elemVars, exists>>

\* The names are compared before the lock of the token is waited for, and not again.
ScanElement(t) ==
  /\ at[t] = "scan"
  /\ index[t] <= Len(list)
  /\ IF name[list[index[t]]] = fileName[t]
     THEN Goto(t, "wait") /\ UNCHANGED index
     ELSE index' = [index EXCEPT ![t] = @ + 1] /\ UNCHANGED at
  /\ UNCHANGED <<connVars, this, fileName, closed, victim, mgr, list, elemVars, exists>>

LockOther_Bug(t) ==   \* lock(AsyncSocketUserToken) is forgotten
  /\ at[t] = "wait"
  /\ victim' = [victim EXCEPT ![t] = token[list[index[t]]]]
  /\ Goto(t, "close")
  /\ UNCHANGED <<connVars, this, fileName, index, closed, mgr, list, elemVars, exists>>

\* lock(AsyncSocketUserToken), which may be the callback's own.
LockOther(t) ==
  /\ at[t] = "wait"
  /\ LET u == token[list[index[t]]] IN
       /\ u = t \/ Unlocked(u)
       /\ victim' = [victim EXCEPT ![t] = u]
  /\ Goto(t, "close")
  /\ UNCHANGED <<connVars, this, fileName, index, closed, mgr, list, elemVars, exists>>

ScanEnds(t) ==
  /\ at[t] = "scan"
  /\ index[t] > Len(list)
  /\ mgr' = None
  /\ index' = [index EXCEPT ![t] = 0]
  /\ Goto(t, IF closed[t] THEN "open" ELSE "respond")
  /\ UNCHANGED <<connVars, this, fileName, closed, victim, list, elemVars, exists>>

\* m_fileName is set before FileStream opens the file, or throws.
NameFile(t) ==
  /\ at[t] = "open"
  /\ name' = [name EXCEPT ![this[t]] = fileName[t]]
  /\ Goto(t, "create")
  /\ UNCHANGED <<connVars, callVars, mgr, list, made, token, stream, exists>>

OpenFile(t) ==
  /\ at[t] = "create"
  /\ ~InUse(fileName[t])
  /\ stream' = [stream EXCEPT ![this[t]] = fileName[t]]
  /\ exists' = exists \cup {fileName[t]}
  /\ Goto(t, "respond")
  /\ UNCHANGED <<connVars, callVars, mgr, list, made, token, name>>

OpenThrows(t) ==
  /\ at[t] = "create"
  /\ Throw(t)
  /\ UNCHANGED <<conn, element, sends, list, elemVars, exists>>

\* DoSendResult fails when the connection is gone.
DoSendResult(t) ==
  /\ at[t] = "respond"
  /\ IF conn[t] = "up"
     THEN sends' = [sends EXCEPT ![t] = @ + 1] /\ Return(t)
     ELSE GoClose(t) /\ UNCHANGED <<sends, this, fileName>>
  /\ UNCHANGED <<conn, element, waiting, index, closed, mgr, list, elemVars, exists>>

Command(t) == OtherCommand(t) \/ DoData(t) \/ DoEof(t) \/ \E f \in Files : DoUpload(t, f)
CheckFileInUse(t) ==
  \/ IsFileInUse(t) \/ ProbeEnds(t) \/ LockMgr(t) \/ ScanElement(t) \/ LockOther(t) \/ ScanEnds(t)
Callback(t) ==
  \/ BuildingSocketInvokeElement(t) \/ Command(t) \/ ClearName(t) \/ CheckFileInUse(t)
  \/ NameFile(t) \/ OpenFile(t) \/ OpenThrows(t) \/ DoSendResult(t) \/ Close(t)

Next ==
  \E t \in Tokens :
    Connect(t) \/ ReceiveBytes(t) \/ Disconnected(t) \/ SendCompleted(t) \/ Callback(t)

\* A callback that can go on does, and a Monitor lets every thread in that waits for it.
Fairness == \A t \in Tokens : SF_vars(Callback(t))

Spec == Init /\ [][Next]_vars
FairSpec == Spec /\ Fairness

(***************************************************************************)
(* Properties.                                                             *)
(***************************************************************************)

\* The thread that closes the connection of an element has got to p.
ClosingAt(e, p) == \E t \in Tokens : at[t] = p /\ element[victim[t]] = e

\* Whoever has a file open can be found by the file's name, from before FileStream opens
\* it (UploadSocketProtocol.cs:292) until the Close that is about to close it
\* (UploadSocketProtocol.cs:31); a takeover in the meantime cannot make it nameless.
OpenIsNamed ==
  \A e \in Elements : stream[e] # None => name[e] = stream[e] \/ ClosingAt(e, "shut")

\* The element of a connection is on the list, whatever other callbacks close meanwhile,
\* up to the step of the setter that follows its own Close (AsyncSocketUserToken.cs:69).
BoundIsListed ==
  \A t \in Tokens :
    element[t] # None => Contains(list, element[t]) \/ ClosingAt(element[t], "unbind")

\* Does not hold, and no run checks it: CheckFileInUse returns false only when nobody has the file open any more
\* (UploadSocketProtocol.cs:318).
FalseMeansFree ==
  [][\A t \in Tokens : at[t] = "scan" /\ at'[t] = "open" => ~InUse(fileName[t])]_vars

\* A callback that has begun to look for the holder of a file comes to an end of it.
TakeOverEnds == \A t \in Tokens : at[t] = "lock" \/ mgr = t ~> at[t] # "lock" /\ mgr # t
================================================================================
