---------------------------- MODULE CallsInTurn_proofs ----------------------------
(***************************************************************************)
(* Proofs about two components that promise more to callers who call them  *)
(* in turn than to callers whose calls overlap: QueueServer, for any set   *)
(* of items, so for any number of calls and threads, and UdpSendSocket,    *)
(* for any number of args and calls.                                       *)
(***************************************************************************)
EXTENDS QueueServer, UdpSendSocket, FiniteSetTheorems, TLAPS

-----------------------------------------------------------------------------
(* QueueServer.                                                              *)

(***************************************************************************)
(* Types.                                                                  *)
(***************************************************************************)
LEMMA TypeInit == Init => TypeOK
<1> SUFFICES ASSUME Init PROVE TypeOK OBVIOUS
<1>1. status \in [Items -> Statuses] /\ call \in [Items -> Points]
  BY DEF Init, Statuses, Points
<1>2. queue \in Seq(Items) /\ item \in [Items -> Items \cup {None}]
  BY DEF Init
<1>3. \A i \in Items : call[i] = "new" /\ status[i] = "none" /\ item[i] = None
  BY DEF Init
<1>4. thread = None /\ processed = {} /\ missed = FALSE /\ overlapped = FALSE
  BY DEF Init
<1> QED BY <1>1, <1>2, <1>3, <1>4 DEF TypeOK

LEMMA TypeEnqueueItem ==
  ASSUME TypeOK, NEW i \in Items, Enqueue(i) \/ EnqueueItem(i)
  PROVE  TypeOK'
<1> USE NoneAssumption DEF TypeOK, Statuses, Points
<1>1. CASE Enqueue(i)
  BY <1>1 DEF Enqueue, threadVars
<1>2. CASE TestThread(i)
  BY <1>2 DEF TestThread, threadVars, NeedsThread, IsAlive
<1>3. CASE CreateThread(i)
  BY <1>3 DEF CreateThread, historyVars
<1>4. CASE Start(i)
  BY <1>4 DEF Start, historyVars
<1>5. CASE SetBackground(i)
  BY <1>5 DEF SetBackground, threadVars, historyVars
<1> QED BY <1>1, <1>2, <1>3, <1>4, <1>5 DEF EnqueueItem

LEMMA TypeThreadProc ==
  ASSUME TypeOK, NEW t \in Items, ThreadProc(t)
  PROVE  TypeOK'
<1> USE NoneAssumption DEF TypeOK, Statuses, Points
<1>1. CASE Dequeue(t)
  BY <1>1 DEF Dequeue, historyVars
<1>2. CASE ProcessItem(t)
  BY <1>2 DEF ProcessItem
<1>3. CASE Break(t)
  BY <1>3 DEF Break, historyVars
<1>4. CASE End(t)
  BY <1>4 DEF End, historyVars
<1> QED BY <1>1, <1>2, <1>3, <1>4 DEF ThreadProc

LEMMA TypeStep == TypeOK /\ [Next]_vars => TypeOK'
<1> SUFFICES ASSUME TypeOK, [Next]_vars PROVE TypeOK' OBVIOUS
<1>1. CASE \E i \in Items : Enqueue(i) \/ EnqueueItem(i)
  BY <1>1, TypeEnqueueItem
<1>2. CASE \E t \in Items : ThreadProc(t)
  BY <1>2, TypeThreadProc
<1>3. CASE ClearItems
  BY <1>3 DEF ClearItems, TypeOK, threadVars, historyVars
<1>4. CASE UNCHANGED vars
  BY <1>4 DEF vars, threadVars, historyVars, TypeOK
<1> QED BY <1>1, <1>2, <1>3, <1>4 DEF Next

\* Every variable keeps its type.
THEOREM TypeCorrect == Spec => []TypeOK
BY TypeInit, TypeStep, PTL DEF Spec

(***************************************************************************)
(* Nothing that waits is forgotten.  NotForgotten is inductive by itself.  *)
(***************************************************************************)
LEMMA NotForgottenEnqueueItem ==
  ASSUME TypeOK, NotForgotten, NEW i \in Items, Enqueue(i) \/ EnqueueItem(i)
  PROVE  NotForgotten'
<1> USE NoneAssumption DEF TypeOK, Statuses, Points, NotForgotten, Looks
<1>1. CASE Enqueue(i)
  BY <1>1 DEF Enqueue, threadVars
<1>2. CASE TestThread(i)
  <2>1. CASE NeedsThread
    BY <1>2, <2>1 DEF TestThread, threadVars
  <2>2. CASE ~NeedsThread
    <3>1. thread \in Items /\ status[thread] \in {"loop", "process", "left"}
      BY <2>2 DEF NeedsThread, IsAlive
    <3>2. CASE status[thread] = "left"
      BY <1>2, <2>2, <3>2 DEF TestThread
    <3>3. CASE status[thread] \in {"loop", "process"}
      BY <1>2, <3>1, <3>3 DEF TestThread, threadVars
    <3> QED BY <3>1, <3>2, <3>3
  <2> QED BY <2>1, <2>2
<1>3. CASE CreateThread(i)
  BY <1>3 DEF CreateThread, historyVars
<1>4. CASE Start(i)
  <2>1. thread \in Items
    BY <1>4 DEF Start
  <2>2. CASE status[thread] = "unstarted"
    BY <1>4, <2>1, <2>2 DEF Start, historyVars
  <2>3. CASE status[thread] # "unstarted"
    BY <1>4, <2>3 DEF Start, historyVars
  <2> QED BY <2>2, <2>3
<1>5. CASE SetBackground(i)
  BY <1>5 DEF SetBackground, threadVars, historyVars
<1> QED BY <1>1, <1>2, <1>3, <1>4, <1>5 DEF EnqueueItem

LEMMA NotForgottenThreadProc ==
  ASSUME TypeOK, NotForgotten, NEW t \in Items, ThreadProc(t)
  PROVE  NotForgotten'
<1> USE NoneAssumption DEF TypeOK, Statuses, Points, NotForgotten, Looks
<1>1. CASE Dequeue(t)
  BY <1>1 DEF Dequeue, historyVars
<1>2. CASE ProcessItem(t)
  BY <1>2 DEF ProcessItem
<1>3. CASE Break(t)
  BY <1>3 DEF Break, historyVars
<1>4. CASE End(t)
  BY <1>4 DEF End, historyVars
<1> QED BY <1>1, <1>2, <1>3, <1>4 DEF ThreadProc

\* Items that wait have a thread or a call that will see to them, unless a call met a
\* thread that had left its loop.
THEOREM NothingForgotten == Spec => []NotForgotten
<1>1. Init => NotForgotten
  BY DEF Init, NotForgotten
<1>2. TypeOK /\ NotForgotten /\ [Next]_vars => NotForgotten'
  <2> SUFFICES ASSUME TypeOK, NotForgotten, [Next]_vars PROVE NotForgotten' OBVIOUS
  <2>1. CASE \E i \in Items : Enqueue(i) \/ EnqueueItem(i)
    BY <2>1, NotForgottenEnqueueItem
  <2>2. CASE \E t \in Items : ThreadProc(t)
    BY <2>2, NotForgottenThreadProc
  <2>3. CASE ClearItems
    BY <2>3 DEF ClearItems, NotForgotten
  <2>4. CASE UNCHANGED vars
    BY <2>4 DEF vars, threadVars, historyVars, NotForgotten, Looks
  <2> QED BY <2>1, <2>2, <2>3, <2>4 DEF Next
<1> QED BY <1>1, <1>2, TypeCorrect, PTL DEF Spec

(***************************************************************************)
(* Calls that do not overlap: at most one call is running, only the thread *)
(* of the field looks at the queue, a call that is about to create one     *)
(* has found it ended, and a call that is about to start one has made it.  *)
(***************************************************************************)
Sequential ==
  /\ \A i, j \in Items : Running(i) /\ Running(j) => i = j
  /\ \A t \in Items : Looks(t) => t = thread
  /\ \A i \in Items : call[i] = "create" => \A t \in Items : ~Looks(t)
  /\ \A i \in Items : call[i] \in {"background", "start"} => thread = i /\ status[i] = "unstarted"
  /\ \A i \in Items : call[i] # "thrown"

SequentialInv == ~overlapped => Sequential

LEMMA SequentialEnqueueItem ==
  ASSUME TypeOK, SequentialInv, NEW i \in Items, Enqueue(i) \/ EnqueueItem(i)
  PROVE  SequentialInv'
<1> USE NoneAssumption DEF TypeOK, Statuses, Points, SequentialInv, Sequential, Looks, Running
<1>1. CASE Enqueue(i)
  BY <1>1 DEF Enqueue, threadVars
<1>2. CASE TestThread(i)
  BY <1>2 DEF TestThread, threadVars, NeedsThread, IsAlive
<1>3. CASE CreateThread(i)
  BY <1>3 DEF CreateThread, historyVars
<1>4. CASE Start(i)
  BY <1>4 DEF Start, historyVars
<1>5. CASE SetBackground(i)
  BY <1>5 DEF SetBackground, threadVars, historyVars
<1> QED BY <1>1, <1>2, <1>3, <1>4, <1>5 DEF EnqueueItem

LEMMA SequentialThreadProc ==
  ASSUME TypeOK, SequentialInv, NEW t \in Items, ThreadProc(t)
  PROVE  SequentialInv'
<1> USE DEF TypeOK, Statuses, Points, SequentialInv, Sequential, Looks, Running
<1>1. CASE Dequeue(t)
  BY <1>1 DEF Dequeue, historyVars
<1>2. CASE ProcessItem(t)
  BY <1>2 DEF ProcessItem
<1>3. CASE Break(t)
  BY <1>3 DEF Break, historyVars
<1>4. CASE End(t)
  BY <1>4 DEF End, historyVars
<1> QED BY <1>1, <1>2, <1>3, <1>4 DEF ThreadProc

\* Calls that do not overlap have one thread at a time and never an exception.
THEOREM SequentialCalls == Spec => []OneAtATime
<1>1. Init => SequentialInv
  BY DEF Init, SequentialInv, Sequential, Looks, Running
<1>2. TypeOK /\ SequentialInv /\ [Next]_vars => SequentialInv'
  <2> SUFFICES ASSUME TypeOK, SequentialInv, [Next]_vars PROVE SequentialInv' OBVIOUS
  <2>1. CASE \E i \in Items : Enqueue(i) \/ EnqueueItem(i)
    BY <2>1, SequentialEnqueueItem
  <2>2. CASE \E t \in Items : ThreadProc(t)
    BY <2>2, SequentialThreadProc
  <2>3. CASE ClearItems
    BY <2>3 DEF ClearItems, SequentialInv, Sequential, Looks, Running, threadVars, historyVars
  <2>4. CASE UNCHANGED vars
    BY <2>4 DEF vars, threadVars, historyVars, SequentialInv, Sequential, Looks, Running
  <2> QED BY <2>1, <2>2, <2>3, <2>4 DEF Next
<1>3. SequentialInv => OneAtATime
  BY DEF SequentialInv, Sequential, OneAtATime
<1> QED BY <1>1, <1>2, <1>3, TypeCorrect, PTL DEF Spec

(***************************************************************************)
(* Each item is in one place: not yet enqueued, once on the queue, with    *)
(* one thread, or processed.  With that QueueServer implements WorkQueue.  *)
(***************************************************************************)
OnePlace ==
  /\ \A m, n \in DOMAIN queue : queue[m] = queue[n] => m = n
  /\ \A n \in DOMAIN queue : /\ queue[n] \notin processed
                             /\ call[queue[n]] # "new"
                             /\ \A t \in Items : item[t] # queue[n]
  /\ \A t \in Items : item[t] # None => /\ item[t] \notin processed
                                       /\ call[item[t]] # "new"
                                       /\ \A u \in Items : item[u] = item[t] => u = t
  /\ \A i \in processed : call[i] # "new"

LEMMA OnePlaceEnqueueItem ==
  ASSUME TypeOK, OnePlace, NEW i \in Items, Enqueue(i) \/ EnqueueItem(i)
  PROVE  OnePlace'
<1> USE NoneAssumption DEF TypeOK, Statuses, Points, OnePlace
<1>1. CASE Enqueue(i)
  BY <1>1 DEF Enqueue, threadVars
<1>2. CASE TestThread(i)
  BY <1>2 DEF TestThread, threadVars
<1>3. CASE CreateThread(i)
  BY <1>3 DEF CreateThread, historyVars
<1>4. CASE Start(i)
  BY <1>4 DEF Start, historyVars
<1>5. CASE SetBackground(i)
  BY <1>5 DEF SetBackground, threadVars, historyVars
<1> QED BY <1>1, <1>2, <1>3, <1>4, <1>5 DEF EnqueueItem

LEMMA OnePlaceThreadProc ==
  ASSUME TypeOK, OnePlace, NEW t \in Items, ThreadProc(t)
  PROVE  OnePlace'
<1> USE NoneAssumption DEF TypeOK, Statuses, Points, OnePlace
<1>1. CASE Dequeue(t)
  BY <1>1 DEF Dequeue, historyVars
<1>2. CASE ProcessItem(t)
  BY <1>2 DEF ProcessItem
<1>3. CASE Break(t)
  BY <1>3 DEF Break, historyVars
<1>4. CASE End(t)
  BY <1>4 DEF End, historyVars
<1> QED BY <1>1, <1>2, <1>3, <1>4 DEF ThreadProc

LEMMA OnePlaceAlways == Spec => []OnePlace
<1>1. Init => OnePlace
  BY DEF Init, OnePlace
<1>2. TypeOK /\ OnePlace /\ [Next]_vars => OnePlace'
  <2> SUFFICES ASSUME TypeOK, OnePlace, [Next]_vars PROVE OnePlace' OBVIOUS
  <2>1. CASE \E i \in Items : Enqueue(i) \/ EnqueueItem(i)
    BY <2>1, OnePlaceEnqueueItem
  <2>2. CASE \E t \in Items : ThreadProc(t)
    BY <2>2, OnePlaceThreadProc
  <2>3. CASE ClearItems
    BY <2>3 DEF ClearItems, OnePlace, threadVars, historyVars
  <2>4. CASE UNCHANGED vars
    BY <2>4 DEF vars, threadVars, historyVars, OnePlace
  <2> QED BY <2>1, <2>2, <2>3, <2>4 DEF Next
<1> QED BY <1>1, <1>2, TypeCorrect, PTL DEF Spec

Busy == {item[t] : t \in {u \in Items : status[u] = "process"}}

LEMMA WorkQueueStep ==
  ASSUME TypeOK, OnePlace, [Next]_vars
  PROVE  [Queue!Next]_<<queue, Busy, processed>>
<1>1. ASSUME NEW i \in Items, Enqueue(i) PROVE Queue!Put(i)
  <2>1. UNCHANGED <<Busy, processed>>
    BY <1>1 DEF Enqueue, threadVars, Busy
  <2>2. i \notin Busy \cup processed
    BY <1>1 DEF Enqueue, OnePlace, TypeOK, Busy
  <2>3. \A n \in DOMAIN queue : queue[n] # i
    BY <1>1 DEF Enqueue, OnePlace
  <2> QED BY <1>1, <2>1, <2>2, <2>3 DEF Enqueue, Queue!Put, Busy
<1>2. ASSUME NEW i \in Items, EnqueueItem(i) PROVE UNCHANGED <<queue, Busy, processed>>
  <2>1. item' = item /\ queue' = queue /\ processed' = processed
    BY <1>2 DEF EnqueueItem, TestThread, CreateThread, SetBackground, Start, threadVars, historyVars
  <2>2. \A u \in Items : status'[u] = "process" <=> status[u] = "process"
    <3>1. CASE TestThread(i)
      BY <3>1 DEF TestThread, threadVars
    <3>2. CASE CreateThread(i)
      BY <3>2 DEF CreateThread, TypeOK
    <3>3. CASE Start(i)
      BY <3>3 DEF Start, TypeOK
    <3>4. CASE SetBackground(i)
      BY <3>4 DEF SetBackground, threadVars
    <3> QED BY <1>2, <3>1, <3>2, <3>3, <3>4 DEF EnqueueItem
  <2> QED BY <2>1, <2>2 DEF Busy
<1>3. ASSUME NEW t \in Items, Dequeue(t) PROVE Queue!Take
  <2>1. Head(queue) \in Items /\ Head(queue) = queue[1] /\ 1 \in DOMAIN queue
    BY <1>3 DEF Dequeue, TypeOK
  <2>2. Head(queue) \notin Busy \cup processed
    BY <2>1 DEF OnePlace, Busy
  <2>3. item[t] = None /\ item'[t] = Head(queue) /\ status'[t] = "process"
    BY <1>3 DEF Dequeue, TypeOK
  <2>4. \A u \in Items \ {t} : item'[u] = item[u] /\ status'[u] = status[u]
    BY <1>3 DEF Dequeue, TypeOK
  <2>5. Busy' = Busy \cup {Head(queue)}
    BY <1>3, <2>3, <2>4 DEF Busy, Dequeue
  <2> QED BY <1>3, <2>2, <2>5 DEF Dequeue, historyVars, Queue!Take, Busy
<1>4. ASSUME NEW t \in Items, ProcessItem(t) PROVE \E i \in Items : Queue!Finish(i)
  <2>1. item[t] \in Items /\ item[t] # None /\ item[t] \in Busy
    BY <1>4, NoneAssumption DEF ProcessItem, TypeOK, Busy
  <2>2. \A u \in Items \ {t} : /\ item'[u] = item[u]
                              /\ status'[u] = status[u]
                              /\ item[u] # item[t]
    BY <1>4, <2>1 DEF ProcessItem, TypeOK, OnePlace
  <2>3. status[t] = "process" /\ status'[t] = "loop"
    BY <1>4 DEF ProcessItem, TypeOK
  <2>4. Busy' = Busy \ {item[t]}
    BY <2>2, <2>3 DEF Busy
  <2>5. PICK i \in Items : i = item[t]
    BY <2>1
  <2>6. Queue!Finish(i)
    BY <1>4, <2>1, <2>4, <2>5 DEF ProcessItem, Queue!Finish, Busy
  <2> QED BY <2>6
<1>5. ASSUME NEW t \in Items, Break(t) \/ End(t) PROVE UNCHANGED <<queue, Busy, processed>>
  <2>1. item' = item /\ queue' = queue /\ processed' = processed
    BY <1>5 DEF Break, End, historyVars
  <2>2. \A u \in Items : status'[u] = "process" <=> status[u] = "process"
    BY <1>5 DEF Break, End, TypeOK
  <2> QED BY <2>1, <2>2 DEF Busy
<1>6. CASE ClearItems
  <2>1. UNCHANGED <<Busy, processed>> /\ queue' = <<>>
    BY <1>6 DEF ClearItems, threadVars, historyVars, Busy
  <2>2. Queue!Clear
    BY <2>1 DEF Queue!Clear, Busy
  <2> QED BY <2>2 DEF Queue!Next
<1>7. CASE UNCHANGED vars
  BY <1>7 DEF vars, threadVars, historyVars, Busy
<1>8. CASE \E i \in Items : Enqueue(i) \/ EnqueueItem(i)
  <2>1. PICK i \in Items : Enqueue(i) \/ EnqueueItem(i) BY <1>8
  <2>2. Queue!Put(i) \/ UNCHANGED <<queue, Busy, processed>>
    BY <2>1, <1>1, <1>2
  <2> QED BY <2>2 DEF Queue!Next
<1>9. CASE \E t \in Items : ThreadProc(t)
  <2>1. PICK t \in Items : ThreadProc(t) BY <1>9
  <2>2. CASE Dequeue(t)
    BY <1>3, <2>2 DEF Queue!Next
  <2>3. CASE ProcessItem(t)
    BY <1>4, <2>3 DEF Queue!Next
  <2>4. CASE Break(t) \/ End(t)
    BY <1>5, <2>4
  <2> QED BY <2>1, <2>2, <2>3, <2>4 DEF ThreadProc
<1> QED BY <1>6, <1>7, <1>8, <1>9 DEF Next

\* QueueServer implements WorkQueue: each item is taken once, in order, and processed.
THEOREM Implements == Spec => IsWorkQueue
<1>1. Init => Queue!Init
  <2> SUFFICES ASSUME Init PROVE Queue!Init OBVIOUS
  <2>1. {u \in Items : status[u] = "process"} = {}
    BY DEF Init
  <2> QED BY <2>1 DEF Init, Queue!Init
<1>2. TypeOK /\ OnePlace /\ [Next]_vars => [Queue!Next]_<<queue, Busy, processed>>
  BY WorkQueueStep
<1> QED BY <1>1, <1>2, TypeCorrect, OnePlaceAlways, PTL
        DEF Spec, IsWorkQueue, Queue!Spec, Busy

-----------------------------------------------------------------------------
(* UdpSendSocket: types.                                                     *)

LEMMA SocketTypeInit == SocketInit => SocketTypeOK
<1> SUFFICES ASSUME SocketInit PROVE SocketTypeOK OBVIOUS
<1> USE ArgsAssumption, MessagesAssumption
<1>1. Cardinality(Args) \in Nat /\ Cardinality(Args) # 0
  BY FS_CardinalityType, FS_EmptySet
<1>2. pool \in [1..Cardinality(Args) -> Args]
  BY DEF SocketInit
<1>3. pool \in Seq(Args) /\ pool[1] \in Args
  BY <1>1, <1>2
<1> QED BY <1>3 DEF SocketInit, SocketTypeOK, SendPoints

LEMMA SocketTypeSend ==
  ASSUME SocketTypeOK, NEW m \in Messages, Pop(m) \/ PopEmpty(m) \/ Send(m)
  PROVE  SocketTypeOK'
<1> USE ArgsAssumption, MessagesAssumption DEF SocketTypeOK, SendPoints, At
<1>1. CASE Pop(m)
  BY <1>1 DEF Pop, Overlaps, argsVars
<1>2. CASE PopEmpty(m)
  BY <1>2 DEF PopEmpty, argsVars, sendHistory
<1>3. CASE StoreField(m)
  BY <1>3 DEF StoreField, argsVars, sendHistory
<1>4. CASE RemoteEndPoint(m)
  BY <1>4 DEF RemoteEndPoint, Peer, sendHistory
<1>5. CASE SetBuffer(m)
  <2>1. CASE m \in NullData \/ socketArgs \in inUse
    <3>1. at' = [at EXCEPT ![m] = "thrown"] /\ at[m] = "buffer" /\ lost' = lost + 1
      BY <1>5, <2>1 DEF SetBuffer, Throws
    <3>2. UNCHANGED <<pool, socketArgs, popped, argsVars, completing, wire, concurrent>>
      BY <1>5, <2>1 DEF SetBuffer, argsVars
    <3> QED BY <3>1, <3>2 DEF argsVars
  <2>2. CASE ~(m \in NullData \/ socketArgs \in inUse)
    <3>1. at' = [at EXCEPT ![m] = "test"] /\ at[m] = "buffer" /\ UNCHANGED lost
      BY <1>5, <2>2 DEF SetBuffer
    <3>2. buffer' = [buffer EXCEPT ![socketArgs] = m]
      BY <1>5, <2>2 DEF SetBuffer
    <3>3. UNCHANGED <<pool, socketArgs, popped, endpoint, inUse, completing, wire, concurrent>>
      BY <1>5 DEF SetBuffer
    <3> QED BY <3>1, <3>2, <3>3
  <2> QED BY <2>1, <2>2
<1>6. CASE TestEndPoint(m)
  BY <1>6 DEF TestEndPoint, argsVars
<1>7. CASE SendToAsync(m)
  <2>1. CASE socketArgs \in inUse \/ endpoint[socketArgs] = Null
    <3>1. at' = [at EXCEPT ![m] = "thrown"] /\ at[m] = "send" /\ lost' = lost + 1
      BY <1>7, <2>1 DEF SendToAsync, Throws
    <3>2. UNCHANGED <<pool, socketArgs, popped, argsVars, completing, wire, concurrent>>
      BY <1>7, <2>1 DEF SendToAsync, argsVars
    <3> QED BY <3>1, <3>2 DEF argsVars
  <2>2. CASE ~(socketArgs \in inUse \/ endpoint[socketArgs] = Null)
    <3>1. wire' \subseteq (Messages \cup {Null}) \X Messages
      BY <1>7, <2>2 DEF SendToAsync, Transmits
    <3>2. PICK point \in {"returned", "sent"} : at' = [at EXCEPT ![m] = point]
      BY <1>7, <2>2 DEF SendToAsync
    <3>3. inUse' \subseteq Args /\ at[m] = "send"
      BY <1>7, <2>2 DEF SendToAsync
    <3>4. UNCHANGED <<pool, socketArgs, popped, endpoint, buffer, completing, lost, concurrent>>
      BY <1>7, <2>2 DEF SendToAsync
    <3> QED BY <3>1, <3>2, <3>3, <3>4
  <2> QED BY <2>1, <2>2
<1>8. CASE ProcessSent(m)
  BY <1>8 DEF ProcessSent, Push, argsVars, sendHistory
<1> QED BY <1>1, <1>2, <1>3, <1>4, <1>5, <1>6, <1>7, <1>8 DEF Send

LEMMA SocketTypeCompletion ==
  ASSUME SocketTypeOK, NEW a \in Args, Complete(a) \/ socketArgs_Completed(a)
  PROVE  SocketTypeOK'
<1>1. CASE Complete(a)
  BY <1>1 DEF Complete, sendHistory, SocketTypeOK
<1>2. CASE socketArgs_Completed(a)
  BY <1>2 DEF socketArgs_Completed, Push, argsVars, sendHistory, SocketTypeOK
<1> QED BY <1>1, <1>2

LEMMA SocketTypeStep == SocketTypeOK /\ [SocketNext]_socketVars => SocketTypeOK'
<1> SUFFICES ASSUME SocketTypeOK, [SocketNext]_socketVars PROVE SocketTypeOK' OBVIOUS
<1>1. CASE UNCHANGED socketVars
  BY <1>1 DEF socketVars, argsVars, sendHistory, SocketTypeOK
<1> QED BY <1>1, SocketTypeSend, SocketTypeCompletion DEF SocketNext

\* Every variable keeps its type.
THEOREM SocketTypeCorrect == SocketSpec => []SocketTypeOK
BY SocketTypeInit, SocketTypeStep, PTL DEF SocketSpec

(***************************************************************************)
(* Nothing that was popped is unaccounted for, whatever overlaps.          *)
(***************************************************************************)
\* The sets that Counted counts are finite.
CountInv == SocketTypeOK /\ IsFiniteSet(Completions) /\ Counted

\* A call that begins or ends.
LEMMA CallersChange ==
  ASSUME SocketTypeOK, NEW m \in Messages, NEW point \in SendPoints, At(m, point)
  PROVE  /\ IsFiniteSet(Callers) /\ Cardinality(Callers) \in Nat
         /\ ~Sending(m) /\ point \notin {"new", "returned", "thrown"}
              => Cardinality(Callers') = Cardinality(Callers) + 1
         /\ Sending(m) /\ point \in {"new", "returned", "thrown"}
              => Cardinality(Callers') = Cardinality(Callers) - 1
         /\ (Sending(m) <=> point \notin {"new", "returned", "thrown"})
              => Callers' = Callers
<1>1. IsFiniteSet(Callers)
  BY MessagesAssumption, FS_Subset DEF Callers
<1>2. Cardinality(Callers) \in Nat
  BY <1>1, FS_CardinalityType
<1>3. at' = [at EXCEPT ![m] = point] /\ at \in [Messages -> SendPoints]
  BY DEF At, SocketTypeOK
<1>4. CASE ~Sending(m) /\ point \notin {"new", "returned", "thrown"}
  <2>1. Callers' = Callers \cup {m} /\ m \notin Callers
    BY <1>3, <1>4 DEF Callers, Sending
  <2> QED BY <1>1, <1>2, <1>4, <2>1, FS_AddElement
<1>5. CASE Sending(m) /\ point \in {"new", "returned", "thrown"}
  <2>1. Callers' = Callers \ {m} /\ m \in Callers
    BY <1>3, <1>5 DEF Callers, Sending
  <2> QED BY <1>1, <1>2, <1>5, <2>1, FS_RemoveElement
<1>6. CASE Sending(m) <=> point \notin {"new", "returned", "thrown"}
  <2>1. Callers' = Callers
    BY <1>3, <1>6 DEF Callers, Sending
  <2> QED BY <1>1, <1>2, <1>6, <2>1
<1> QED BY <1>4, <1>5, <1>6

LEMMA CallersStay == ASSUME UNCHANGED at PROVE Callers' = Callers
BY DEF Callers, Sending

LEMMA CompletionsStay == ASSUME UNCHANGED completing PROVE Completions' = Completions
BY DEF Completions

\* What is in use, and the completions, as sets of their own size.
LEMMA CountedParts ==
  ASSUME SocketTypeOK, IsFiniteSet(Completions)
  PROVE  /\ Len(pool) \in Nat /\ lost \in Nat
         /\ IsFiniteSet(inUse) /\ Cardinality(inUse) \in Nat
         /\ Cardinality(Completions) \in Nat
         /\ IsFiniteSet(Callers) /\ Cardinality(Callers) \in Nat
         /\ Cardinality(Args) \in Nat
<1>1. IsFiniteSet(inUse) /\ IsFiniteSet(Callers)
  BY ArgsAssumption, MessagesAssumption, FS_Subset DEF SocketTypeOK, Callers
<1> QED BY <1>1, ArgsAssumption, FS_CardinalityType DEF SocketTypeOK

LEMMA CountSend ==
  ASSUME CountInv, NEW m \in Messages, Pop(m) \/ PopEmpty(m) \/ Send(m)
  PROVE  Counted' /\ IsFiniteSet(Completions')
<1> USE DEF CountInv
<1>1. UNCHANGED completing
  BY DEF Pop, PopEmpty, Send, StoreField, RemoteEndPoint, SetBuffer, TestEndPoint,
         SendToAsync, ProcessSent
<1>2. Completions' = Completions
  BY <1>1, CompletionsStay
<1>3. SocketTypeOK /\ pool \in Seq(Args) /\ inUse \subseteq Args /\ at[m] \in SendPoints
  BY DEF SocketTypeOK
<1>4. CASE Pop(m)
  <2>1. Cardinality(Callers') = Cardinality(Callers) + 1
    BY <1>3, <1>4, CallersChange DEF Pop, Sending, SendPoints
  <2>2. Len(pool') = Len(pool) - 1
    BY <1>3, <1>4 DEF Pop
  <2> QED BY <1>2, <1>4, <2>1, <2>2, CountedParts DEF Pop, Counted, argsVars
<1>5. CASE PopEmpty(m)
  <2>1. Callers' = Callers
    BY <1>3, <1>5, CallersChange DEF PopEmpty, Sending, SendPoints
  <2> QED BY <1>2, <1>5, <2>1 DEF PopEmpty, Counted, argsVars, sendHistory
<1>6. CASE StoreField(m)
  <2>1. Callers' = Callers
    BY <1>3, <1>6, CallersChange DEF StoreField, Sending, SendPoints
  <2> QED BY <1>2, <1>6, <2>1 DEF StoreField, Counted, argsVars, sendHistory
<1>7. CASE RemoteEndPoint(m)
  <2>1. Callers' = Callers
    BY <1>3, <1>7, CallersChange DEF RemoteEndPoint, Sending, SendPoints
  <2> QED BY <1>2, <1>7, <2>1 DEF RemoteEndPoint, Counted, sendHistory
<1>8. CASE SetBuffer(m)
  <2>1. CASE m \in NullData \/ socketArgs \in inUse
    <3>1. Cardinality(Callers') = Cardinality(Callers) - 1
      BY <1>3, <1>8, <2>1, CallersChange DEF SetBuffer, Throws, Sending, SendPoints
    <3> QED BY <1>2, <1>8, <2>1, <3>1, CountedParts DEF SetBuffer, Throws, Counted
  <2>2. CASE ~(m \in NullData \/ socketArgs \in inUse)
    <3>1. Callers' = Callers
      BY <1>3, <1>8, <2>2, CallersChange DEF SetBuffer, Sending, SendPoints
    <3> QED BY <1>2, <1>8, <2>2, <3>1 DEF SetBuffer, Counted
  <2> QED BY <2>1, <2>2
<1>9. CASE TestEndPoint(m)
  <2>1. CASE endpoint[socketArgs] = Null
    <3>1. Cardinality(Callers') = Cardinality(Callers) - 1
      BY <1>3, <1>9, <2>1, CallersChange DEF TestEndPoint, Sending, SendPoints
    <3> QED BY <1>2, <1>9, <2>1, <3>1, CountedParts DEF TestEndPoint, Counted, argsVars
  <2>2. CASE endpoint[socketArgs] # Null
    <3>1. Callers' = Callers
      BY <1>3, <1>9, <2>2, CallersChange DEF TestEndPoint, Sending, SendPoints
    <3> QED BY <1>2, <1>9, <2>2, <3>1 DEF TestEndPoint, Counted, argsVars
  <2> QED BY <2>1, <2>2
<1>10. CASE SendToAsync(m)
  <2>1. CASE socketArgs \in inUse \/ endpoint[socketArgs] = Null
    <3>1. Cardinality(Callers') = Cardinality(Callers) - 1
      BY <1>3, <1>10, <2>1, CallersChange DEF SendToAsync, Throws, Sending, SendPoints
    <3> QED BY <1>2, <1>10, <2>1, <3>1, CountedParts DEF SendToAsync, Throws, Counted
  <2>2. CASE socketArgs \notin inUse /\ inUse' = inUse \cup {socketArgs} /\ At(m, "returned")
             /\ UNCHANGED <<pool, lost>>
    <3>1. Cardinality(Callers') = Cardinality(Callers) - 1
      BY <1>3, <1>10, <2>2, CallersChange DEF SendToAsync, Sending, SendPoints
    <3>2. Cardinality(inUse') = Cardinality(inUse) + 1
      BY <2>2, CountedParts, FS_AddElement
    <3> QED BY <1>2, <2>2, <3>1, <3>2, CountedParts DEF Counted
  <2>3. CASE UNCHANGED <<pool, lost, inUse>> /\ At(m, "sent")
    <3>1. Callers' = Callers
      BY <1>3, <1>10, <2>3, CallersChange DEF SendToAsync, Sending, SendPoints
    <3> QED BY <1>2, <2>3, <3>1 DEF Counted
  <2> QED BY <1>10, <2>1, <2>2, <2>3 DEF SendToAsync
<1>11. CASE ProcessSent(m)
  <2>1. Cardinality(Callers') = Cardinality(Callers) - 1
    BY <1>3, <1>11, CallersChange DEF ProcessSent, Sending, SendPoints
  <2>2. Len(pool') = Len(pool) + 1
    BY <1>3, <1>11 DEF ProcessSent, Push, SocketTypeOK
  <2> QED BY <1>2, <1>11, <2>1, <2>2, CountedParts DEF ProcessSent, Counted, argsVars, sendHistory
<1> QED BY <1>4, <1>5, <1>6, <1>7, <1>8, <1>9, <1>10, <1>11, <1>2 DEF Send

LEMMA CountCompletion ==
  ASSUME CountInv, NEW a \in Args, Complete(a) \/ socketArgs_Completed(a)
  PROVE  Counted' /\ IsFiniteSet(Completions')
<1> USE DEF CountInv
<1>1. completing \in [Args -> Nat] /\ Callers' = Callers
  BY CallersStay DEF SocketTypeOK, Complete, socketArgs_Completed
<1>2. CASE Complete(a)
  <2>1. completing' = [completing EXCEPT ![a] = @ + 1] /\ completing'[a] = completing[a] + 1
    BY <1>1, <1>2 DEF Complete
  <2>2. 1..(completing[a] + 1) = (1..completing[a]) \cup {completing[a] + 1}
    BY <1>1
  <2>3. \A b \in Args \ {a} : completing'[b] = completing[b]
    BY <1>1, <2>1
  <2>4. Completions' = Completions \cup {<<a, completing[a] + 1>>}
    BY <2>1, <2>2, <2>3 DEF Completions
  <2>5. <<a, completing[a] + 1>> \notin Completions
    BY <1>1 DEF Completions
  <2>6. IsFiniteSet(Completions') /\ Cardinality(Completions') = Cardinality(Completions) + 1
    BY <2>4, <2>5, FS_AddElement
  <2>7. Cardinality(inUse') = Cardinality(inUse) - 1
    BY <1>2, CountedParts, FS_RemoveElement DEF Complete
  <2> QED BY <1>1, <1>2, <2>6, <2>7, CountedParts DEF Complete, Counted, sendHistory
<1>3. CASE socketArgs_Completed(a)
  <2>1. /\ completing' = [completing EXCEPT ![a] = @ - 1]
        /\ completing'[a] = completing[a] - 1 /\ completing[a] > 0
    BY <1>1, <1>3 DEF socketArgs_Completed
  <2>2. 1..(completing[a] - 1) = (1..completing[a]) \ {completing[a]}
    BY <1>1, <2>1
  <2>3. \A b \in Args \ {a} : completing'[b] = completing[b]
    BY <1>1, <2>1
  <2>4. Completions' = Completions \ {<<a, completing[a]>>}
    BY <2>1, <2>2, <2>3 DEF Completions
  <2>5. <<a, completing[a]>> \in Completions
    BY <1>1, <2>1 DEF Completions
  <2>6. IsFiniteSet(Completions') /\ Cardinality(Completions') = Cardinality(Completions) - 1
    BY <2>4, <2>5, FS_RemoveElement
  <2>7. Len(pool') = Len(pool) + 1
    BY <1>3 DEF socketArgs_Completed, Push, SocketTypeOK
  <2> QED BY <1>1, <1>3, <2>6, <2>7, CountedParts DEF socketArgs_Completed, Counted, argsVars, sendHistory
<1> QED BY <1>2, <1>3

LEMMA CountInit == SocketInit => CountInv
<1> SUFFICES ASSUME SocketInit PROVE CountInv OBVIOUS
<1>1. Callers = {} /\ inUse = {}
  BY DEF SocketInit, Callers, Sending
<1>2. Completions = {}
  BY DEF SocketInit, Completions
<1>3. Len(pool) = Cardinality(Args)
  BY ArgsAssumption, FS_CardinalityType DEF SocketInit
<1> QED BY <1>1, <1>2, <1>3, SocketTypeInit, FS_EmptySet, ArgsAssumption, FS_CardinalityType
  DEF CountInv, Counted, SocketInit

LEMMA CountStep == CountInv /\ [SocketNext]_socketVars => CountInv'
<1> SUFFICES ASSUME CountInv, [SocketNext]_socketVars PROVE CountInv' OBVIOUS
<1>1. SocketTypeOK'
  BY SocketTypeStep DEF CountInv
<1>2. CASE UNCHANGED socketVars
  BY <1>1, <1>2, CallersStay, CompletionsStay DEF socketVars, argsVars, sendHistory, CountInv, Counted
<1> QED BY <1>1, <1>2, CountSend, CountCompletion DEF SocketNext, CountInv

\* Whatever calls overlap and fail, the args in the pool, with callers, in flight,
\* completing and lost are as many as Init has made.
THEOREM ArgsAddUp == SocketSpec => []Counted
<1>1. CountInv => Counted
  BY DEF CountInv
<1> QED BY <1>1, CountInit, CountStep, PTL DEF SocketSpec

(***************************************************************************)
(* Calls in turn: one owner of each args, its own peer for each message.   *)
(***************************************************************************)
\* A call that runs is the only one.
SoleCall == \A m, n \in Messages : Sending(m) /\ Sending(n) => m = n

\* The args of a call: what it has popped, then the field.
ArgsOf(m) == IF at[m] = "store" THEN popped[m] ELSE socketArgs

\* Pool, callers, operations and completions share no args and hold each once.
OnceInPool == \A i, j \in DOMAIN pool : pool[i] = pool[j] => i = j
HeldAlone == \A m \in Messages : Sending(m) =>
               /\ \A i \in DOMAIN pool : pool[i] # ArgsOf(m)
               /\ ArgsOf(m) \notin inUse /\ completing[ArgsOf(m)] = 0
UsedAlone == \A a \in Args :
               /\ a \in inUse => completing[a] = 0
               /\ completing[a] <= 1
               /\ a \in inUse \/ completing[a] = 1 => \A i \in DOMAIN pool : pool[i] # a

\* What a call has set its args to stays until it is sent.
SetUp == \A m \in Messages :
           /\ at[m] \in {"buffer", "test", "send"} => endpoint[socketArgs] = Peer(m)
           /\ at[m] \in {"test", "send"} => buffer[socketArgs] = m

InTurn == SoleCall /\ OnceInPool /\ HeldAlone /\ UsedAlone /\ SetUp /\ \A s \in wire : s[1] = s[2]
TurnInv == SocketTypeOK /\ (~concurrent => InTurn)

LEMMA TurnIsOwned == TurnInv => OneOwner /\ OwnPeer
<1> SUFFICES ASSUME TurnInv, ~concurrent PROVE OneOwner /\ OwnPeer
  BY DEF OneOwner, OwnPeer
<1> USE DEF TurnInv
<1>1. ASSUME NEW a \in Args
      PROVE  InPool(a) + Holder(a) + Flying(a) + completing[a] <= 1
  <2> DEFINE places == {n \in DOMAIN pool : pool[n] = a}
  <2>1. CASE places = {}
    <3>1. InPool(a) = 0
      BY <2>1, FS_EmptySet DEF InPool
    <3>2. Holder(a) = 1 => a \notin inUse /\ completing[a] = 0
      BY DEF Holder, Callers, InTurn, HeldAlone, ArgsOf
    <3> QED BY <3>1, <3>2 DEF Holder, Flying, InTurn, UsedAlone, SocketTypeOK
  <2>2. CASE places # {}
    <3>1. PICK n \in DOMAIN pool : pool[n] = a
      BY <2>2
    <3>2. places = {n}
      BY <3>1 DEF InTurn, OnceInPool
    <3>3. InPool(a) = 1
      BY <3>2, FS_Singleton DEF InPool
    <3>4. Holder(a) = 0
      BY <3>1 DEF Holder, Callers, InTurn, HeldAlone, ArgsOf
    <3>5. a \notin inUse /\ completing[a] = 0
      BY <3>1 DEF InTurn, UsedAlone, SocketTypeOK
    <3> QED BY <3>3, <3>4, <3>5 DEF Flying
  <2> QED BY <2>1, <2>2
<1> QED BY <1>1 DEF OneOwner, OwnPeer, InTurn

LEMMA TurnInit == SocketInit => TurnInv
<1> SUFFICES ASSUME SocketInit PROVE TurnInv OBVIOUS
<1>1. SocketTypeOK
  BY SocketTypeInit
<1>2. \A m \in Messages : ~Sending(m) /\ at[m] = "new"
  BY DEF SocketInit, Sending
<1>3. Cardinality(Args) \in Nat /\ pool \in [1..Cardinality(Args) -> Args]
      /\ {pool[n] : n \in DOMAIN pool} = Args
  BY ArgsAssumption, FS_CardinalityType DEF SocketInit
<1>4. OnceInPool
  <2> USE <1>3
  <2>1. pool \in Surjection(1..Cardinality(Args), Args)
    <3>1. DOMAIN pool = 1..Cardinality(Args)
      BY <1>3
    <3>2. \A a \in Args : \E n \in 1..Cardinality(Args) : pool[n] = a
      BY <1>3, <3>1
    <3> QED BY <1>3, <3>2 DEF Surjection
  <2>2. IsFiniteSet(1..Cardinality(Args)) /\ Cardinality(1..Cardinality(Args)) = Cardinality(Args)
    <3>1. 1 \in Int /\ Cardinality(Args) \in Int
      BY <1>3
    <3>2. /\ IsFiniteSet(1..Cardinality(Args))
          /\ Cardinality(1..Cardinality(Args)) = IF 1 > Cardinality(Args) THEN 0 ELSE Cardinality(Args) - 1 + 1
      BY <3>1, FS_Interval
    <3> QED BY <1>3, <3>2
  <2>3. pool \in Injection(1..Cardinality(Args), Args)
    BY <2>1, <2>2, ArgsAssumption, FS_SurjSameCardinalityImpliesInj
  <2> QED BY <2>3 DEF OnceInPool, Injection, IsInjective
<1> QED BY <1>1, <1>2, <1>4 DEF TurnInv, InTurn, SoleCall, HeldAlone, UsedAlone, SetUp, SocketInit

LEMMA TurnPop ==
  ASSUME TurnInv, NEW m \in Messages, Pop(m), ~concurrent'
  PROVE  InTurn'
<1>1. ~concurrent /\ \A n \in Messages : ~Sending(n)
  BY DEF Pop, Overlaps
<1>2. InTurn /\ SocketTypeOK
  BY <1>1 DEF TurnInv
<1>3. at' = [at EXCEPT ![m] = "store"] /\ popped' = [popped EXCEPT ![m] = Head(pool)]
      /\ pool' = Tail(pool) /\ pool # <<>> /\ pool \in Seq(Args)
      /\ UNCHANGED <<socketArgs, endpoint, buffer, inUse, completing, wire>>
  BY <1>2 DEF Pop, At, argsVars, SocketTypeOK
<1>4. /\ Head(pool) = pool[1] /\ 1 \in DOMAIN pool
      /\ \A i \in DOMAIN pool' : i + 1 \in DOMAIN pool /\ pool'[i] = pool[i + 1] /\ i + 1 # 1 /\ i \in Nat
  BY <1>3
<1>5. Sending(m)' /\ \A n \in Messages \ {m} : at'[n] = at[n] /\ ~Sending(n)'
  BY <1>1, <1>2, <1>3 DEF Sending, SocketTypeOK
<1>6. ArgsOf(m)' = pool[1] /\ pool[1] \in Args
  BY <1>2, <1>3, <1>4 DEF ArgsOf, SocketTypeOK
<1>7. SoleCall'
  BY <1>5 DEF SoleCall
<1>8. OnceInPool'
  BY <1>2, <1>4 DEF InTurn, OnceInPool
<1>9. HeldAlone'
  <2>1. \A i \in DOMAIN pool' : pool'[i] # pool[1]
    BY <1>2, <1>4 DEF InTurn, OnceInPool
  <2>2. pool[1] \notin inUse /\ completing[pool[1]] = 0
    BY <1>2, <1>4, <1>6 DEF InTurn, UsedAlone, SocketTypeOK
  <2> QED BY <1>3, <1>5, <1>6, <2>1, <2>2 DEF HeldAlone
<1>10. UsedAlone'
  BY <1>2, <1>3, <1>4 DEF InTurn, UsedAlone
<1>11. SetUp'
  BY <1>3, <1>5, <1>2 DEF SetUp, Sending, SocketTypeOK
<1> QED BY <1>2, <1>3, <1>7, <1>8, <1>9, <1>10, <1>11 DEF InTurn

LEMMA TurnSend ==
  ASSUME TurnInv, NEW m \in Messages, Send(m), ~concurrent'
  PROVE  InTurn'
<1>1. ~concurrent /\ Sending(m)
  BY DEF Send, StoreField, RemoteEndPoint, SetBuffer, TestEndPoint, SendToAsync, ProcessSent,
         sendHistory, Sending
<1>2. InTurn /\ SocketTypeOK
  BY <1>1 DEF TurnInv
<1>3. \A n \in Messages \ {m} : ~Sending(n)
  BY <1>1, <1>2 DEF InTurn, SoleCall
<1>4. PICK point \in SendPoints : at' = [at EXCEPT ![m] = point] /\ point # "store"
  BY DEF Send, StoreField, RemoteEndPoint, SetBuffer, TestEndPoint, SendToAsync, ProcessSent,
         At, Throws, SendPoints
<1>5. \A n \in Messages \ {m} : at'[n] = at[n] /\ ~Sending(n)'
  BY <1>2, <1>3, <1>4 DEF Sending, SocketTypeOK
<1>6. at'[m] = point
  BY <1>2, <1>4 DEF SocketTypeOK
<1>7. SoleCall'
  BY <1>5 DEF SoleCall
<1>8. /\ \A i \in DOMAIN pool : pool[i] # ArgsOf(m)
      /\ ArgsOf(m) \notin inUse /\ completing[ArgsOf(m)] = 0 /\ ArgsOf(m) \in Args
      /\ UNCHANGED completing
  <2>1. ArgsOf(m) \in Args
    BY <1>2, ArgsAssumption DEF ArgsOf, SocketTypeOK
  <2>2. UNCHANGED completing
    BY DEF Send, StoreField, RemoteEndPoint, SetBuffer, TestEndPoint, SendToAsync, ProcessSent
  <2> QED BY <1>1, <1>2, <2>1, <2>2 DEF InTurn, HeldAlone
<1>9. \A n \in Messages \ {m} : at'[n] \notin {"store", "endpoint", "buffer", "test", "send", "sent"}
  BY <1>5, <1>2, <1>3 DEF Sending, SocketTypeOK, SendPoints
<1>10. OnceInPool' /\ HeldAlone' /\ UsedAlone'
  <2>1. CASE UNCHANGED <<pool, inUse>> /\ (Sending(m)' => ArgsOf(m)' = ArgsOf(m))
    BY <1>2, <1>5, <1>8, <2>1 DEF InTurn, OnceInPool, HeldAlone, UsedAlone
  <2>2. CASE inUse' = inUse \cup {ArgsOf(m)} /\ ~Sending(m)' /\ UNCHANGED pool
    BY <1>2, <1>5, <1>8, <2>2 DEF InTurn, OnceInPool, HeldAlone, UsedAlone
  <2>3. CASE Push(ArgsOf(m)) /\ ~Sending(m)' /\ UNCHANGED inUse
    <3>1. pool \in Seq(Args) /\ pool' = <<ArgsOf(m)>> \o pool
      BY <1>2, <2>3 DEF Push, SocketTypeOK
    <3>2. pool'[1] = ArgsOf(m) /\ \A i \in DOMAIN pool' : i \in Nat /\
            (i # 1 => i - 1 \in DOMAIN pool /\ pool'[i] = pool[i - 1])
      BY <3>1, <1>8
    <3>3. OnceInPool'
      BY <1>2, <1>8, <3>2 DEF InTurn, OnceInPool
    <3>4. HeldAlone'
      BY <1>5, <2>3 DEF HeldAlone
    <3>5. UsedAlone'
      BY <1>2, <1>8, <2>3, <3>2 DEF InTurn, UsedAlone
    <3> QED BY <3>3, <3>4, <3>5
  <2>4. CASE StoreField(m)
    <3>1. ArgsOf(m)' = ArgsOf(m)
      BY <1>2, <2>4 DEF StoreField, ArgsOf, At, SocketTypeOK
    <3> QED BY <2>1, <2>4, <3>1 DEF StoreField, argsVars
  <2>5. CASE RemoteEndPoint(m)
    <3>1. ArgsOf(m)' = ArgsOf(m)
      BY <1>2, <2>5 DEF RemoteEndPoint, ArgsOf, At, SocketTypeOK
    <3> QED BY <2>1, <2>5, <3>1 DEF RemoteEndPoint
  <2>6. CASE SetBuffer(m)
    <3>1. ArgsOf(m)' = ArgsOf(m)
      BY <1>2, <1>4, <1>6, <2>6 DEF SetBuffer, ArgsOf
    <3> QED BY <2>1, <2>6, <3>1 DEF SetBuffer
  <2>7. CASE TestEndPoint(m)
    <3>1. ArgsOf(m)' = ArgsOf(m)
      BY <1>2, <1>4, <1>6, <2>7 DEF TestEndPoint, ArgsOf
    <3> QED BY <2>1, <2>7, <3>1 DEF TestEndPoint, argsVars
  <2>8. CASE SendToAsync(m)
    <3>1. ArgsOf(m) = socketArgs /\ ArgsOf(m)' = ArgsOf(m) /\ UNCHANGED pool
      BY <1>2, <1>4, <1>6, <2>8 DEF SendToAsync, ArgsOf
    <3>2. CASE UNCHANGED inUse
      BY <2>1, <3>1, <3>2
    <3>3. CASE inUse' = inUse \cup {socketArgs} /\ At(m, "returned")
      <4>1. ~Sending(m)'
        BY <1>2, <3>3 DEF At, Sending, SocketTypeOK
      <4> QED BY <2>2, <3>1, <3>3, <4>1
    <3> QED BY <2>8, <3>2, <3>3 DEF SendToAsync
  <2>9. CASE ProcessSent(m)
    <3>1. ArgsOf(m) = socketArgs /\ ~Sending(m)'
      BY <1>2, <2>9 DEF ProcessSent, ArgsOf, At, Sending, SocketTypeOK
    <3> QED BY <2>3, <2>9, <3>1 DEF ProcessSent, argsVars
  <2> QED BY <2>4, <2>5, <2>6, <2>7, <2>8, <2>9 DEF Send
<1>11. SetUp'
  <2>1. /\ at'[m] \in {"buffer", "test", "send"} => endpoint'[socketArgs'] = Peer(m)
        /\ at'[m] \in {"test", "send"} => buffer'[socketArgs'] = m
    <3> USE <1>2, <1>4, <1>6 DEF At
    <3>1. CASE StoreField(m)
      BY <3>1 DEF StoreField, SocketTypeOK
    <3>2. CASE RemoteEndPoint(m)
      BY <3>2 DEF RemoteEndPoint, SocketTypeOK
    <3>3. CASE SetBuffer(m)
      <4>1. endpoint[socketArgs] = Peer(m) /\ UNCHANGED <<endpoint, socketArgs>>
        BY <3>3 DEF SetBuffer, InTurn, SetUp
      <4>2. CASE m \in NullData \/ socketArgs \in inUse
        BY <3>3, <4>1, <4>2 DEF SetBuffer, Throws, SocketTypeOK
      <4>3. CASE ~(m \in NullData \/ socketArgs \in inUse)
        BY <3>3, <4>1, <4>3 DEF SetBuffer, SocketTypeOK
      <4> QED BY <4>2, <4>3
    <3>4. CASE TestEndPoint(m)
      BY <3>4 DEF TestEndPoint, InTurn, SetUp, argsVars
    <3>5. CASE SendToAsync(m)
      <4>1. at'[m] \notin {"buffer", "test", "send"}
        BY <3>5 DEF SendToAsync, Throws, SocketTypeOK
      <4> QED BY <4>1
    <3>6. CASE ProcessSent(m)
      <4>1. at'[m] = "returned"
        BY <3>6 DEF ProcessSent, SocketTypeOK
      <4> QED BY <4>1
    <3> QED BY <3>1, <3>2, <3>3, <3>4, <3>5, <3>6 DEF Send
  <2>2. \A n : Peer(n)' = Peer(n)
    BY DEF Peer
  <2> QED BY <1>9, <2>1, <2>2 DEF SetUp
<1>12. \A s \in wire' : s[1] = s[2]
  <2>1. CASE wire' = wire \cup {<<m, m>>} \/ wire' = wire
    BY <1>2, <2>1 DEF InTurn
  <2>2. CASE SendToAsync(m)
    <3>1. buffer[socketArgs] = m /\ endpoint[socketArgs] = Peer(m)
      BY <1>2, <2>2 DEF SendToAsync, InTurn, SetUp
    <3> QED BY <2>1, <2>2, <3>1 DEF SendToAsync, Transmits, Peer
  <2> QED BY <2>1, <2>2 DEF Send, StoreField, RemoteEndPoint, SetBuffer, TestEndPoint, ProcessSent,
           sendHistory
<1> QED BY <1>7, <1>10, <1>11, <1>12 DEF InTurn

LEMMA TurnCompletion ==
  ASSUME TurnInv, NEW a \in Args, Complete(a) \/ socketArgs_Completed(a), ~concurrent'
  PROVE  InTurn'
<1>1. ~concurrent /\ UNCHANGED <<at, popped, socketArgs, endpoint, buffer, wire>>
  BY DEF Complete, socketArgs_Completed, sendHistory, argsVars
<1>2. InTurn /\ SocketTypeOK
  BY <1>1 DEF TurnInv
<1>3. /\ \A m \in Messages : (Sending(m)' <=> Sending(m)) /\ ArgsOf(m)' = ArgsOf(m)
      /\ \A m : Peer(m)' = Peer(m)
  BY <1>1 DEF Sending, ArgsOf, Peer
<1>4. SoleCall' /\ SetUp' /\ \A s \in wire' : s[1] = s[2]
  BY <1>1, <1>2, <1>3 DEF InTurn, SoleCall, SetUp
<1>5. \A m \in Messages : Sending(m) => ArgsOf(m) # a
  BY <1>2 DEF InTurn, HeldAlone, Complete, socketArgs_Completed
<1>6. CASE Complete(a)
  BY <1>2, <1>3, <1>4, <1>5, <1>6 DEF Complete, InTurn, OnceInPool, HeldAlone, UsedAlone, SocketTypeOK
<1>7. CASE socketArgs_Completed(a)
  <2>1. pool \in Seq(Args) /\ pool' = <<a>> \o pool /\ UNCHANGED inUse
        /\ completing' = [completing EXCEPT ![a] = @ - 1] /\ completing[a] > 0
        /\ completing \in [Args -> Nat]
    BY <1>2, <1>7 DEF socketArgs_Completed, Push, SocketTypeOK, argsVars
  <2>2. pool'[1] = a /\ \A i \in DOMAIN pool' : i \in Nat /\
          (i # 1 => i - 1 \in DOMAIN pool /\ pool'[i] = pool[i - 1])
    BY <2>1
  <2>3. completing[a] = 1 /\ a \notin inUse /\ \A i \in DOMAIN pool : pool[i] # a
    BY <1>2, <2>1 DEF InTurn, UsedAlone
  <2>4. OnceInPool'
    BY <1>2, <2>2, <2>3 DEF InTurn, OnceInPool
  <2>5. HeldAlone'
    BY <1>2, <1>3, <1>5, <2>1, <2>2 DEF InTurn, HeldAlone
  <2>6. UsedAlone'
    BY <1>2, <2>1, <2>2, <2>3 DEF InTurn, UsedAlone
  <2> QED BY <1>4, <2>4, <2>5, <2>6 DEF InTurn
<1> QED BY <1>6, <1>7

LEMMA TurnStep == TurnInv /\ [SocketNext]_socketVars => TurnInv'
<1> SUFFICES ASSUME TurnInv, [SocketNext]_socketVars PROVE TurnInv' OBVIOUS
<1>1. SocketTypeOK'
  BY SocketTypeStep DEF TurnInv
<1>2. ASSUME ~concurrent' PROVE InTurn'
  <2>1. CASE UNCHANGED socketVars
    BY <1>2, <2>1 DEF TurnInv, socketVars, argsVars, sendHistory, InTurn, SoleCall, OnceInPool,
       HeldAlone, UsedAlone, SetUp, Sending, ArgsOf, Peer
  <2>2. ASSUME NEW m \in Messages, PopEmpty(m) PROVE InTurn'
    <3>1. ~concurrent /\ at[m] = "new" /\ at' = [at EXCEPT ![m] = "thrown"] /\ at \in [Messages -> SendPoints]
          /\ UNCHANGED <<pool, socketArgs, popped, endpoint, buffer, inUse, completing, wire>>
      BY <1>2, <2>2 DEF PopEmpty, At, argsVars, sendHistory, TurnInv, SocketTypeOK
    <3>2. \A n \in Messages : /\ Sending(n)' <=> Sending(n)
                              /\ ArgsOf(n)' = ArgsOf(n)
                              /\ at'[n] = at[n] \/ at'[n] = "thrown"
      BY <3>1 DEF Sending, ArgsOf
    <3> QED BY <3>1, <3>2 DEF TurnInv, InTurn, SoleCall, OnceInPool, HeldAlone, UsedAlone, SetUp, Peer
  <2> QED BY <1>2, <2>1, <2>2, TurnPop, TurnSend, TurnCompletion DEF SocketNext
<1> QED BY <1>1, <1>2 DEF TurnInv

\* As long as no two calls of Send overlap, each args has one owner, and a caller's is
\* nowhere else.
THEOREM OneCallOneArgs == SocketSpec => []OneOwner
<1> QED BY TurnIsOwned, TurnInit, TurnStep, PTL DEF SocketSpec

\* As long as no two calls of Send overlap, every message goes to its own peer.
THEOREM MessagesReachTheirPeer == SocketSpec => []OwnPeer
<1> QED BY TurnIsOwned, TurnInit, TurnStep, PTL DEF SocketSpec

==================================================================================
