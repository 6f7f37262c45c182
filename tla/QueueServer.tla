------------------------------- MODULE QueueServer -------------------------------
(***************************************************************************)
(* QueueServer<T> of WHC.OrderWater.Commons: EnqueueItem puts an item on   *)
(* the queue under lock(queue) and then, outside it, makes sure that a     *)
(* thread works on the queue; the thread ends when it finds the queue      *)
(* empty.  Any number of calls may run at once.                            *)
(*                                                                         *)
(* Each call of EnqueueItem has an item of its own and is named after it,  *)
(* and so is the Thread object it creates, if it creates one.  A thread    *)
(* that has left its loop is alive until it has ended.  The handler        *)
(* ProcessItem is external; what it throws is swallowed.                   *)
(*                                                                         *)
(* A definition named X_Bug is X with a plausible mistake in it; no action *)
(* uses it, it serves to see that a property notices the mistake.          *)
(***************************************************************************)
EXTENDS Integers, Sequences

CONSTANTS
  Items,   \* items to be processed
  None     \* null

ASSUME NoneAssumption == None \notin Items

VARIABLES
  queue,      \* Queue<T>
  thread,     \* the field: the Thread made last
  status,     \* of the Thread object each call has made
  item,       \* the local of ThreadProc of each thread
  call,       \* where each call of EnqueueItem is
  processed,  \* history: items ProcessItem has been called with
  missed,     \* history: a call relied on a thread that had left its loop
  overlapped  \* history: two calls of EnqueueItem ran at the same time

threadVars  == <<thread, status, item>>
historyVars == <<processed, missed, overlapped>>
vars == <<queue, threadVars, call, historyVars>>

Statuses == {"none", "unstarted", "loop", "process", "left", "ended"}
Points   == {"new", "test", "create", "background", "start", "returned", "thrown"}

TypeOK ==
  /\ queue \in Seq(Items)
  /\ thread \in Items \cup {None}
  /\ status \in [Items -> Statuses]
  /\ item \in [Items -> Items \cup {None}]
  /\ call \in [Items -> Points]
  /\ processed \subseteq Items
  /\ missed \in BOOLEAN /\ overlapped \in BOOLEAN
  /\ \A t \in Items : status[t] = "process" <=> item[t] # None
  /\ \A i \in Items : call[i] \in {"background", "start"} => thread # None
  /\ \A i \in Items : call[i] \in {"new", "test", "create"} => status[i] = "none"
  /\ thread # None => status[thread] # "none"

Init ==
  /\ queue = <<>>
  /\ thread = None
  /\ status = [t \in Items |-> "none"]
  /\ item = [t \in Items |-> None]
  /\ call = [i \in Items |-> "new"]
  /\ processed = {} /\ missed = FALSE /\ overlapped = FALSE

Running(i) == call[i] \in {"test", "create", "background", "start"}

(***************************************************************************)
(* EnqueueItem.                                                            *)
(***************************************************************************)
Enqueue(i) ==
  /\ call[i] = "new"
  /\ queue' = Append(queue, i)
  /\ call' = [call EXCEPT ![i] = "test"]
  /\ overlapped' = (overlapped \/ \E j \in Items : Running(j))
  /\ UNCHANGED <<threadVars, processed, missed>>

IsAlive(t) == status[t] \in {"loop", "process", "left"}
NeedsThread_Once == thread = None
NeedsThread_Always == TRUE
NeedsThread == thread = None \/ ~IsAlive(thread)

TestThread(i) ==
  /\ call[i] = "test"
  /\ call' = [call EXCEPT ![i] = IF NeedsThread THEN "create" ELSE "returned"]
  /\ missed' = (missed \/ (~NeedsThread /\ status[thread] = "left"))
  /\ UNCHANGED <<queue, threadVars, processed, overlapped>>

CreateThread(i) ==
  /\ call[i] = "create"
  /\ thread' = i
  /\ status' = [status EXCEPT ![i] = "unstarted"]
  /\ call' = [call EXCEPT ![i] = "background"]
  /\ UNCHANGED <<queue, item, historyVars>>

\* The field is read again, here and in Start: it may hold a Thread that another call has
\* made.  IsBackground throws if that one has ended.
SetBackground(i) ==
  /\ call[i] = "background"
  /\ call' = [call EXCEPT ![i] = IF status[thread] = "ended" THEN "thrown" ELSE "start"]
  /\ UNCHANGED <<queue, threadVars, historyVars>>

\* Start throws if that Thread has been started already.
Start(i) ==
  /\ call[i] = "start"
  /\ IF status[thread] = "unstarted"
     THEN /\ status' = [status EXCEPT ![thread] = "loop"]
          /\ call' = [call EXCEPT ![i] = "returned"]
     ELSE /\ call' = [call EXCEPT ![i] = "thrown"]
          /\ UNCHANGED status
  /\ UNCHANGED <<queue, thread, item, historyVars>>

EnqueueItem(i) == TestThread(i) \/ CreateThread(i) \/ SetBackground(i) \/ Start(i)

(***************************************************************************)
(* ThreadProc.                                                             *)
(***************************************************************************)

\* The item is only looked at under the lock, and removed when it has been processed.
Dequeue_Bug(t) ==
  /\ status[t] = "loop"
  /\ queue # <<>>
  /\ item' = [item EXCEPT ![t] = Head(queue)]
  /\ status' = [status EXCEPT ![t] = "process"]
  /\ UNCHANGED <<queue, thread, call, historyVars>>

Dequeue(t) ==
  /\ status[t] = "loop"
  /\ queue # <<>>
  /\ item' = [item EXCEPT ![t] = Head(queue)]
  /\ queue' = Tail(queue)
  /\ status' = [status EXCEPT ![t] = "process"]
  /\ UNCHANGED <<thread, call, historyVars>>

\* The handler is called without a catch: what it throws ends the thread.
ProcessItem_Bug(t) ==
  /\ status[t] = "process"
  /\ processed' = processed \cup {item[t]}
  /\ \/ item' = [item EXCEPT ![t] = None] /\ status' = [status EXCEPT ![t] = "loop"]
     \/ UNCHANGED item /\ status' = [status EXCEPT ![t] = "ended"]
  /\ UNCHANGED <<queue, thread, call, missed, overlapped>>

ProcessItem(t) ==
  /\ status[t] = "process"
  /\ processed' = processed \cup {item[t]}
  /\ item' = [item EXCEPT ![t] = None]
  /\ status' = [status EXCEPT ![t] = "loop"]
  /\ UNCHANGED <<queue, thread, call, missed, overlapped>>

Break(t) ==
  /\ status[t] = "loop"
  /\ queue = <<>>
  /\ status' = [status EXCEPT ![t] = "left"]
  /\ UNCHANGED <<queue, thread, item, call, historyVars>>

End(t) ==
  /\ status[t] = "left"
  /\ status' = [status EXCEPT ![t] = "ended"]
  /\ UNCHANGED <<queue, thread, item, call, historyVars>>

ThreadProc(t) == Dequeue(t) \/ ProcessItem(t) \/ Break(t) \/ End(t)

\* ClearItems, also all that Dispose does: items can be enqueued after it.
ClearItems ==
  /\ queue # <<>>
  /\ queue' = <<>>
  /\ UNCHANGED <<threadVars, call, historyVars>>

Next ==
  \/ \E i \in Items : Enqueue(i) \/ EnqueueItem(i)
  \/ \E t \in Items : ThreadProc(t)
  \/ ClearItems

Spec == Init /\ [][Next]_vars

\* A call that has begun and a thread that runs keep running.
FairSpec == Spec /\ \A i \in Items : WF_vars(EnqueueItem(i)) /\ WF_vars(ThreadProc(i))

(***************************************************************************)
(* Properties.                                                             *)
(***************************************************************************)
Waits(i) == \E n \in DOMAIN queue : queue[n] = i
Looks(t) == status[t] \in {"loop", "process"}

\* Whatever the calls and threads do at the same time, items that wait have a thread
\* that will look at the queue again, or a call that will start one; with one
\* exception: a call that met a thread alive which had left its loop already.
NotForgotten ==
  queue # <<>> /\ ~missed =>
    \/ \E t \in Items : Looks(t)
    \/ \E i \in Items : call[i] \in {"test", "create"}
    \/ \E i \in Items : call[i] \in {"background", "start"} /\ status[thread] = "unstarted"

\* Calls that do not overlap never fail in IsBackground or Start of a Thread and never make two threads
\* work on the queue, so that its items are processed one by one in their order.
OneAtATime ==
  ~overlapped => /\ \A t, u \in Items : Looks(t) /\ Looks(u) => t = u
                 /\ \A i \in Items : call[i] # "thrown"

\* With any number of threads each item is taken once, in order.
Queue == INSTANCE WorkQueue
           WITH waiting <- queue,
                busy <- {item[t] : t \in {u \in Items : status[u] = "process"}}
IsWorkQueue == Queue!Spec

\* An item that waits is taken or cleared at last, but for the same exception.
Leaves == \A i \in Items : Waits(i) ~> (missed \/ ~Waits(i))
================================================================================
