------------------------------ MODULE MsgReceiver ------------------------------
(***************************************************************************)
(* The receiving side of Netframe: ReceiveDataAsync of UDPThread, which    *)
(* posts the next receive before it handles the datagram, so that several  *)
(* callbacks run at once; MsgTranslator.PackageReceived, which confirms,   *)
(* reassembles and drops what it has received before; and the static       *)
(* packageCache of MessagePacker.                                          *)
(*                                                                         *)
(* A datagram is a fragment of a message; zipping and splitting one, and   *)
(* unzipping it again, is the identity when all fragments are of the same  *)
(* message and fails when they are not.  The network is external: it may   *)
(* lose, repeat and reorder fragments, up to Copies arrivals of each.      *)
(* ReceivedQueue is used without a lock: testing it, adding to it, testing *)
(* its size and taking from it are separate steps.  Two of its operations  *)
(* that run at the same time may leave it torn: its array, positions and   *)
(* size do not fit any more, ever, and what it answers then is any outcome *)
(* that the numbers stored in it allow.                                    *)
(*                                                                         *)
(* CheckForOutdateMessage, which would empty packageCache, is not here:    *)
(* nothing calls it.                                                       *)
(*                                                                         *)
(* A definition named X_Bug is X with a plausible mistake in it; no action *)
(* uses it, it serves to see that a property notices the mistake.          *)
(***************************************************************************)
EXTENDS Integers, Sequences, FiniteSets

CONSTANTS
  Messages,       \* messages sent to this process
  Confirmations,  \* those with command RecvConfirm
  PackageNos,     \* the numbers the senders may choose for their messages
  PackageCount,   \* fragments of each message
  ConfirmedNos,   \* the numbers the confirmations may name (0: none)
  MaxInt,         \* largest number TryParseToInt returns (2^31 - 1)
  QueueSize,      \* 100 in the code
  Callbacks,      \* threads that run ReceiveDataAsync
  Copies,         \* bound: arrivals of one fragment
  None            \* null

ASSUME MessagesAssumption == Confirmations \subseteq Messages
ASSUME NumbersAssumption ==
  PackageNos \subseteq [Messages -> Nat \ {0}] /\ ConfirmedNos \subseteq [Confirmations -> Nat]
ASSUME CountAssumption == PackageCount \in [Messages -> Nat \ {0}]
ASSUME CallbacksAssumption == IsFiniteSet(Callbacks)
ASSUME BoundsAssumption == MaxInt \in Nat /\ QueueSize \in Nat \ {0} /\ Copies \in Nat

FragmentsOf(m) == {[msg |-> m, index |-> i] : i \in 0..(PackageCount[m] - 1)}
Fragments == UNION {FragmentsOf(m) : m \in Messages}
ASSUME NoneAssumption == None \notin Messages \cup Fragments
Numbers == UNION {{choice[m] : m \in Messages} : choice \in PackageNos}

VARIABLES
  PackageNo,  \* number of each message: its sender has drawn it at random
  Confirmed,  \* PackageNo in the text of each confirmation
  crashed,    \* an exception nobody catches has ended the process
  arrived,    \* history: arrivals of each fragment
  at,         \* where each callback is
  pack,       \* the fragment it handles
  msg,        \* the message it has reassembled
  cache,      \* packageCache: the array of each number, <<>> if there is none
  received,   \* ReceivedQueue, while it is not torn
  torn,       \* two operations on ReceivedQueue have collided
  lapsed,     \* history: numbers ReceivedQueue need not know although they were accepted
  confirms,   \* history: fragments a confirmation has been sent for
  pops,       \* history: numbers PopSendItemFromList has been called with
  delivered,  \* history: MessageReceived events for each message
  dropped     \* history: MessageDroped events for each message

history == <<confirms, pops, delivered, dropped>>
queueVars == <<received, torn, lapsed>>
numbers == <<PackageNo, Confirmed>>
vars == <<numbers, crashed, arrived, at, pack, msg, cache, queueVars, history>>

Passed == {"enqueue", "count", "dequeue", "deliver"}
Stages == {"idle", "confirm", "translate", "test"} \cup Passed

\* Callbacks that have stored a number and may still have to take one out.
Overdue == {k \in Callbacks : at[k] \in {"count", "dequeue"}}

TypeOK ==
  /\ PackageNo \in PackageNos /\ Confirmed \in ConfirmedNos
  /\ crashed \in BOOLEAN
  /\ arrived \in [Fragments -> Nat]
  /\ at \in [Callbacks -> Stages]
  /\ pack \in [Callbacks -> Fragments \cup {None}]
  /\ msg \in [Callbacks -> Messages \cup {None}]
  /\ \A k \in Callbacks : /\ at[k] = "idle" <=> pack[k] = None
                          /\ at[k] \in {"test"} \cup Passed <=> msg[k] # None
  /\ cache \in [Numbers -> Seq(Fragments \cup {None})]
  /\ received \in Seq(Numbers) /\ (torn => received = <<>>)
  /\ Len(received) <= QueueSize + Cardinality(Overdue)
  /\ torn \in BOOLEAN
  /\ lapsed \subseteq Numbers
  /\ confirms \subseteq Fragments
  /\ pops \subseteq Nat \ {0}
  /\ delivered \in [Messages -> Nat]
  /\ dropped \in [Messages -> Nat]

\* GetRandomNumber takes the millisecond for its seed: two messages can get one number.
Init ==
  /\ PackageNo \in PackageNos /\ Confirmed \in ConfirmedNos
  /\ crashed = FALSE
  /\ arrived = [f \in Fragments |-> 0]
  /\ at = [k \in Callbacks |-> "idle"]
  /\ pack = [k \in Callbacks |-> None]
  /\ msg = [k \in Callbacks |-> None]
  /\ cache = [n \in Numbers |-> <<>>]
  /\ received = <<>> /\ torn = FALSE /\ lapsed = {}
  /\ confirms = {} /\ pops = {}
  /\ delivered = [m \in Messages |-> 0]
  /\ dropped = [m \in Messages |-> 0]

\* EndReceive has a datagram; the next BeginReceive is posted at once.
ReceiveDataAsync(k, f) ==
  /\ ~crashed
  /\ at[k] = "idle"
  /\ arrived[f] < Copies
  /\ arrived' = [arrived EXCEPT ![f] = @ + 1]
  /\ pack' = [pack EXCEPT ![k] = f]
  /\ at' = [at EXCEPT ![k] = "confirm"]
  /\ UNCHANGED <<crashed, msg, cache, queueVars, history>>

\* The confirmation goes out before anything is done with the fragment.  (A
\* confirmation is not itself confirmed.)
SendConfirm(k) ==
  /\ ~crashed
  /\ at[k] = "confirm"
  /\ confirms' = IF pack[k].msg \in Confirmations THEN confirms ELSE confirms \cup {pack[k]}
  /\ at' = [at EXCEPT ![k] = "translate"]
  /\ UNCHANGED <<crashed, arrived, pack, msg, cache, queueVars, pops, delivered, dropped>>

(***************************************************************************)
(* TryToTranslateMessage, under lock(packageCache).                        *)
(***************************************************************************)

\* The array of f's number with f in its place (the mistake: always a new array).
Stored_Bug(f) ==
  [i \in 1..PackageCount[f.msg] |-> IF i = f.index + 1 THEN f ELSE None]
Stored(f) ==
  LET array == cache[PackageNo[f.msg]]
  IN  IF array = <<>>
      THEN [i \in 1..PackageCount[f.msg] |-> IF i = f.index + 1 THEN f ELSE None]
      ELSE [array EXCEPT ![f.index + 1] = f]

Full(array) == \A i \in DOMAIN array : array[i] # None

\* ParseToMessage: fragments of different messages do not unzip.
Parsed(array) ==
  IF /\ Len(array) = PackageCount[array[1].msg]
     /\ \A i \in DOMAIN array : array[i].msg = array[1].msg
  THEN array[1].msg
  ELSE None

\* The callback goes on with m, or ends because there is no message.
GoOnWith(k, m) ==
  /\ msg' = [msg EXCEPT ![k] = m]
  /\ at' = [at EXCEPT ![k] = IF m = None THEN "idle" ELSE "test"]
  /\ pack' = IF m = None THEN [pack EXCEPT ![k] = None] ELSE pack

\* Every fragment is taken for a whole message.
SinglePacket_Bug(k) ==
  /\ ~crashed
  /\ at[k] = "translate"
  /\ GoOnWith(k, pack[k].msg)
  /\ UNCHANGED <<crashed, arrived, cache, queueVars, history>>

SinglePacket(k) ==
  /\ ~crashed
  /\ at[k] = "translate"
  /\ PackageCount[pack[k].msg] = 1
  /\ GoOnWith(k, pack[k].msg)
  /\ UNCHANGED <<crashed, arrived, cache, queueVars, history>>

\* The array was made for another message with this number, and is too short.
FragmentOutOfRange(k) ==
  /\ ~crashed
  /\ at[k] = "translate"
  /\ PackageCount[pack[k].msg] > 1
  /\ LET array == cache[PackageNo[pack[k].msg]]
     IN  array # <<>> /\ pack[k].index >= Len(array)
  /\ crashed' = TRUE
  /\ UNCHANGED <<arrived, at, pack, msg, cache, queueVars, history>>

CacheFragment(k) ==
  /\ ~crashed
  /\ at[k] = "translate"
  /\ PackageCount[pack[k].msg] > 1
  /\ LET n == PackageNo[pack[k].msg]
         array == Stored(pack[k])
     IN  /\ cache[n] = <<>> \/ pack[k].index < Len(cache[n])
         /\ IF Full(array)
            THEN cache' = [cache EXCEPT ![n] = <<>>] /\ GoOnWith(k, Parsed(array))
            ELSE cache' = [cache EXCEPT ![n] = array] /\ GoOnWith(k, None)
  /\ UNCHANGED <<crashed, arrived, queueVars, history>>

(***************************************************************************)
(* The rest of PackageReceived.                                            *)
(***************************************************************************)
InReceivedQueue_Bug(n) == \E i \in 1..(Len(received) - 1) : received[i] = n
InReceivedQueue(n) == \E i \in DOMAIN received : received[i] = n

\* n has been, or is being, put into ReceivedQueue.
Accepted(n) ==
  \E m \in Messages :
    /\ PackageNo[m] = n
    /\ delivered[m] > 0 \/ \E k \in Callbacks : msg[k] = m /\ at[k] \in Passed

\* Contains(n): a torn queue may find what was stored in it, or not find it.
Found(n) == IF torn THEN Accepted(n) ELSE InReceivedQueue(n)
NotFound(n) == torn \/ ~InReceivedQueue(n)

Done(k) ==
  /\ at' = [at EXCEPT ![k] = "idle"]
  /\ pack' = [pack EXCEPT ![k] = None]
  /\ msg' = [msg EXCEPT ![k] = None]

TryParseToInt_Bug(n) == IF n < MaxInt THEN n ELSE 0
TryParseToInt(n) == IF n <= MaxInt THEN n ELSE 0

HandleConfirmation(k) ==
  /\ ~crashed
  /\ at[k] = "test"
  /\ msg[k] \in Confirmations
  /\ LET pno == TryParseToInt(Confirmed[msg[k]])
     IN  pops' = IF pno # 0 THEN pops \cup {pno} ELSE pops
  /\ Done(k)
  /\ UNCHANGED <<crashed, arrived, cache, queueVars, confirms, delivered, dropped>>

DropRepeated(k) ==
  /\ ~crashed
  /\ at[k] = "test"
  /\ msg[k] \notin Confirmations
  /\ Found(PackageNo[msg[k]])
  /\ dropped' = [dropped EXCEPT ![msg[k]] = @ + 1]
  /\ Done(k)
  /\ UNCHANGED <<crashed, arrived, cache, queueVars, confirms, pops, delivered>>

\* Another callback may have found the same number missing, and not have stored it yet.
NotReceivedBefore(k) ==
  /\ ~crashed
  /\ at[k] = "test"
  /\ msg[k] \notin Confirmations
  /\ LET n == PackageNo[msg[k]]
     IN  /\ NotFound(n)
         /\ lapsed' = IF \E o \in Callbacks : at[o] = "enqueue" /\ PackageNo[msg[o]] = n
                      THEN lapsed \cup {n}
                      ELSE lapsed
  /\ at' = [at EXCEPT ![k] = "enqueue"]
  /\ UNCHANGED <<crashed, arrived, pack, msg, cache, received, torn, history>>

\* An operation of k makes ReceivedQueue q, or tears it when others may be under way.
Alone(k) == ~torn /\ \A o \in Callbacks \ {k} : at[o] \notin {"enqueue", "dequeue"}
Becomes(k, q) ==
  \/ ~torn /\ received' = q /\ UNCHANGED torn
  \/ ~Alone(k) /\ received' = <<>> /\ torn' = TRUE

Enqueue(k) ==
  /\ ~crashed
  /\ at[k] = "enqueue"
  /\ Becomes(k, Append(received, PackageNo[msg[k]]))
  /\ at' = [at EXCEPT ![k] = "count"]
  /\ UNCHANGED <<crashed, arrived, pack, msg, cache, lapsed, history>>

Overfull_Bug == Len(received) > QueueSize + 1
Overfull == Len(received) > QueueSize

TestCount(k) ==
  /\ ~crashed
  /\ at[k] = "count"
  /\ \/ (torn \/ Overfull) /\ at' = [at EXCEPT ![k] = "dequeue"]
     \/ (torn \/ ~Overfull) /\ at' = [at EXCEPT ![k] = "deliver"]
  /\ UNCHANGED <<crashed, arrived, pack, msg, cache, queueVars, history>>

\* The oldest number is forgotten.  (Dequeue throws when there is none, which takes
\* more callbacks at once than QueueSize.)
Dequeue(k) ==
  /\ ~crashed
  /\ at[k] = "dequeue"
  /\ IF ~torn /\ received = <<>>
     THEN crashed' = TRUE /\ UNCHANGED <<at, queueVars>>
     ELSE /\ Becomes(k, Tail(received))
          /\ lapsed' = IF torn THEN lapsed ELSE lapsed \cup {Head(received)}
          /\ at' = [at EXCEPT ![k] = "deliver"]
          /\ UNCHANGED crashed
  /\ UNCHANGED <<arrived, pack, msg, cache, history>>

OnMessageReceived(k) ==
  /\ ~crashed
  /\ at[k] = "deliver"
  /\ delivered' = [delivered EXCEPT ![msg[k]] = @ + 1]
  /\ Done(k)
  /\ UNCHANGED <<crashed, arrived, cache, queueVars, confirms, pops, dropped>>

Callback(k) ==
  \/ SendConfirm(k) \/ SinglePacket(k) \/ FragmentOutOfRange(k) \/ CacheFragment(k)
  \/ HandleConfirmation(k) \/ DropRepeated(k) \/ NotReceivedBefore(k)
  \/ Enqueue(k) \/ TestCount(k) \/ Dequeue(k) \/ OnMessageReceived(k)

Next ==
  /\ \E k \in Callbacks : Callback(k) \/ \E f \in Fragments : ReceiveDataAsync(k, f)
  /\ UNCHANGED numbers

Spec == Init /\ [][Next]_vars

(***************************************************************************)
(* Properties.                                                             *)
(***************************************************************************)

\* What is given to the application, or dropped as received before, has arrived
\* completely: no message is put together from fragments of which one is missing.
CompleteBeforeDelivered ==
  \A m \in Messages :
    delivered[m] + dropped[m] > 0 => \A f \in FragmentsOf(m) : arrived[f] > 0

\* Arrivals of f that TryToTranslateMessage has treated.
Treated(f) ==
  arrived[f] - Cardinality({k \in Callbacks : pack[k] = f /\ at[k] \in {"confirm", "translate"}})

\* Nothing confirmed is lost of a message whose number is its own: once every fragment
\* has been treated, in any order, on any threads and with repetitions, the message has
\* been delivered or a callback is about to deliver it.
OwnNumber(m) == \A o \in Messages \ {m} : PackageNo[o] # PackageNo[m]
NothingLost ==
  \A m \in Messages \ Confirmations :
    OwnNumber(m) /\ (\A f \in FragmentsOf(m) : Treated(f) > 0)
      => delivered[m] > 0 \/ \E k \in Callbacks : msg[k] = m

\* The queue of received numbers is there to "check whether the queue of recently
\* received messages already contains this packet; if so, it is dropped"
\* (MsgTranslator.cs:74).  On any number of callbacks it does: messages with the same
\* number are given to the application once in all, unless the queue is torn, the number
\* has left it, or two callbacks have looked for it before either had stored it.
Trusted(n) == ~torn /\ n \notin lapsed
DeliveredOnce ==
  \A m, o \in Messages :
    PackageNo[m] = PackageNo[o] /\ Trusted(PackageNo[m]) /\ delivered[m] > 0 /\ delivered[o] > 0
      => m = o /\ delivered[m] = 1

\* "Call PopSendItemFromList to tell that the packet has been received"
\* (UDPThread.cs:304): a confirmation handled on any thread does so if, and only if,
\* its number is one that an int can hold; with any other, or none, it changes nothing,
\* and the packet it confirms stays on the list of its sender.
Handled(m) ==
  (\A f \in FragmentsOf(m) : Treated(f) > 0) /\ \A k \in Callbacks : msg[k] # m
ConfirmationsPop ==
  /\ \A n \in pops :
       /\ n \in 1..MaxInt
       /\ \E m \in Confirmations : Confirmed[m] = n /\ \A f \in FragmentsOf(m) : arrived[f] > 0
  /\ \A m \in Confirmations :
       OwnNumber(m) /\ Handled(m) /\ Confirmed[m] \in 1..MaxInt => Confirmed[m] \in pops
================================================================================
