---------------------------- MODULE MsgReceiver_proofs ----------------------------
(***************************************************************************)
(* Proofs about MsgReceiver for all messages, numbers and callbacks.  To   *)
(* know that only what is complete is delivered one needs to know what     *)
(* stands in packageCache and what each callback has in its hands          *)
(* (ReceiverInv); that nothing is lost, what was treated of a message with *)
(* a number of its own (KeepInv); that repeats are dropped, who has passed *)
(* the test of ReceivedQueue with a number, and that the number is in the  *)
(* queue from then on (OnceInv).                                           *)
(***************************************************************************)
EXTENDS MsgReceiver, SequenceTheorems, FiniteSetTheorems, TLAPS

Complete(m) == \A f \in FragmentsOf(m) : arrived[f] > 0

\* A slot of an array holds the fragment with its index, which has arrived.
Sound(array) ==
  \A i \in DOMAIN array :
    array[i] # None => array[i].index = i - 1 /\ arrived[array[i]] > 0

ReceiverInv ==
  /\ TypeOK
  /\ \A k \in Callbacks : pack[k] # None => arrived[pack[k]] > 0
  /\ \A k \in Callbacks : msg[k] # None => Complete(msg[k])
  /\ \A n \in Numbers : Sound(cache[n])
  /\ CompleteBeforeDelivered

-----------------------------------------------------------------------------
\* Finitely many callbacks have put a number into ReceivedQueue just now.
LEMMA OverdueFinite == IsFiniteSet(Overdue) /\ Cardinality(Overdue) \in Nat
  BY CallbacksAssumption, FS_Subset, FS_CardinalityType DEF Overdue

\* A fragment is known by its message and its index.
LEMMA FragmentFields ==
  ASSUME NEW f \in Fragments
  PROVE  /\ f.msg \in Messages
         /\ f.index \in 0..(PackageCount[f.msg] - 1)
         /\ f = [msg |-> f.msg, index |-> f.index]
         /\ f # None
  BY NoneAssumption DEF Fragments, FragmentsOf

\* The fragments of a message are fragments.
LEMMA FragmentsOfMessage ==
  ASSUME NEW m \in Messages
  PROVE  FragmentsOf(m) \subseteq Fragments
  BY DEF Fragments

\* A message has at least one fragment.
LEMMA PartsAreCounted ==
  ASSUME NEW m \in Messages
  PROVE  PackageCount[m] \in Nat /\ PackageCount[m] >= 1
  BY CountAssumption

\* The number of a message is a number, and packageCache has an entry for it.
LEMMA NumberOfMessage ==
  ASSUME TypeOK, NEW m \in Messages
  PROVE  PackageNo[m] \in Numbers
  BY DEF TypeOK, Numbers

\* Nothing has arrived at first.
LEMMA ReceiverInit == Init => ReceiverInv
  <1> SUFFICES ASSUME Init PROVE ReceiverInv
    OBVIOUS
  <1>1. TypeOK
    <2>1. /\ cache \in [Numbers -> Seq(Fragments \cup {None})] /\ received \in Seq(Numbers)
          /\ torn \in BOOLEAN /\ lapsed \subseteq Numbers /\ received = <<>>
      <3>1. <<>> \in Seq(Numbers) /\ <<>> \in Seq(Fragments \cup {None})
        BY EmptySeq
      <3> QED
        BY <3>1 DEF Init
    <2>3. Len(received) <= QueueSize + Cardinality(Overdue)
      <3>1. QueueSize \in Nat /\ Cardinality(Overdue) \in Nat /\ Len(received) = 0
        BY <2>1, OverdueFinite, BoundsAssumption
      <3> QED
        BY <3>1
    <2>2. arrived \in [Fragments -> Nat] /\ delivered \in [Messages -> Nat] /\ dropped \in [Messages -> Nat]
      BY DEF Init
    <2>4. \A k \in Callbacks : /\ at[k] = "idle" <=> pack[k] = None
                               /\ at[k] \in {"test"} \cup Passed <=> msg[k] # None
      BY DEF Init, Passed
    <2> QED
      BY <2>1, <2>2, <2>3, <2>4 DEF Init, TypeOK, Stages
  <1>2. \A n \in Numbers : Sound(cache[n])
    BY DEF Init, Sound
  <1>3. CompleteBeforeDelivered
    BY DEF Init, CompleteBeforeDelivered
  <1> QED
    BY <1>1, <1>2, <1>3 DEF Init, ReceiverInv

\* EndReceive: one more arrival, and a callback that has the fragment in its hands.
LEMMA ReceiveStep ==
  ASSUME ReceiverInv, NEW k \in Callbacks, NEW f \in Fragments,
         ReceiveDataAsync(k, f), UNCHANGED <<PackageNo, Confirmed>>
  PROVE  ReceiverInv'
  <1> USE DEF ReceiveDataAsync, history, queueVars
  <1>1. arrived \in [Fragments -> Nat] /\ arrived' = [arrived EXCEPT ![f] = @ + 1]
    BY DEF ReceiverInv, TypeOK
  <1>2. arrived' \in [Fragments -> Nat]
    BY <1>1
  <1>3. \A g \in Fragments : arrived[g] > 0 => arrived'[g] > 0
    BY <1>1
  <1>4. arrived'[f] > 0
    BY <1>1
  <1>10. Overdue' = Overdue
    BY DEF Overdue, ReceiverInv, TypeOK
  <1>5. TypeOK'
    BY <1>2, <1>10, FragmentFields DEF ReceiverInv, TypeOK, Stages, Passed
  <1>6. \A o \in Callbacks : pack'[o] # None => arrived'[pack'[o]] > 0
    BY <1>3, <1>4 DEF ReceiverInv, TypeOK
  <1>7. \A o \in Callbacks : (msg[o] # None => Complete(msg[o]))'
    <2> SUFFICES ASSUME NEW o \in Callbacks, msg[o] # None
                 PROVE  Complete(msg[o])'
      OBVIOUS
    <2>1. msg[o] \in Messages /\ Complete(msg[o])
      BY DEF ReceiverInv, TypeOK
    <2> QED
      BY <1>3, <2>1, FragmentsOfMessage DEF Complete
  <1>8. \A n \in Numbers : Sound(cache[n])'
    BY <1>3 DEF ReceiverInv, TypeOK, Sound
  <1>9. CompleteBeforeDelivered'
    <2> SUFFICES ASSUME NEW m \in Messages, delivered[m] + dropped[m] > 0, NEW g \in FragmentsOf(m)
                 PROVE  arrived'[g] > 0
      BY DEF CompleteBeforeDelivered
    <2> QED
      BY <1>3, FragmentsOfMessage DEF ReceiverInv, CompleteBeforeDelivered
  <1> QED
    BY <1>5, <1>6, <1>7, <1>8, <1>9 DEF ReceiverInv

\* A step that neither receives a datagram nor touches packageCache: it keeps the
\* invariant if what it takes on, delivers or drops is complete.
LEMMA HandsOnly ==
  ASSUME ReceiverInv, TypeOK',
         UNCHANGED <<arrived, cache>>,
         \A k \in Callbacks : pack'[k] \in {pack[k], None},
         \A k \in Callbacks : msg'[k] # None => Complete(msg'[k]),
         \A m \in Messages :
           delivered'[m] + dropped'[m] > 0 => delivered[m] + dropped[m] > 0 \/ Complete(m)
  PROVE  ReceiverInv'
  <1>1. \A k \in Callbacks : pack'[k] # None => arrived'[pack'[k]] > 0
    BY DEF ReceiverInv
  <1>2. \A k \in Callbacks : (msg[k] # None => Complete(msg[k]))'
    BY DEF Complete
  <1>3. \A n \in Numbers : Sound(cache[n])'
    BY DEF ReceiverInv, Sound
  <1>4. CompleteBeforeDelivered'
    BY DEF ReceiverInv, CompleteBeforeDelivered, Complete
  <1> QED
    BY <1>1, <1>2, <1>3, <1>4 DEF ReceiverInv

\* The confirmation goes out.
LEMMA SendConfirmStep ==
  ASSUME ReceiverInv, NEW k \in Callbacks, SendConfirm(k), UNCHANGED <<PackageNo, Confirmed>>
  PROVE  ReceiverInv'
  <1>2. Overdue' = Overdue
    BY DEF Overdue, SendConfirm, ReceiverInv, TypeOK
  <1>1. TypeOK'
    BY <1>2 DEF SendConfirm, ReceiverInv, TypeOK, Stages, Passed, queueVars
  <1> QED
    BY <1>1, HandsOnly DEF SendConfirm, ReceiverInv

\* A message of one fragment is complete when that has arrived.
LEMMA SinglePacketStep ==
  ASSUME ReceiverInv, NEW k \in Callbacks, SinglePacket(k), UNCHANGED <<PackageNo, Confirmed>>
  PROVE  ReceiverInv'
  <1> USE DEF SinglePacket, GoOnWith, history, queueVars
  <1>1. pack[k] \in Fragments /\ pack[k].msg \in Messages /\ arrived[pack[k]] > 0
    BY FragmentFields DEF ReceiverInv, TypeOK
  <1>2. FragmentsOf(pack[k].msg) = {pack[k]}
    <2>1. FragmentsOf(pack[k].msg) = {[msg |-> pack[k].msg, index |-> i] : i \in 0..0}
      BY DEF FragmentsOf
    <2>2. pack[k].index = 0 /\ pack[k] = [msg |-> pack[k].msg, index |-> pack[k].index]
      BY <1>1, FragmentFields
    <2>3. 0..0 = {0}
      OBVIOUS
    <2> QED
      BY <2>1, <2>2, <2>3
  <1>3. Complete(pack[k].msg)
    BY <1>1, <1>2 DEF Complete
  <1>4. pack[k].msg # None
    BY <1>1, NoneAssumption
  <1>9. Overdue' = Overdue
    BY DEF Overdue, ReceiverInv, TypeOK
  <1>5. TypeOK'
    BY <1>1, <1>4, <1>9 DEF ReceiverInv, TypeOK, Stages, Passed
  <1>6. \A o \in Callbacks : msg'[o] # None => Complete(msg'[o])
    BY <1>3 DEF ReceiverInv, TypeOK
  <1>7. \A o \in Callbacks : pack'[o] \in {pack[o], None}
    BY <1>4
  <1>8. UNCHANGED <<arrived, cache, delivered, dropped>>
    OBVIOUS
  <1> QED
    BY <1>5, <1>6, <1>7, <1>8, HandsOnly

\* A callback that has nothing more to do.
LEMMA DoneKeepsHands ==
  ASSUME TypeOK, NEW k \in Callbacks, Done(k)
  PROVE  /\ at' \in [Callbacks -> Stages]
         /\ pack' \in [Callbacks -> Fragments \cup {None}]
         /\ msg' \in [Callbacks -> Messages \cup {None}]
         /\ \A o \in Callbacks : /\ at'[o] = "idle" <=> pack'[o] = None
                                 /\ at'[o] \in {"test"} \cup Passed <=> msg'[o] # None
         /\ \A o \in Callbacks : pack'[o] \in {pack[o], None}
         /\ \A o \in Callbacks : msg'[o] \in {msg[o], None}
  BY DEF TypeOK, Done, Stages, Passed

\* What PackageReceived does with a message: a confirmation, a repetition, a new one.
LEMMA MessageStep ==
  ASSUME ReceiverInv, NEW k \in Callbacks, UNCHANGED <<PackageNo, Confirmed>>,
         HandleConfirmation(k) \/ DropRepeated(k) \/ OnMessageReceived(k)
  PROVE  ReceiverInv'
  <1>1. /\ msg[k] \in Messages /\ Complete(msg[k])
        /\ Done(k) /\ UNCHANGED <<crashed, arrived, cache, received, torn, lapsed, confirms>>
        /\ at[k] \notin {"count", "dequeue"}
    BY DEF ReceiverInv, TypeOK, HandleConfirmation, DropRepeated, OnMessageReceived, Passed, queueVars
  <1>2. /\ at' \in [Callbacks -> Stages]
        /\ pack' \in [Callbacks -> Fragments \cup {None}]
        /\ msg' \in [Callbacks -> Messages \cup {None}]
        /\ \A o \in Callbacks : /\ at'[o] = "idle" <=> pack'[o] = None
                                /\ at'[o] \in {"test"} \cup Passed <=> msg'[o] # None
        /\ \A o \in Callbacks : pack'[o] \in {pack[o], None}
        /\ \A o \in Callbacks : msg'[o] \in {msg[o], None}
    BY <1>1, DoneKeepsHands DEF ReceiverInv
  <1>3. pops' \subseteq Nat \ {0}
    <2>1. CASE HandleConfirmation(k)
      <3>1. msg[k] \in Confirmations /\ Confirmed[msg[k]] \in Nat /\ pops \subseteq Nat \ {0}
        BY <2>1, NumbersAssumption DEF HandleConfirmation, ReceiverInv, TypeOK
      <3>2. TryParseToInt(Confirmed[msg[k]]) \in Nat
        BY <3>1 DEF TryParseToInt
      <3> QED
        BY <2>1, <3>1, <3>2 DEF HandleConfirmation
    <2>2. CASE DropRepeated(k) \/ OnMessageReceived(k)
      BY <2>2 DEF DropRepeated, OnMessageReceived, ReceiverInv, TypeOK
    <2> QED
      BY <2>1, <2>2
  <1>4. Overdue' = Overdue
    BY <1>1 DEF Overdue, ReceiverInv, TypeOK, Done
  <1>5. /\ delivered' \in {delivered, [delivered EXCEPT ![msg[k]] = @ + 1]}
        /\ dropped' \in {dropped, [dropped EXCEPT ![msg[k]] = @ + 1]}
        /\ delivered \in [Messages -> Nat] /\ dropped \in [Messages -> Nat]
    BY DEF HandleConfirmation, DropRepeated, OnMessageReceived, ReceiverInv, TypeOK
  <1>6. delivered' \in [Messages -> Nat] /\ dropped' \in [Messages -> Nat]
    BY <1>5
  <1>7. \A m \in Messages :
          delivered'[m] + dropped'[m] > 0 => delivered[m] + dropped[m] > 0 \/ Complete(m)
    BY <1>1, <1>5
  <1>8. TypeOK'
    BY <1>1, <1>2, <1>3, <1>4, <1>6 DEF ReceiverInv, TypeOK
  <1> QED
    BY <1>1, <1>2, <1>7, <1>8, HandsOnly DEF ReceiverInv

\* The work on ReceivedQueue: a number goes in, and one out when there are too many.
Queueing(k) == NotReceivedBefore(k) \/ Enqueue(k) \/ TestCount(k) \/ Dequeue(k)

\* It leaves the hands of the callbacks alone.
LEMMA QueueingKeepsHands ==
  ASSUME ReceiverInv, NEW k \in Callbacks, Queueing(k)
  PROVE  /\ UNCHANGED <<arrived, pack, msg, cache, confirms, pops, delivered, dropped>>
         /\ crashed' \in BOOLEAN
         /\ at[k] \in {"test"} \cup Passed
         /\ at' = at \/ \E s \in Passed : at' = [at EXCEPT ![k] = s]
         /\ msg[k] \in Messages /\ PackageNo[msg[k]] \in Numbers
<1>1. /\ UNCHANGED <<arrived, pack, msg, cache, confirms, pops, delivered, dropped>>
      /\ crashed' \in BOOLEAN
      /\ at[k] \in {"test"} \cup Passed
      /\ at' = at \/ \E s \in Passed : at' = [at EXCEPT ![k] = s]
  BY DEF Queueing, NotReceivedBefore, Enqueue, TestCount, Dequeue, history, ReceiverInv, TypeOK, Passed
<1>2. msg[k] \in Messages
  BY <1>1 DEF ReceiverInv, TypeOK
<1> QED
  BY <1>1, <1>2, NumberOfMessage DEF ReceiverInv

\* The queue stays a queue of numbers that is too long only while a callback is about
\* to shorten it.
LEMMA QueueBounded ==
  ASSUME ReceiverInv, NEW k \in Callbacks, Queueing(k)
  PROVE  /\ received' \in Seq(Numbers) /\ torn' \in BOOLEAN /\ (torn' => received' = <<>>)
         /\ Len(received') <= QueueSize + Cardinality(Overdue')
         /\ lapsed' \subseteq Numbers
<1> DEFINE n == PackageNo[msg[k]]
<1>1. /\ received \in Seq(Numbers) /\ torn \in BOOLEAN /\ (torn => received = <<>>)
      /\ Len(received) <= QueueSize + Cardinality(Overdue)
      /\ lapsed \subseteq Numbers /\ at \in [Callbacks -> Stages] /\ n \in Numbers
      /\ Len(received) \in Nat /\ QueueSize \in Nat
  BY QueueingKeepsHands, BoundsAssumption DEF ReceiverInv, TypeOK
<1>2. IsFiniteSet(Overdue) /\ Cardinality(Overdue) \in Nat
  BY OverdueFinite
<1>3. IsFiniteSet(Overdue') /\ Cardinality(Overdue') \in Nat
  <2>1. Overdue' \subseteq Callbacks
    BY DEF Overdue
  <2> QED
    BY <2>1, CallbacksAssumption, FS_Subset, FS_CardinalityType
<1> HIDE DEF n
<1>4. Len(<<>>) = 0 /\ <<>> \in Seq(Numbers)
  OBVIOUS
<1>5. CASE NotReceivedBefore(k)
  <2>1. Overdue' = Overdue
    BY <1>1, <1>5 DEF Overdue, NotReceivedBefore
  <2> QED
    BY <1>1, <1>5, <2>1 DEF NotReceivedBefore, n
<1>6. CASE Enqueue(k)
  <2>1. Overdue' = Overdue \cup {k} /\ k \notin Overdue
    BY <1>1, <1>6 DEF Enqueue, Overdue
  <2>2. Cardinality(Overdue') = Cardinality(Overdue) + 1
    BY <1>2, <2>1, FS_AddElement
  <2>3. Append(received, n) \in Seq(Numbers) /\ Len(Append(received, n)) = Len(received) + 1
    BY <1>1
  <2>4. \/ received' = Append(received, n) /\ torn' = FALSE
        \/ received' = <<>> /\ torn' = TRUE
    BY <1>1, <1>6 DEF Enqueue, Becomes, n
  <2>5. lapsed' = lapsed
    BY <1>6 DEF Enqueue
  <2>6. Len(received') <= Len(received) + 1
    BY <1>1, <1>4, <2>3, <2>4
  <2>7. Len(received') <= QueueSize + Cardinality(Overdue')
    <3>1. Len(received') \in Nat
      BY <1>1, <1>4, <2>3, <2>4
    <3> QED
      BY <1>1, <1>2, <2>2, <2>6, <3>1
  <2>8. received' \in Seq(Numbers)
    BY <1>4, <2>3, <2>4
  <2> QED
    BY <1>1, <2>4, <2>5, <2>7, <2>8
<1>7. CASE TestCount(k)
  <2>1. UNCHANGED <<received, torn, lapsed>>
    BY <1>7 DEF TestCount, queueVars
  <2>2. CASE at' = [at EXCEPT ![k] = "dequeue"]
    <3>1. Overdue' = Overdue
      BY <1>1, <1>7, <2>2 DEF TestCount, Overdue
    <3> QED
      BY <1>1, <2>1, <3>1
  <2>3. CASE torn \/ ~Overfull
    BY <1>1, <1>3, <1>4, <2>1, <2>3 DEF Overfull
  <2> QED
    BY <1>7, <2>2, <2>3 DEF TestCount
<1>8. CASE Dequeue(k)
  <2>1. CASE UNCHANGED <<at, queueVars>>
    <3>1. Overdue' = Overdue
      BY <2>1 DEF Overdue
    <3> QED
      BY <1>1, <2>1, <3>1 DEF queueVars
  <2>2. CASE ~UNCHANGED <<at, queueVars>>
    <3>1. /\ torn \/ received # <<>>
          /\ Becomes(k, Tail(received))
          /\ lapsed' = IF torn THEN lapsed ELSE lapsed \cup {Head(received)}
          /\ at[k] = "dequeue" /\ at' = [at EXCEPT ![k] = "deliver"]
      BY <1>8, <2>2 DEF Dequeue
    <3>2. Overdue' = Overdue \ {k} /\ k \in Overdue
      BY <1>1, <3>1 DEF Overdue
    <3>3. Cardinality(Overdue') = Cardinality(Overdue) - 1
      BY <1>2, <3>2, FS_RemoveElement
    <3>4. received # <<>> =>
            /\ Head(received) \in Numbers
            /\ Tail(received) \in Seq(Numbers) /\ Len(Tail(received)) = Len(received) - 1
      BY <1>1, HeadTailProperties
    <3>5. lapsed' \subseteq Numbers
      BY <1>1, <3>1, <3>4
    <3>6. \/ received' = Tail(received) /\ torn' = FALSE /\ received # <<>>
          \/ received' = <<>> /\ torn' = TRUE
      BY <1>1, <3>1 DEF Becomes
    <3>7. received' \in Seq(Numbers)
      BY <1>4, <3>4, <3>6
    <3>8. Len(received') = Len(received) - 1 \/ Len(received') = 0
      BY <1>4, <3>4, <3>6
    <3>9. Len(received') <= QueueSize + Cardinality(Overdue')
      BY <1>1, <1>2, <1>3, <3>3, <3>8
    <3> QED
      BY <3>5, <3>6, <3>7, <3>9
  <2> QED
    BY <2>1, <2>2
<1> QED
  BY <1>5, <1>6, <1>7, <1>8 DEF Queueing

\* So ReceivedQueue, torn or not, does no harm to the rest.
LEMMA QueueingStep ==
  ASSUME ReceiverInv, NEW k \in Callbacks, Queueing(k), UNCHANGED <<PackageNo, Confirmed>>
  PROVE  ReceiverInv'
  <1>1. /\ UNCHANGED <<arrived, pack, msg, cache, confirms, pops, delivered, dropped>>
        /\ crashed' \in BOOLEAN
        /\ at[k] \in {"test"} \cup Passed
        /\ at' = at \/ \E s \in Passed : at' = [at EXCEPT ![k] = s]
    BY QueueingKeepsHands
  <1>2. /\ received' \in Seq(Numbers) /\ torn' \in BOOLEAN /\ (torn' => received' = <<>>)
        /\ Len(received') <= QueueSize + Cardinality(Overdue')
        /\ lapsed' \subseteq Numbers
    BY QueueBounded
  <1>3. /\ at' \in [Callbacks -> Stages]
        /\ \A o \in Callbacks : /\ at'[o] = "idle" <=> pack'[o] = None
                                /\ at'[o] \in {"test"} \cup Passed <=> msg'[o] # None
    BY <1>1 DEF ReceiverInv, TypeOK, Stages, Passed
  <1>4. TypeOK'
    BY <1>1, <1>2, <1>3 DEF ReceiverInv, TypeOK
  <1> QED
    BY <1>1, <1>4, HandsOnly DEF ReceiverInv

\* The exception of an index beyond the array changes nothing but that.
LEMMA FragmentOutOfRangeStep ==
  ASSUME ReceiverInv, NEW k \in Callbacks, FragmentOutOfRange(k), UNCHANGED <<PackageNo, Confirmed>>
  PROVE  ReceiverInv'
  <1>2. Overdue' = Overdue
    BY DEF FragmentOutOfRange, Overdue
  <1>1. TypeOK'
    BY <1>2 DEF FragmentOutOfRange, history, queueVars, ReceiverInv, TypeOK
  <1> QED
    BY <1>1, HandsOnly DEF FragmentOutOfRange, history, queueVars, ReceiverInv

\* The array that CacheFragment fills or makes: as long as the one before, or as the
\* fragment says, with every fragment at its index.
LEMMA StoredIsSound ==
  ASSUME ReceiverInv, NEW f \in Fragments, arrived[f] > 0, NEW n \in Numbers,
         n = PackageNo[f.msg], cache[n] = <<>> \/ f.index < Len(cache[n])
  PROVE  /\ Stored(f) \in Seq(Fragments \cup {None})
         /\ Sound(Stored(f))
         /\ Stored(f) # <<>>
  <1>1. /\ f.msg \in Messages /\ f.index \in 0..(PackageCount[f.msg] - 1) /\ f # None
        /\ PackageCount[f.msg] \in Nat /\ PackageCount[f.msg] >= 1
    BY FragmentFields, PartsAreCounted
  <1>2. f.index + 1 \in 1..PackageCount[f.msg] /\ f.index \in Int
    BY <1>1
  <1>3. CASE cache[n] = <<>>
    <2>1. Stored(f) = [i \in 1..PackageCount[f.msg] |-> IF i = f.index + 1 THEN f ELSE None]
      BY <1>3 DEF Stored
    <2>2. Stored(f) \in [1..PackageCount[f.msg] -> Fragments \cup {None}]
      BY <2>1
    <2>3. Stored(f) \in Seq(Fragments \cup {None})
      BY <1>1, <2>2
    <2>4. Stored(f)[f.index + 1] = f
      BY <1>2, <2>1
    <2>5. Stored(f) # <<>>
      <3>1. 1 \in DOMAIN Stored(f)
        BY <1>1, <2>2
      <3> QED
        BY <3>1
    <2>6. Sound(Stored(f))
      BY <1>2, <2>1 DEF Sound
    <2> QED
      BY <2>3, <2>5, <2>6
  <1>4. CASE cache[n] # <<>>
    <2>1. Stored(f) = [cache[n] EXCEPT ![f.index + 1] = f]
      BY <1>4 DEF Stored
    <2>2. cache[n] \in Seq(Fragments \cup {None}) /\ Sound(cache[n])
      BY DEF ReceiverInv, TypeOK
    <2>3. f.index + 1 \in 1..Len(cache[n])
      BY <1>2, <1>4, <2>2
    <2>4. Stored(f) \in Seq(Fragments \cup {None}) /\ DOMAIN Stored(f) = 1..Len(cache[n])
      <3>1. cache[n] \in [1..Len(cache[n]) -> Fragments \cup {None}] /\ Len(cache[n]) \in Nat
        BY <2>2
      <3>2. Stored(f) \in [1..Len(cache[n]) -> Fragments \cup {None}]
        BY <2>1, <2>3, <3>1
      <3> QED
        BY <3>1, <3>2
    <2>5. Stored(f) # <<>>
      BY <2>3, <2>4
    <2>6. Sound(Stored(f))
      BY <1>2, <2>1, <2>2, <2>3 DEF Sound
    <2> QED
      BY <2>4, <2>5, <2>6
  <1> QED
    BY <1>3, <1>4

\* ParseToMessage succeeds only with every fragment of one message.
LEMMA ParsedIsComplete ==
  ASSUME NEW array \in Seq(Fragments \cup {None}), array # <<>>, Sound(array), Full(array),
         Parsed(array) # None
  PROVE  Parsed(array) \in Messages /\ Complete(Parsed(array))
  <1>1. 1 \in DOMAIN array /\ array[1] \in Fragments /\ array[1].msg \in Messages
    BY FragmentFields DEF Full
  <1>2. /\ Parsed(array) = array[1].msg
        /\ Len(array) = PackageCount[array[1].msg]
        /\ \A i \in DOMAIN array : array[i].msg = array[1].msg
    BY DEF Parsed
  <1>3. ASSUME NEW f \in FragmentsOf(array[1].msg)
        PROVE  arrived[f] > 0
    <2>1. PICK i \in 0..(PackageCount[array[1].msg] - 1) : f = [msg |-> array[1].msg, index |-> i]
      BY DEF FragmentsOf
    <2>2. i + 1 \in DOMAIN array /\ i \in Int
      BY <1>1, <1>2, <2>1, PartsAreCounted
    <2>3. array[i + 1] \in Fragments /\ array[i + 1].msg = array[1].msg
      BY <1>2, <2>2 DEF Full
    <2>4. array[i + 1].index = i /\ arrived[array[i + 1]] > 0
      BY <2>2 DEF Full, Sound
    <2>5. array[i + 1] = f
      BY <2>1, <2>3, <2>4, FragmentFields
    <2> QED
      BY <2>4, <2>5
  <1> QED
    BY <1>1, <1>2, <1>3 DEF Complete

\* TryToTranslateMessage with a fragment of several: it stays in packageCache, or the
\* array is full and leaves it.
LEMMA CacheFragmentStep ==
  ASSUME ReceiverInv, NEW k \in Callbacks, CacheFragment(k), UNCHANGED <<PackageNo, Confirmed>>
  PROVE  ReceiverInv'
  <1> DEFINE n == PackageNo[pack[k].msg]
             array == Stored(pack[k])
  <1>1. pack[k] \in Fragments /\ pack[k].msg \in Messages /\ arrived[pack[k]] > 0 /\ at[k] = "translate"
    BY FragmentFields DEF CacheFragment, ReceiverInv, TypeOK
  <1>2. n \in Numbers
    BY <1>1, NumberOfMessage DEF ReceiverInv
  <1>3. array \in Seq(Fragments \cup {None}) /\ Sound(array) /\ array # <<>>
    BY <1>1, <1>2, StoredIsSound DEF CacheFragment
  <1>4. PICK m : /\ m = None \/ (Full(array) /\ m = Parsed(array))
                 /\ GoOnWith(k, m)
                 /\ cache' \in {[cache EXCEPT ![n] = <<>>], [cache EXCEPT ![n] = array]}
    BY DEF CacheFragment
  <1>5. m \in Messages \cup {None} /\ (m # None => Complete(m))
    BY <1>3, <1>4, ParsedIsComplete
  <1>6. UNCHANGED <<crashed, arrived, queueVars, history>>
    BY DEF CacheFragment
  <1>7. cache' \in [Numbers -> Seq(Fragments \cup {None})] /\ \A o \in Numbers : Sound(cache'[o])
    <2>1. <<>> \in Seq(Fragments \cup {None}) /\ Sound(<<>>)
      BY DEF Sound
    <2>2. cache \in [Numbers -> Seq(Fragments \cup {None})] /\ \A o \in Numbers : Sound(cache[o])
      BY DEF ReceiverInv, TypeOK
    <2> HIDE DEF n, array
    <2> QED
      BY <1>2, <1>3, <1>4, <2>1, <2>2
  <1>8. /\ msg' = [msg EXCEPT ![k] = m]
        /\ at' = [at EXCEPT ![k] = IF m = None THEN "idle" ELSE "test"]
        /\ pack' = IF m = None THEN [pack EXCEPT ![k] = None] ELSE pack
    BY <1>4 DEF GoOnWith
  <1> HIDE DEF n, array
  <1>14. Overdue' = Overdue
    BY <1>1, <1>8 DEF Overdue, ReceiverInv, TypeOK
  <1>9. TypeOK'
    BY <1>1, <1>5, <1>6, <1>7, <1>8, <1>14 DEF ReceiverInv, TypeOK, Stages, Passed, history, queueVars
  <1>10. \A o \in Callbacks : (pack[o] # None => arrived[pack[o]] > 0)'
    BY <1>6, <1>8 DEF ReceiverInv, TypeOK
  <1>11. \A o \in Callbacks : (msg[o] # None => Complete(msg[o]))'
    BY <1>5, <1>6, <1>8 DEF ReceiverInv, TypeOK, Complete
  <1>12. \A o \in Numbers : Sound(cache[o])'
    BY <1>6, <1>7 DEF Sound
  <1>13. CompleteBeforeDelivered'
    BY <1>6 DEF ReceiverInv, CompleteBeforeDelivered, history, queueVars
  <1> QED
    BY <1>9, <1>10, <1>11, <1>12, <1>13 DEF ReceiverInv

-----------------------------------------------------------------------------
\* Every step preserves the invariant.
LEMMA ReceiverNext ==
  ASSUME ReceiverInv, [Next]_vars
  PROVE  ReceiverInv'
  <1>1. CASE Next
    BY <1>1, ReceiveStep, SendConfirmStep, SinglePacketStep, FragmentOutOfRangeStep,
       CacheFragmentStep, MessageStep, QueueingStep DEF Next, Callback, Queueing, numbers
  <1>2. CASE UNCHANGED vars
    <2>1. Overdue' = Overdue
      BY <1>2 DEF vars, Overdue
    <2>2. TypeOK'
      BY <1>2, <2>1 DEF vars, numbers, history, queueVars, ReceiverInv, TypeOK
    <2> QED
      BY <1>2, <2>2, HandsOnly DEF vars, history, ReceiverInv
  <1> QED
    BY <1>1, <1>2

\* So it holds in every state of every behaviour.
LEMMA ReceiverInvariance == Spec => []ReceiverInv
  <1>1. ReceiverInv /\ [Next]_vars => ReceiverInv'
    BY ReceiverNext
  <1> QED
    BY <1>1, ReceiverInit, PTL DEF Spec

\* Whatever arrives, on however many callbacks and with whatever numbers, the cache,
\* the queue of received numbers and the callbacks keep their types, and that queue
\* holds more than QueueSize numbers only while callbacks are about to shorten it.
THEOREM ReceiverTypeOK == Spec => []TypeOK
  <1>1. ReceiverInv => TypeOK
    BY DEF ReceiverInv
  <1> QED
    BY <1>1, ReceiverInvariance, PTL

\* No message is delivered, or dropped as repeated, unless each of its fragments has
\* arrived, even when senders use one number for different messages.
THEOREM NothingIncompleteDelivered == Spec => []CompleteBeforeDelivered
  <1>1. ReceiverInv => CompleteBeforeDelivered
    BY DEF ReceiverInv
  <1> QED
    BY <1>1, ReceiverInvariance, PTL

-----------------------------------------------------------------------------
(* What has been treated is not lost.  A message whose number is its own has *)
(* packageCache's entry for that number to itself, so its fragments gather   *)
(* there until the array is full; from then on a callback has the message in *)
(* its hands, and lets go of it only when it has been handled.               *)

\* The number of m is its own; of a confirmation, the number it confirms fits an int.
Regular(m) == OwnNumber(m) /\ (m \in Confirmations => Confirmed[m] \in 1..MaxInt)

\* Callbacks that have f in their hands and have not translated it.
Holders(f) == {k \in Callbacks : pack[k] = f /\ at[k] \in {"confirm", "translate"}}

\* The array of m's number is m's own, and is not full.
OwnArray(m) ==
  LET array == cache[PackageNo[m]]
  IN  array # <<>> => /\ Len(array) = PackageCount[m]
                      /\ \A i \in DOMAIN array : array[i] # None => array[i].msg = m
                      /\ ~Full(array)

\* ReceivedQueue holds only numbers of messages that are delivered, or about to be.
QueueTrue == \A n \in Numbers : InReceivedQueue(n) => Accepted(n)

Concluded(m) ==
  \/ \E k \in Callbacks : msg[k] = m
  \/ IF m \in Confirmations THEN Confirmed[m] \in pops ELSE delivered[m] > 0

Cached(f) == cache[PackageNo[f.msg]] # <<>> /\ cache[PackageNo[f.msg]][f.index + 1] = f

Kept(m) == \A f \in FragmentsOf(m) : Treated(f) > 0 => Concluded(m) \/ Cached(f)

AcceptsMessages == \A k \in Callbacks : at[k] \in Passed => msg[k] \notin Confirmations

\* PopSendItemFromList is called with numbers that confirmations name and an int holds.
PopsConfirmed ==
  \A n \in pops : n \in 1..MaxInt /\ \E m \in Confirmations : Confirmed[m] = n /\ Complete(m)

\* A confirmation goes out just before its fragment is treated.
ConfirmedIsTreated ==
  \A f \in confirms :
    f \in Fragments /\ (Treated(f) > 0 \/ \E k \in Callbacks : pack[k] = f /\ at[k] = "translate")

KeepInv ==
  /\ ReceiverInv
  /\ \A f \in Fragments : Treated(f) \in Nat
  /\ AcceptsMessages
  /\ PopsConfirmed
  /\ ConfirmedIsTreated
  /\ QueueTrue
  /\ \A m \in Messages : Regular(m) => OwnArray(m) /\ Kept(m)

\* What has been accepted stays so, when callbacks keep what they have, or deliver it.
LEMMA AcceptedStays ==
  ASSUME UNCHANGED PackageNo,
         \A m \in Messages : delivered[m] > 0 => delivered'[m] > 0,
         \A k \in Callbacks : at[k] \in Passed /\ msg[k] \in Messages =>
           delivered'[msg[k]] > 0 \/ (at'[k] \in Passed /\ msg'[k] = msg[k])
  PROVE  \A n : Accepted(n) => Accepted(n)'
  BY DEF Accepted

\* Finitely many callbacks have a fragment in their hands.
LEMMA HoldersFinite ==
  ASSUME NEW f
  PROVE  IsFiniteSet(Holders(f)) /\ Cardinality(Holders(f)) \in Nat
  BY CallbacksAssumption, FS_Subset, FS_CardinalityType DEF Holders

\* The count depends on the arrivals and on these hands.
LEMMA TreatedIsCount == \A f : Treated(f) = arrived[f] - Cardinality(Holders(f))
  BY DEF Treated, Holders

\* An arrival is in the hands of a callback: nothing has been treated.
LEMMA TreatedByReceive ==
  ASSUME KeepInv, NEW k \in Callbacks, NEW f \in Fragments, ReceiveDataAsync(k, f)
  PROVE  \A g \in Fragments : Treated(g)' = Treated(g)
  <1>1. /\ arrived \in [Fragments -> Nat] /\ arrived' = [arrived EXCEPT ![f] = @ + 1]
        /\ pack' = [pack EXCEPT ![k] = f] /\ at' = [at EXCEPT ![k] = "confirm"]
        /\ at[k] = "idle" /\ at \in [Callbacks -> Stages] /\ pack \in [Callbacks -> Fragments \cup {None}]
    BY DEF ReceiveDataAsync, KeepInv, ReceiverInv, TypeOK
  <1>2. SUFFICES ASSUME NEW g \in Fragments PROVE Treated(g)' = Treated(g)
    OBVIOUS
  <1>3. CASE g = f
    <2>1. Holders(g)' = Holders(g) \cup {k} /\ k \notin Holders(g)
      BY <1>1, <1>3 DEF Holders
    <2>2. Cardinality(Holders(g)') = Cardinality(Holders(g)) + 1
      BY <2>1, HoldersFinite, FS_AddElement
    <2>3. arrived[g] \in Nat /\ arrived'[g] = arrived[g] + 1
      BY <1>1, <1>3
    <2>4. Treated(g)' = arrived'[g] - Cardinality(Holders(g)')
      BY DEF Treated, Holders
    <2> QED
      BY <2>2, <2>3, <2>4, HoldersFinite, TreatedIsCount
  <1>4. CASE g # f
    <2>1. Holders(g)' = Holders(g)
      BY <1>1, <1>4 DEF Holders
    <2> QED
      BY <1>1, <1>4, <2>1 DEF Treated, Holders
  <1> QED
    BY <1>3, <1>4

\* TryToTranslateMessage treats the fragment in the hands of its callback, and no other.
LEMMA TreatedByTranslate ==
  ASSUME KeepInv, NEW k \in Callbacks, SinglePacket(k) \/ CacheFragment(k)
  PROVE  \A g \in Fragments : Treated(g)' = IF pack[k] = g THEN Treated(g) + 1 ELSE Treated(g)
  <1>1. /\ at[k] = "translate" /\ at \in [Callbacks -> Stages]
        /\ pack \in [Callbacks -> Fragments \cup {None}]
        /\ arrived \in [Fragments -> Nat] /\ UNCHANGED arrived
    BY DEF SinglePacket, CacheFragment, KeepInv, ReceiverInv, TypeOK
  <1>2. PICK m : GoOnWith(k, m)
    BY DEF SinglePacket, CacheFragment
  <1>3. /\ at' = [at EXCEPT ![k] = IF m = None THEN "idle" ELSE "test"]
        /\ pack' = pack \/ pack' = [pack EXCEPT ![k] = None]
    BY <1>2 DEF GoOnWith
  <1>4. SUFFICES ASSUME NEW g \in Fragments
                 PROVE  Treated(g)' = IF pack[k] = g THEN Treated(g) + 1 ELSE Treated(g)
    OBVIOUS
  <1>5. CASE pack[k] = g
    <2>1. Holders(g)' = Holders(g) \ {k} /\ k \in Holders(g)
      BY <1>1, <1>3, <1>5 DEF Holders
    <2>2. Cardinality(Holders(g)') = Cardinality(Holders(g)) - 1
      BY <2>1, HoldersFinite, FS_RemoveElement
    <2>3. Treated(g)' = arrived[g] - Cardinality(Holders(g)') /\ arrived[g] \in Nat
      BY <1>1 DEF Treated, Holders
    <2> QED
      BY <1>5, <2>2, <2>3, HoldersFinite, TreatedIsCount
  <1>6. CASE pack[k] # g
    <2>1. g # None
      BY FragmentFields
    <2>2. Holders(g)' = Holders(g)
      BY <1>1, <1>3, <1>6, <2>1 DEF Holders
    <2> QED
      BY <1>1, <1>6, <2>2 DEF Treated, Holders
  <1> QED
    BY <1>5, <1>6

\* No other step treats anything.
LEMMA TreatedByOthers ==
  ASSUME KeepInv, NEW k \in Callbacks,
         \/ SendConfirm(k) \/ FragmentOutOfRange(k) \/ HandleConfirmation(k)
         \/ DropRepeated(k) \/ Queueing(k) \/ OnMessageReceived(k)
  PROVE  \A g \in Fragments : Treated(g)' = Treated(g)
  <1>1. at \in [Callbacks -> Stages] /\ pack \in [Callbacks -> Fragments \cup {None}] /\ UNCHANGED arrived
    BY QueueingKeepsHands DEF SendConfirm, FragmentOutOfRange, HandleConfirmation, DropRepeated,
       OnMessageReceived, KeepInv, ReceiverInv, TypeOK
  <1>2. \/ UNCHANGED <<at, pack>>
        \/ at[k] = "confirm" /\ at' = [at EXCEPT ![k] = "translate"] /\ UNCHANGED pack
        \/ /\ at[k] \in {"test"} \cup Passed
           /\ \E s \in {"idle"} \cup Passed : at' = [at EXCEPT ![k] = s]
           /\ pack' = pack \/ pack' = [pack EXCEPT ![k] = None]
    <2>1. CASE Queueing(k)
      BY <2>1, QueueingKeepsHands DEF KeepInv
    <2>2. CASE ~Queueing(k)
      BY <2>2 DEF SendConfirm, FragmentOutOfRange, HandleConfirmation, DropRepeated,
         OnMessageReceived, Done, Passed
    <2> QED
      BY <2>1, <2>2
  <1>3. \A g \in Fragments : Holders(g)' = Holders(g)
    BY <1>1, <1>2, FragmentFields DEF Holders, Passed
  <1> QED
    BY <1>1, <1>3 DEF Treated, Holders

\* Steps that leave packageCache alone and treat nothing: what is concluded stays so.
LEMMA KeptByOthers ==
  ASSUME KeepInv, UNCHANGED <<PackageNo, Confirmed, cache>>,
         \A f \in Fragments : Treated(f)' = Treated(f),
         \A m \in Messages : Regular(m) /\ Concluded(m) => Concluded(m)'
  PROVE  /\ \A f \in Fragments : Treated(f)' \in Nat
         /\ \A m \in Messages : Regular(m)' => OwnArray(m)' /\ Kept(m)'
  <1>1. \A m \in Messages : Regular(m)' <=> Regular(m)
    BY DEF Regular, OwnNumber
  <1>2. \A m \in Messages : OwnArray(m)' <=> OwnArray(m)
    BY DEF OwnArray, Full
  <1>3. ASSUME NEW m \in Messages, Regular(m) PROVE Kept(m)'
    <2>1. SUFFICES ASSUME NEW f \in FragmentsOf(m), Treated(f)' > 0 PROVE Concluded(m)' \/ Cached(f)'
      BY DEF Kept
    <2>2. f \in Fragments /\ Treated(f) > 0
      BY <2>1, FragmentsOfMessage
    <2>3. Concluded(m) \/ Cached(f)
      BY <1>3, <2>2 DEF KeepInv, Kept
    <2>4. Cached(f)' <=> Cached(f)
      BY DEF Cached
    <2> QED
      BY <1>3, <2>3, <2>4
  <1> QED
    BY <1>1, <1>2, <1>3 DEF KeepInv

\* A step that concludes nothing and neither stores nor treats a fragment.
LEMMA KeepReceive ==
  ASSUME KeepInv, NEW k \in Callbacks, NEW f \in Fragments, ReceiveDataAsync(k, f),
         UNCHANGED <<PackageNo, Confirmed>>
  PROVE  KeepInv'
  <1>1. ReceiverInv'
    BY ReceiveStep DEF KeepInv
  <1>2. \A g \in Fragments : Treated(g)' = Treated(g)
    BY TreatedByReceive
  <1>3. /\ UNCHANGED <<PackageNo, Confirmed, cache, msg, received, history>>
        /\ at[k] = "idle" /\ at' = [at EXCEPT ![k] = "confirm"] /\ pack' = [pack EXCEPT ![k] = f]
    BY DEF ReceiveDataAsync, queueVars
  <1>4. at \in [Callbacks -> Stages] /\ pack \in [Callbacks -> Fragments \cup {None}]
    BY DEF KeepInv, ReceiverInv, TypeOK
  <1>5. \A m \in Messages : Concluded(m)' <=> Concluded(m)
    BY <1>3 DEF Concluded, history, queueVars
  <1>6. QueueTrue'
    <2>1. \A n : Accepted(n) => Accepted(n)'
      BY <1>3, <1>4, AcceptedStays DEF history, Passed
    <2> QED
      BY <1>3, <2>1 DEF KeepInv, QueueTrue, InReceivedQueue, Numbers
  <1>10. PopsConfirmed'
    <2>1. arrived \in [Fragments -> Nat] /\ arrived' = [arrived EXCEPT ![f] = @ + 1]
      BY DEF ReceiveDataAsync, KeepInv, ReceiverInv, TypeOK
    <2>2. \A m \in Confirmations : Complete(m) => Complete(m)'
      BY <2>1, FragmentsOfMessage, MessagesAssumption DEF Complete
    <2> QED
      BY <1>3, <2>2 DEF KeepInv, PopsConfirmed, history
  <1>7. /\ \A g \in Fragments : Treated(g)' \in Nat
        /\ \A m \in Messages : Regular(m)' => OwnArray(m)' /\ Kept(m)'
    BY <1>2, <1>3, <1>5, KeptByOthers DEF KeepInv
  <1>8. AcceptsMessages'
    BY <1>3, <1>4 DEF KeepInv, AcceptsMessages, Passed
  <1>9. ConfirmedIsTreated'
    <2>1. SUFFICES ASSUME NEW g \in confirms
                   PROVE  g \in Fragments /\ (Treated(g)' > 0 \/ \E o \in Callbacks : pack'[o] = g /\ at'[o] = "translate")
      BY <1>3 DEF ConfirmedIsTreated, history, queueVars
    <2>2. g \in Fragments /\ (Treated(g) > 0 \/ \E o \in Callbacks : pack[o] = g /\ at[o] = "translate")
      BY DEF KeepInv, ConfirmedIsTreated
    <2> QED
      BY <1>2, <1>3, <1>4, <2>2
  <1> QED
    BY <1>1, <1>6, <1>7, <1>8, <1>9, <1>10 DEF KeepInv

\* The confirmation of a fragment goes out, or the process ends.
LEMMA KeepConfirm ==
  ASSUME KeepInv, NEW k \in Callbacks, SendConfirm(k) \/ FragmentOutOfRange(k), UNCHANGED <<PackageNo, Confirmed>>
  PROVE  KeepInv'
  <1>1. ReceiverInv'
    BY SendConfirmStep, FragmentOutOfRangeStep DEF KeepInv
  <1>2. \A g \in Fragments : Treated(g)' = Treated(g)
    BY TreatedByOthers
  <1>3. /\ UNCHANGED <<PackageNo, Confirmed, arrived, cache, msg, pack, received, pops, delivered>>
        /\ \/ UNCHANGED <<at, confirms>>
           \/ /\ at[k] = "confirm" /\ at' = [at EXCEPT ![k] = "translate"]
              /\ confirms' \subseteq confirms \cup {pack[k]}
    BY DEF SendConfirm, FragmentOutOfRange, history, queueVars
  <1>4. /\ at \in [Callbacks -> Stages] /\ pack \in [Callbacks -> Fragments \cup {None}]
        /\ at[k] = "confirm" => pack[k] \in Fragments
    BY DEF KeepInv, ReceiverInv, TypeOK
  <1>5. \A m \in Messages : Concluded(m)' <=> Concluded(m)
    BY <1>3 DEF Concluded
  <1>6. QueueTrue'
    <2>1. \A n : Accepted(n) => Accepted(n)'
      BY <1>3, <1>4, AcceptedStays DEF Passed
    <2> QED
      BY <1>3, <2>1 DEF KeepInv, QueueTrue, InReceivedQueue, Numbers
  <1>10. PopsConfirmed'
    BY <1>3 DEF KeepInv, PopsConfirmed, Complete
  <1>7. /\ \A g \in Fragments : Treated(g)' \in Nat
        /\ \A m \in Messages : Regular(m)' => OwnArray(m)' /\ Kept(m)'
    BY <1>2, <1>3, <1>5, KeptByOthers DEF KeepInv
  <1>8. AcceptsMessages'
    BY <1>3, <1>4 DEF KeepInv, AcceptsMessages, Passed
  <1>9. ConfirmedIsTreated'
    <2>1. SUFFICES ASSUME NEW g \in confirms'
                   PROVE  g \in Fragments /\ (Treated(g)' > 0 \/ \E o \in Callbacks : pack'[o] = g /\ at'[o] = "translate")
      BY DEF ConfirmedIsTreated
    <2>2. CASE g \in confirms
      <3>1. g \in Fragments /\ (Treated(g) > 0 \/ \E o \in Callbacks : pack[o] = g /\ at[o] = "translate")
        BY <2>2 DEF KeepInv, ConfirmedIsTreated
      <3> QED
        BY <1>2, <1>3, <1>4, <3>1
    <2>3. CASE g \notin confirms
      BY <1>3, <1>4, <2>1, <2>3
    <2> QED
      BY <2>2, <2>3
  <1> QED
    BY <1>1, <1>6, <1>7, <1>8, <1>9, <1>10 DEF KeepInv

\* What is in ReceivedQueue after a step stood there before or is new.
LEMMA QueueContents ==
  ASSUME ReceiverInv, NEW k \in Callbacks, Queueing(k), NEW n \in Numbers, InReceivedQueue(n)'
  PROVE  InReceivedQueue(n) \/ (Enqueue(k) /\ n = PackageNo[msg[k]])
<1>1. received \in Seq(Numbers) /\ PackageNo[msg[k]] \in Numbers /\ Len(received) \in Nat
  BY QueueingKeepsHands DEF ReceiverInv, TypeOK
<1>2. CASE received' = received
  BY <1>2 DEF InReceivedQueue
<1>3. CASE received' = <<>>
  BY <1>3 DEF InReceivedQueue
<1>4. CASE Enqueue(k) /\ received' = Append(received, PackageNo[msg[k]])
  <2>1. PICK i \in DOMAIN received' : received'[i] = n
    BY DEF InReceivedQueue
  <2>2. i \in 1..Len(received) + 1
    BY <1>1, <1>4, <2>1, AppendProperties
  <2>3. CASE i = Len(received) + 1
    BY <1>1, <1>4, <2>1, <2>3, AppendProperties
  <2>4. CASE i \in 1..Len(received)
    <3>1. received[i] = n /\ i \in DOMAIN received
      BY <1>1, <1>4, <2>1, <2>4, AppendProperties
    <3> QED
      BY <3>1 DEF InReceivedQueue
  <2> QED
    BY <1>1, <2>2, <2>3, <2>4
<1>5. CASE received # <<>> /\ received' = Tail(received)
  <2>1. PICK i \in DOMAIN received' : received'[i] = n
    BY DEF InReceivedQueue
  <2>2. /\ Tail(received) \in Seq(Numbers) /\ Len(Tail(received)) = Len(received) - 1
        /\ \A j \in 1..Len(Tail(received)) : Tail(received)[j] = received[j + 1]
    BY <1>1, <1>5, HeadTailProperties
  <2>3. i \in 1..Len(Tail(received))
    BY <1>5, <2>1, <2>2
  <2>4. i + 1 \in 1..Len(received) /\ received[i + 1] = n
    BY <1>1, <1>5, <2>1, <2>2, <2>3
  <2> QED
    BY <1>1, <2>4 DEF InReceivedQueue
<1>6. \/ received' = received \/ received' = <<>>
      \/ Enqueue(k) /\ received' = Append(received, PackageNo[msg[k]])
      \/ received # <<>> /\ received' = Tail(received)
  <2>1. torn => received = <<>>
    BY DEF ReceiverInv, TypeOK
  <2> QED
    BY <2>1 DEF Queueing, NotReceivedBefore, Enqueue, TestCount, Dequeue, Becomes, queueVars
<1> QED
  BY <1>2, <1>3, <1>4, <1>5, <1>6

\* A message is let go of only when it has been handled: as a confirmation, because it
\* has been accepted before, or by being delivered.
LEMMA ConcludedStays ==
  ASSUME KeepInv, NEW k \in Callbacks, UNCHANGED <<PackageNo, Confirmed>>,
         HandleConfirmation(k) \/ DropRepeated(k) \/ Queueing(k) \/ OnMessageReceived(k),
         NEW m \in Messages, Regular(m), Concluded(m)
  PROVE  Concluded(m)'
  <1>1. /\ at[k] \in {"test"} \cup Passed /\ at \in [Callbacks -> Stages]
        /\ msg \in [Callbacks -> Messages \cup {None}] /\ msg[k] \in Messages
        /\ delivered \in [Messages -> Nat]
    BY QueueingKeepsHands
    DEF HandleConfirmation, DropRepeated, OnMessageReceived, KeepInv, ReceiverInv, TypeOK, Passed
  <1>2. /\ pops \subseteq pops'
        /\ delivered[m] > 0 => delivered'[m] > 0
        /\ msg' = msg \/ msg' = [msg EXCEPT ![k] = None]
        /\ Queueing(k) => msg' = msg
    <2>1. CASE Queueing(k)
      BY <2>1, QueueingKeepsHands DEF KeepInv
    <2>2. CASE ~Queueing(k)
      BY <1>1, <2>2 DEF HandleConfirmation, DropRepeated, OnMessageReceived, Done
    <2> QED
      BY <2>1, <2>2
  <1>3. CASE msg[k] # m
    BY <1>1, <1>2, <1>3 DEF Concluded
  <1>4. CASE msg[k] = m
    <2>1. CASE HandleConfirmation(k)
      <3>1. m \in Confirmations /\ Confirmed[m] \in 1..MaxInt
        BY <1>4, <2>1 DEF HandleConfirmation, Regular
      <3>2. TryParseToInt(Confirmed[m]) = Confirmed[m] /\ Confirmed[m] # 0
        BY <3>1, BoundsAssumption DEF TryParseToInt
      <3>3. Confirmed[m] \in pops'
        BY <1>4, <2>1, <3>2 DEF HandleConfirmation
      <3> QED
        BY <3>1, <3>3 DEF Concluded
    <2>2. CASE DropRepeated(k)
      <3>1. /\ m \notin Confirmations /\ Found(PackageNo[m]) /\ UNCHANGED delivered
            /\ at[k] = "test" /\ msg' = [msg EXCEPT ![k] = None]
        BY <1>4, <2>2 DEF DropRepeated, Done
      <3>2. Accepted(PackageNo[m])
        BY <3>1, NumberOfMessage DEF KeepInv, ReceiverInv, QueueTrue, Found
      <3>3. delivered[m] > 0 \/ \E o \in Callbacks : msg[o] = m /\ at[o] \in Passed
        BY <3>2 DEF Accepted, Regular, OwnNumber
      <3>4. ASSUME NEW o \in Callbacks, msg[o] = m, at[o] \in Passed
            PROVE  msg'[o] = m
        BY <1>1, <3>1, <3>4 DEF Passed
      <3> QED
        BY <3>1, <3>3, <3>4 DEF Concluded
    <2>3. CASE Queueing(k)
      BY <1>2, <1>4, <2>3 DEF Concluded
    <2>4. CASE OnMessageReceived(k)
      <3>1. m \notin Confirmations /\ delivered'[m] > 0
        BY <1>1, <1>4, <2>4 DEF OnMessageReceived, KeepInv, AcceptsMessages, Passed
      <3> QED
        BY <3>1 DEF Concluded
    <2> QED
      BY <2>1, <2>2, <2>3, <2>4
  <1> QED
    BY <1>3, <1>4

\* The queue of received numbers goes on telling the truth.
LEMMA QueueStaysTrue ==
  ASSUME KeepInv, NEW k \in Callbacks, UNCHANGED <<PackageNo, Confirmed>>,
         HandleConfirmation(k) \/ DropRepeated(k) \/ Queueing(k) \/ OnMessageReceived(k)
  PROVE  QueueTrue'
  <1>1. /\ delivered \in [Messages -> Nat] /\ at \in [Callbacks -> Stages]
        /\ msg \in [Callbacks -> Messages \cup {None}]
    BY DEF KeepInv, ReceiverInv, TypeOK
  <1>2. \A n : Accepted(n) => Accepted(n)'
    <2>1. CASE Queueing(k)
      <3>1. /\ UNCHANGED <<msg, delivered>>
            /\ at' = at \/ \E s \in Passed : at' = [at EXCEPT ![k] = s]
        BY <2>1, QueueingKeepsHands DEF KeepInv
      <3> QED
        BY <1>1, <3>1, AcceptedStays DEF Passed
    <2>2. CASE HandleConfirmation(k) \/ DropRepeated(k)
      <3>1. at[k] = "test" /\ Done(k) /\ UNCHANGED delivered
        BY <2>2 DEF HandleConfirmation, DropRepeated
      <3> QED
        BY <1>1, <3>1, AcceptedStays DEF Done, Passed
    <2>3. CASE OnMessageReceived(k)
      <3>1. msg[k] \in Messages
        BY <2>3 DEF OnMessageReceived, KeepInv, ReceiverInv, TypeOK, Passed
      <3>2. /\ \A m \in Messages : delivered[m] > 0 => delivered'[m] > 0
            /\ delivered'[msg[k]] > 0
        BY <1>1, <2>3, <3>1 DEF OnMessageReceived
      <3>3. \A o \in Callbacks : o # k => at'[o] = at[o] /\ msg'[o] = msg[o]
        BY <1>1, <2>3 DEF OnMessageReceived, Done
      <3> QED
        BY <3>2, <3>3, AcceptedStays
    <2> QED
      BY <2>1, <2>2, <2>3
  <1>3. ASSUME NEW n \in Numbers, InReceivedQueue(n)' PROVE Accepted(n)'
    <2>1. CASE ~Queueing(k)
      <3>1. received' = received
        BY <2>1 DEF HandleConfirmation, DropRepeated, OnMessageReceived, queueVars
      <3> QED
        BY <1>2, <1>3, <3>1 DEF KeepInv, QueueTrue, InReceivedQueue
    <2>2. CASE Queueing(k)
      <3>1. InReceivedQueue(n) \/ (Enqueue(k) /\ n = PackageNo[msg[k]])
        BY <1>3, <2>2, QueueContents DEF KeepInv
      <3>2. CASE InReceivedQueue(n)
        BY <1>2, <3>2 DEF KeepInv, QueueTrue
      <3>3. CASE Enqueue(k) /\ n = PackageNo[msg[k]]
        <4>1. msg[k] \in Messages
          BY <2>2, QueueingKeepsHands DEF KeepInv
        <4>2. at'[k] \in Passed /\ msg'[k] = msg[k]
          BY <1>1, <3>3 DEF Enqueue, Passed
        <4> QED
          BY <3>3, <4>1, <4>2 DEF Accepted
      <3> QED
        BY <3>1, <3>2, <3>3
    <2> QED
      BY <2>1, <2>2
  <1>4. Numbers' = Numbers
    BY DEF Numbers
  <1> QED
    BY <1>3, <1>4 DEF QueueTrue

\* PackageReceived handles a whole message.
LEMMA KeepMessage ==
  ASSUME KeepInv, NEW k \in Callbacks, UNCHANGED <<PackageNo, Confirmed>>,
         HandleConfirmation(k) \/ DropRepeated(k) \/ Queueing(k) \/ OnMessageReceived(k)
  PROVE  KeepInv'
  <1>1. ReceiverInv'
    BY MessageStep, QueueingStep DEF KeepInv
  <1>2. \A g \in Fragments : Treated(g)' = Treated(g)
    BY TreatedByOthers
  <1>3. /\ UNCHANGED <<PackageNo, Confirmed, arrived, cache, confirms>>
        /\ at[k] \in {"test"} \cup Passed
        /\ \/ UNCHANGED <<at, pack, msg>>
           \/ /\ at' = [at EXCEPT ![k] = "idle"] /\ pack' = [pack EXCEPT ![k] = None]
              /\ msg' = [msg EXCEPT ![k] = None]
           \/ /\ \E s \in Passed : at' = [at EXCEPT ![k] = s]
              /\ msg[k] \notin Confirmations
              /\ UNCHANGED <<pack, msg>>
    <2>1. CASE Queueing(k)
      <3>1. /\ UNCHANGED <<arrived, pack, msg, cache, confirms>>
            /\ at[k] \in {"test"} \cup Passed
            /\ at' = at \/ \E s \in Passed : at' = [at EXCEPT ![k] = s]
        BY <2>1, QueueingKeepsHands DEF KeepInv
      <3>2. msg[k] \notin Confirmations
        BY <2>1 DEF Queueing, NotReceivedBefore, Enqueue, TestCount, Dequeue, KeepInv, AcceptsMessages, Passed
      <3> QED
        BY <3>1, <3>2
    <2>2. CASE ~Queueing(k)
      BY <2>2 DEF HandleConfirmation, DropRepeated, OnMessageReceived, Done, Passed
    <2> QED
      BY <2>1, <2>2
  <1>4. /\ at \in [Callbacks -> Stages] /\ pack \in [Callbacks -> Fragments \cup {None}]
        /\ msg \in [Callbacks -> Messages \cup {None}]
    BY DEF KeepInv, ReceiverInv, TypeOK
  <1>5. \A m \in Messages : Regular(m) /\ Concluded(m) => Concluded(m)'
    BY ConcludedStays
  <1>6. QueueTrue'
    BY QueueStaysTrue
  <1>10. PopsConfirmed'
    <2>1. CASE HandleConfirmation(k)
      <3>1. /\ msg[k] \in Confirmations /\ Confirmed[msg[k]] \in Nat /\ Complete(msg[k])
            /\ pops' \subseteq pops \cup ({TryParseToInt(Confirmed[msg[k]])} \ {0})
        BY <2>1, NumbersAssumption, MessagesAssumption, NoneAssumption
        DEF HandleConfirmation, KeepInv, ReceiverInv, TypeOK
      <3>2. \A n \in {TryParseToInt(Confirmed[msg[k]])} \ {0} : n \in 1..MaxInt /\ n = Confirmed[msg[k]]
        BY <3>1, BoundsAssumption DEF TryParseToInt
      <3> QED
        BY <1>3, <3>1, <3>2 DEF KeepInv, PopsConfirmed, Complete
    <2>2. CASE ~HandleConfirmation(k)
      <3>1. pops' = pops
        BY <2>2, QueueingKeepsHands DEF KeepInv, DropRepeated, OnMessageReceived
      <3> QED
        BY <1>3, <3>1 DEF KeepInv, PopsConfirmed, Complete
    <2> QED
      BY <2>1, <2>2
  <1>7. /\ \A g \in Fragments : Treated(g)' \in Nat
        /\ \A m \in Messages : Regular(m)' => OwnArray(m)' /\ Kept(m)'
    BY <1>2, <1>3, <1>5, KeptByOthers
  <1>8. AcceptsMessages'
    BY <1>3, <1>4 DEF KeepInv, AcceptsMessages, Passed
  <1>9. ConfirmedIsTreated'
    <2>1. SUFFICES ASSUME NEW g \in confirms
                   PROVE  g \in Fragments /\ (Treated(g)' > 0 \/ \E o \in Callbacks : pack'[o] = g /\ at'[o] = "translate")
      BY <1>3 DEF ConfirmedIsTreated
    <2>2. g \in Fragments /\ (Treated(g) > 0 \/ \E o \in Callbacks : pack[o] = g /\ at[o] = "translate")
      BY DEF KeepInv, ConfirmedIsTreated
    <2> QED
      BY <1>2, <1>3, <1>4, <2>2 DEF Passed
  <1> QED
    BY <1>1, <1>6, <1>7, <1>8, <1>9, <1>10 DEF KeepInv

\* The array that a fragment of m is stored into has m's fragments and no others.
LEMMA StoredIsOwn ==
  ASSUME KeepInv, NEW m \in Messages, Regular(m), NEW f \in FragmentsOf(m)
  PROVE  /\ cache[PackageNo[m]] # <<>> => f.index < Len(cache[PackageNo[m]])
         /\ Stored(f) \in [1..PackageCount[m] -> Fragments \cup {None}]
         /\ Stored(f)[f.index + 1] = f
         /\ \A i \in 1..PackageCount[m] : Stored(f)[i] # None => Stored(f)[i].msg = m
         /\ \A g \in FragmentsOf(m) : Cached(g) => Stored(f)[g.index + 1] = g
  <1> DEFINE array == cache[PackageNo[m]]
  <1>1. f \in Fragments /\ f.msg = m /\ f.index \in 0..(PackageCount[m] - 1) /\ f # None
    BY FragmentsOfMessage, FragmentFields DEF FragmentsOf
  <1>2. PackageCount[m] \in Nat /\ PackageCount[m] >= 1 /\ f.index + 1 \in 1..PackageCount[m]
    BY <1>1, PartsAreCounted
  <1>3. ASSUME NEW g \in FragmentsOf(m) PROVE g.msg = m /\ g.index + 1 \in 1..PackageCount[m]
    BY <1>2 DEF FragmentsOf
  <1>4. array \in Seq(Fragments \cup {None}) /\ OwnArray(m)
    BY NumberOfMessage DEF KeepInv, ReceiverInv, TypeOK
  <1>5. CASE array = <<>>
    <2>1. Stored(f) = [i \in 1..PackageCount[m] |-> IF i = f.index + 1 THEN f ELSE None]
      BY <1>1, <1>5 DEF Stored
    <2>2. \A g \in FragmentsOf(m) : ~Cached(g)
      BY <1>3, <1>5 DEF Cached
    <2> QED
      BY <1>1, <1>2, <1>5, <2>1, <2>2
  <1>6. CASE array # <<>>
    <2>1. Len(array) = PackageCount[m] /\ \A i \in DOMAIN array : array[i] # None => array[i].msg = m
      BY <1>4, <1>6 DEF OwnArray
    <2>2. array \in [1..PackageCount[m] -> Fragments \cup {None}]
      BY <1>4, <2>1
    <2>3. Stored(f) = [array EXCEPT ![f.index + 1] = f]
      BY <1>1, <1>6 DEF Stored
    <2> HIDE DEF array
    <2>4. /\ Stored(f) \in [1..PackageCount[m] -> Fragments \cup {None}]
          /\ Stored(f)[f.index + 1] = f
          /\ \A i \in 1..PackageCount[m] : i # f.index + 1 => Stored(f)[i] = array[i]
      BY <1>1, <1>2, <2>2, <2>3
    <2>5. \A i \in 1..PackageCount[m] : Stored(f)[i] # None => Stored(f)[i].msg = m
      BY <1>1, <2>1, <2>2, <2>4
    <2>6. ASSUME NEW g \in FragmentsOf(m), Cached(g) PROVE Stored(f)[g.index + 1] = g
      <3>1. array[g.index + 1] = g /\ g.index + 1 \in 1..PackageCount[m]
        BY <1>3, <2>6 DEF Cached, array
      <3>2. CASE g.index + 1 = f.index + 1
        <4>1. g = f
          BY <1>1, <3>2 DEF FragmentsOf
        <4> QED
          BY <2>4, <4>1
      <3> QED
        BY <2>4, <3>1, <3>2
    <2>7. f.index < Len(array)
      BY <1>1, <1>2, <2>1
    <2> QED
      BY <2>4, <2>5, <2>6, <2>7 DEF array
  <1> QED
    BY <1>5, <1>6

\* A fragment is translated: alone it is its message, else it is stored with the others
\* of its message, which is put together when none is missing.
LEMMA TranslatedIsKept ==
  ASSUME KeepInv, NEW k \in Callbacks, SinglePacket(k) \/ CacheFragment(k), UNCHANGED <<PackageNo, Confirmed>>,
         NEW m \in Messages, Regular(m)
  PROVE  OwnArray(m)' /\ Kept(m)'
  <1> DEFINE f == pack[k]
             n == PackageNo[f.msg]
  <1>1. /\ at[k] = "translate" /\ msg[k] = None /\ f \in Fragments /\ f.msg \in Messages
        /\ f \in FragmentsOf(f.msg)
        /\ msg \in [Callbacks -> Messages \cup {None}]
        /\ cache \in [Numbers -> Seq(Fragments \cup {None})]
        /\ n \in Numbers /\ PackageNo[m] \in Numbers
    <2>1. at[k] = "translate"
      BY DEF SinglePacket, CacheFragment
    <2>2. f \in Fragments /\ msg[k] = None
      BY <2>1 DEF KeepInv, ReceiverInv, TypeOK, Passed
    <2>3. f.msg \in Messages /\ f \in FragmentsOf(f.msg)
      BY <2>2, FragmentFields DEF FragmentsOf
    <2> QED
      BY <2>1, <2>2, <2>3, NumberOfMessage DEF KeepInv, ReceiverInv, TypeOK
  <1>2. OwnArray(m) /\ Kept(m)
    BY DEF KeepInv
  <1>3. UNCHANGED <<PackageNo, Confirmed, delivered, pops>>
    BY DEF SinglePacket, CacheFragment, history
  <1>5. PICK w : msg' = [msg EXCEPT ![k] = w]
    BY DEF SinglePacket, CacheFragment, GoOnWith
  <1>6. Concluded(m) => Concluded(m)'
    BY <1>1, <1>3, <1>5, NoneAssumption DEF Concluded
  <1>7. \A g \in Fragments : Treated(g)' = IF f = g THEN Treated(g) + 1 ELSE Treated(g)
    BY TreatedByTranslate
  <1>8. cache' = cache \/ \E array : cache' = [cache EXCEPT ![n] = array]
    BY DEF SinglePacket, CacheFragment
  <1>9. CASE m # f.msg
    <2>1. PackageNo[m] # n
      BY <1>1, <1>9 DEF Regular, OwnNumber
    <2>2. cache'[PackageNo[m]] = cache[PackageNo[m]]
      BY <1>1, <1>8, <2>1
    <2>3. OwnArray(m)'
      BY <1>2, <1>3, <2>2 DEF OwnArray
    <2>4. ASSUME NEW g \in FragmentsOf(m), Treated(g)' > 0 PROVE Concluded(m)' \/ Cached(g)'
      <3>1. g.msg = m /\ g \in Fragments
        BY FragmentsOfMessage DEF FragmentsOf
      <3>2. Treated(g) > 0
        BY <1>7, <1>9, <2>4, <3>1
      <3>3. Cached(g) => Cached(g)'
        BY <1>3, <2>2, <3>1 DEF Cached
      <3> QED
        BY <1>2, <1>6, <3>2, <3>3 DEF Kept
    <2> QED
      BY <2>3, <2>4 DEF Kept
  <1>10. CASE m = f.msg /\ SinglePacket(k)
    <2>1. Concluded(m)'
      BY <1>1, <1>10 DEF SinglePacket, GoOnWith, Concluded
    <2>2. OwnArray(m)'
      BY <1>2, <1>3, <1>10 DEF SinglePacket, OwnArray
    <2> QED
      BY <2>1, <2>2 DEF Kept
  <1>11. CASE m = f.msg /\ CacheFragment(k)
    <2> DEFINE array == Stored(f)
    <2>1. /\ array \in [1..PackageCount[m] -> Fragments \cup {None}] /\ array[f.index + 1] = f
          /\ \A i \in 1..PackageCount[m] : array[i] # None => array[i].msg = m
          /\ \A g \in FragmentsOf(m) : Cached(g) => array[g.index + 1] = g
      BY <1>1, <1>11, StoredIsOwn
    <2>2. PackageCount[m] \in Nat /\ PackageCount[m] >= 1
      BY PartsAreCounted
    <2>3. DOMAIN array = 1..PackageCount[m] /\ Len(array) = PackageCount[m] /\ array # <<>>
      BY <2>1, <2>2
    <2>4. CASE Full(array)
      <3>1. cache' = [cache EXCEPT ![n] = <<>>] /\ GoOnWith(k, Parsed(array))
        BY <1>11, <2>4 DEF CacheFragment
      <3>2. \A i \in DOMAIN array : array[i].msg = m
        BY <2>1, <2>3, <2>4 DEF Full
      <3>3. Parsed(array) = m
        <4>1. 1 \in DOMAIN array
          BY <2>2, <2>3
        <4>2. array[1].msg = m
          BY <3>2, <4>1
        <4> QED
          BY <2>3, <3>2, <4>2 DEF Parsed
      <3>4. Concluded(m)'
        BY <1>1, <3>1, <3>3 DEF GoOnWith, Concluded
      <3>5. OwnArray(m)'
        BY <1>1, <1>3, <1>11, <3>1 DEF OwnArray
      <3> QED
        BY <3>4, <3>5 DEF Kept
    <2>5. CASE ~Full(array)
      <3>1. cache' = [cache EXCEPT ![n] = array]
        BY <1>11, <2>5 DEF CacheFragment
      <3> HIDE DEF array
      <3>2. cache'[PackageNo'[m]] = array
        BY <1>1, <1>3, <1>11, <3>1
      <3>3. OwnArray(m)'
        BY <2>1, <2>3, <2>5, <3>2 DEF OwnArray
      <3>4. ASSUME NEW g \in FragmentsOf(m), Treated(g)' > 0 PROVE Concluded(m)' \/ Cached(g)'
        <4>1. g.msg = m /\ g \in Fragments
          BY FragmentsOfMessage DEF FragmentsOf
        <4>2. array[g.index + 1] = g => Cached(g)'
          BY <2>3, <3>2, <4>1 DEF Cached
        <4>3. CASE g = f
          BY <2>1, <4>2, <4>3
        <4>4. CASE g # f
          <5>1. Treated(g) > 0
            BY <1>7, <3>4, <4>1, <4>4
          <5>2. Concluded(m) \/ Cached(g)
            BY <1>2, <5>1 DEF Kept
          <5> QED
            BY <1>6, <2>1, <4>2, <5>2
        <4> QED
          BY <4>3, <4>4
      <3> QED
        BY <3>3, <3>4 DEF Kept
    <2> QED
      BY <2>4, <2>5
  <1> QED
    BY <1>9, <1>10, <1>11

\* TryToTranslateMessage.
LEMMA KeepTranslate ==
  ASSUME KeepInv, NEW k \in Callbacks, SinglePacket(k) \/ CacheFragment(k), UNCHANGED <<PackageNo, Confirmed>>
  PROVE  KeepInv'
  <1>1. ReceiverInv'
    BY SinglePacketStep, CacheFragmentStep DEF KeepInv
  <1>2. \A g \in Fragments : Treated(g)' = IF pack[k] = g THEN Treated(g) + 1 ELSE Treated(g)
    BY TreatedByTranslate
  <1>3. \A g \in Fragments : Treated(g) \in Nat /\ Treated(g)' \in Nat
    BY <1>2 DEF KeepInv
  <1>4. PICK w : GoOnWith(k, w)
    BY DEF SinglePacket, CacheFragment
  <1>5. /\ UNCHANGED <<PackageNo, Confirmed, confirms>>
        /\ at \in [Callbacks -> Stages] /\ pack \in [Callbacks -> Fragments \cup {None}]
        /\ msg \in [Callbacks -> Messages \cup {None}]
    BY DEF SinglePacket, CacheFragment, history, queueVars, KeepInv, ReceiverInv, TypeOK
  <1>6. AcceptsMessages'
    BY <1>4, <1>5 DEF GoOnWith, KeepInv, AcceptsMessages, Passed
  <1>9. PopsConfirmed'
    BY <1>5 DEF SinglePacket, CacheFragment, history, KeepInv, PopsConfirmed, Complete
  <1>10. QueueTrue'
    <2>1. at[k] = "translate" /\ UNCHANGED <<delivered, received>>
      BY DEF SinglePacket, CacheFragment, history, queueVars
    <2>2. \A n : Accepted(n) => Accepted(n)'
      BY <1>4, <1>5, <2>1, AcceptedStays DEF GoOnWith, Passed
    <2> QED
      BY <1>5, <2>1, <2>2 DEF KeepInv, QueueTrue, InReceivedQueue, Numbers
  <1>7. ConfirmedIsTreated'
    <2>1. SUFFICES ASSUME NEW g \in confirms
                   PROVE  g \in Fragments /\ (Treated(g)' > 0 \/ \E o \in Callbacks : pack'[o] = g /\ at'[o] = "translate")
      BY <1>5 DEF ConfirmedIsTreated
    <2>2. g \in Fragments /\ (Treated(g) > 0 \/ \E o \in Callbacks : pack[o] = g /\ at[o] = "translate")
      BY DEF KeepInv, ConfirmedIsTreated
    <2>3. CASE Treated(g) > 0
      BY <1>2, <1>3, <2>2, <2>3
    <2>4. ASSUME NEW o \in Callbacks, pack[o] = g, at[o] = "translate"
          PROVE  Treated(g)' > 0 \/ (pack'[o] = g /\ at'[o] = "translate")
      <3>1. CASE o = k
        BY <1>2, <1>3, <2>2, <2>4, <3>1
      <3>2. CASE o # k
        BY <1>4, <1>5, <2>4, <3>2 DEF GoOnWith
      <3> QED
        BY <3>1, <3>2
    <2> QED
      BY <2>2, <2>3, <2>4
  <1>8. \A m \in Messages : Regular(m)' => OwnArray(m)' /\ Kept(m)'
    <2>1. \A m \in Messages : Regular(m)' <=> Regular(m)
      BY <1>5 DEF Regular, OwnNumber
    <2> QED
      BY <2>1, TranslatedIsKept
  <1> QED
    BY <1>1, <1>3, <1>6, <1>7, <1>8, <1>9, <1>10 DEF KeepInv

LEMMA KeepInit == Init => KeepInv
  <1> SUFFICES ASSUME Init PROVE KeepInv
    OBVIOUS
  <1>1. \A f \in Fragments : Treated(f) = 0
    <2> TAKE f \in Fragments
    <2>1. Holders(f) = {} /\ arrived[f] = 0
      BY DEF Init, Holders
    <2> QED
      BY <2>1, FS_EmptySet, TreatedIsCount
  <1>2. \A m \in Messages : OwnArray(m) /\ Kept(m)
    <2> TAKE m \in Messages
    <2>1. OwnArray(m)
      BY NumberOfMessage, ReceiverInit DEF Init, OwnArray, ReceiverInv
    <2>3. Kept(m)
      BY <1>1, FragmentsOfMessage DEF Kept
    <2> QED
      BY <2>1, <2>3
  <1>3. AcceptsMessages /\ ConfirmedIsTreated /\ PopsConfirmed /\ QueueTrue
    BY DEF Init, AcceptsMessages, ConfirmedIsTreated, PopsConfirmed, QueueTrue, InReceivedQueue, Passed
  <1> QED
    BY <1>1, <1>2, <1>3, ReceiverInit DEF KeepInv

LEMMA KeepNext ==
  ASSUME KeepInv, [Next]_vars
  PROVE  KeepInv'
  <1>1. CASE Next
    BY <1>1, KeepReceive, KeepConfirm, KeepTranslate, KeepMessage DEF Next, Callback, Queueing, numbers
  <1>2. CASE UNCHANGED vars
    <2>1. ReceiverInv'
      BY <1>2, ReceiverNext DEF KeepInv
    <2>2. /\ \A f : Treated(f)' = Treated(f)
          /\ \A m \in Messages : Concluded(m)' <=> Concluded(m)
      BY <1>2 DEF vars, numbers, history, Treated, Concluded
    <2>5. AcceptsMessages' /\ PopsConfirmed'
      BY <1>2 DEF vars, numbers, history, KeepInv, AcceptsMessages, PopsConfirmed, Complete
    <2>6. QueueTrue'
      BY <1>2 DEF vars, numbers, history, queueVars, KeepInv, QueueTrue, InReceivedQueue, Accepted, Numbers
    <2>3. ConfirmedIsTreated'
      BY <1>2, <2>2 DEF vars, history, queueVars, KeepInv, ConfirmedIsTreated
    <2>4. UNCHANGED <<PackageNo, Confirmed, cache>>
      BY <1>2 DEF vars, numbers
    <2> QED
      BY <2>1, <2>2, <2>3, <2>4, <2>5, <2>6, KeptByOthers DEF KeepInv
  <1> QED
    BY <1>1, <1>2

LEMMA KeepInvariance == Spec => []KeepInv
  <1>1. KeepInv /\ [Next]_vars => KeepInv'
    BY KeepNext
  <1> QED
    BY <1>1, KeepInit, PTL DEF Spec

\* When every fragment has been treated, the array cannot have kept them all: it would
\* be full.
LEMMA TreatedIsConcluded ==
  ASSUME KeepInv, NEW m \in Messages, Regular(m), \A f \in FragmentsOf(m) : Treated(f) > 0
  PROVE  Concluded(m)
  <1> DEFINE array == cache[PackageNo[m]]
  <1>1. SUFFICES ASSUME ~Concluded(m) PROVE FALSE
    OBVIOUS
  <1>2. \A f \in FragmentsOf(m) : Cached(f)
    BY <1>1 DEF KeepInv, Kept
  <1>3. PackageCount[m] \in Nat /\ PackageCount[m] >= 1
    BY PartsAreCounted
  <1>4. ASSUME NEW i \in 1..PackageCount[m] PROVE array # <<>> /\ array[i] # None
    <2> DEFINE f == [msg |-> m, index |-> i - 1]
    <2>1. f \in FragmentsOf(m)
      BY <1>3 DEF FragmentsOf
    <2>2. f.msg = m /\ f.index + 1 = i /\ f # None
      BY <1>3, <2>1, FragmentsOfMessage, FragmentFields
    <2> QED
      BY <1>2, <2>1, <2>2 DEF Cached
  <1>5. array # <<>> /\ OwnArray(m) /\ array \in Seq(Fragments \cup {None})
    BY <1>3, <1>4, NumberOfMessage DEF KeepInv, ReceiverInv, TypeOK
  <1> QED
    BY <1>4, <1>5 DEF OwnArray, Full

\* Nothing is lost of a message with a number of its own, on however many callbacks and
\* in whatever order its fragments and their repetitions are treated.
THEOREM TreatedIsDelivered == Spec => []NothingLost
  <1>1. KeepInv => NothingLost
    BY TreatedIsConcluded DEF NothingLost, Regular, Concluded
  <1> QED
    BY <1>1, KeepInvariance, PTL

\* PopSendItemFromList is called with the number of every confirmation that has been
\* handled and whose number TryParseToInt can read, and with no other number.
THEOREM HandledConfirmationsPop == Spec => []ConfirmationsPop
  <1>1. ASSUME KeepInv PROVE ConfirmationsPop
    <2>1. ASSUME NEW n \in pops
          PROVE  /\ n \in 1..MaxInt
                 /\ \E m \in Confirmations : Confirmed[m] = n /\ \A f \in FragmentsOf(m) : arrived[f] > 0
      BY <1>1, <2>1 DEF KeepInv, PopsConfirmed, Complete
    <2>2. ASSUME NEW m \in Confirmations, OwnNumber(m), Handled(m), Confirmed[m] \in 1..MaxInt
          PROVE  Confirmed[m] \in pops
      <3>1. m \in Messages /\ Regular(m)
        BY <2>2, MessagesAssumption DEF Regular
      <3>2. Concluded(m)
        BY <1>1, <2>2, <3>1, TreatedIsConcluded DEF Handled
      <3> QED
        BY <2>2, <3>2 DEF Handled, Concluded
    <2> QED
      BY <2>1, <2>2 DEF ConfirmationsPop
  <1> QED
    BY <1>1, KeepInvariance, PTL

-----------------------------------------------------------------------------
(* At most once, on any number of callbacks: as long as ReceivedQueue can    *)
(* be trusted about a number, one callback at most has passed the test with  *)
(* it, and from the Enqueue on the number stands in the queue.               *)

\* k has found the number n missing, and has not delivered its message yet.
Holds(k, n) == at[k] \in Passed /\ PackageNo[msg[k]] = n

OnceFor(n) ==
  /\ \A j, k \in Callbacks : Holds(j, n) /\ Holds(k, n) => j = k
  /\ \A k \in Callbacks, m \in Messages : Holds(k, n) /\ PackageNo[m] = n => delivered[m] = 0
  /\ \A m, o \in Messages :
       PackageNo[m] = n /\ PackageNo[o] = n /\ delivered[m] > 0 /\ delivered[o] > 0
         => m = o /\ delivered[m] = 1
  /\ \A k \in Callbacks : Holds(k, n) /\ at[k] # "enqueue" => InReceivedQueue(n)
  /\ \A m \in Messages : PackageNo[m] = n /\ delivered[m] > 0 => InReceivedQueue(n)

OnceInv == ReceiverInv /\ \A n \in Numbers : Trusted(n) => OnceFor(n)

\* A step that leaves the queue alone, and what has been delivered, and takes no callback
\* past the test.
LEMMA OnceByOthers ==
  ASSUME NEW n, OnceFor(n), UNCHANGED <<PackageNo, received, delivered>>,
         \A k \in Callbacks : at'[k] \in Passed =>
           at[k] \in Passed /\ msg'[k] = msg[k] /\ (at[k] = "enqueue" => at'[k] = "enqueue")
  PROVE  OnceFor(n)'
  BY DEF OnceFor, Holds, InReceivedQueue

\* The test of ReceivedQueue: what it does not know has not been delivered, and nobody
\* but those about to store it has passed the test with it.
LEMMA OnceByTest ==
  ASSUME ReceiverInv, NEW n \in Numbers, OnceFor(n), NEW k \in Callbacks, NotReceivedBefore(k),
         UNCHANGED PackageNo, Trusted(n)'
  PROVE  OnceFor(n)'
<1>1. /\ at \in [Callbacks -> Stages] /\ delivered \in [Messages -> Nat]
      /\ at[k] = "test" /\ at' = [at EXCEPT ![k] = "enqueue"]
      /\ UNCHANGED <<msg, received, delivered, torn>>
  BY DEF NotReceivedBefore, history, ReceiverInv, TypeOK
<1>2. CASE PackageNo[msg[k]] # n
  <2>1. \A o \in Callbacks : Holds(o, n)' => Holds(o, n) /\ at'[o] = at[o]
    BY <1>1, <1>2 DEF Holds
  <2> QED
    BY <1>1, <2>1 DEF OnceFor, InReceivedQueue
<1>3. CASE PackageNo[msg[k]] = n
  <2>1. ~torn /\ ~InReceivedQueue(n) /\ \A o \in Callbacks : ~(at[o] = "enqueue" /\ PackageNo[msg[o]] = n)
    BY <1>1, <1>3 DEF NotReceivedBefore, NotFound, Trusted
  <2>2. \A o \in Callbacks : ~Holds(o, n)
    BY <2>1 DEF OnceFor, Holds
  <2>3. \A m \in Messages : PackageNo[m] = n => delivered[m] = 0
    BY <1>1, <2>1 DEF OnceFor
  <2>4. \A o \in Callbacks : Holds(o, n)' => o = k
    BY <1>1, <2>2 DEF Holds
  <2>5. at'[k] = "enqueue"
    BY <1>1
  <2> QED
    BY <1>1, <2>3, <2>4, <2>5 DEF OnceFor, InReceivedQueue
<1> QED
  BY <1>2, <1>3

\* Enqueue and Dequeue, as long as they do not tear the queue or take the number out.
LEMMA OnceByQueue ==
  ASSUME ReceiverInv, NEW n \in Numbers, OnceFor(n), NEW k \in Callbacks, Enqueue(k) \/ Dequeue(k),
         UNCHANGED PackageNo, Trusted(n)'
  PROVE  OnceFor(n)'
<1>1. /\ at \in [Callbacks -> Stages] /\ received \in Seq(Numbers) /\ Len(received) \in Nat
      /\ PackageNo[msg[k]] \in Numbers
      /\ UNCHANGED <<msg, delivered>>
      /\ at' = at \/ \E s \in Passed : at' = [at EXCEPT ![k] = s]
      /\ at[k] \in Passed
  <2>1. Queueing(k) /\ at[k] \in Passed
    BY DEF Queueing, Enqueue, Dequeue, Passed
  <2>2. at \in [Callbacks -> Stages] /\ received \in Seq(Numbers) /\ Len(received) \in Nat
    BY DEF ReceiverInv, TypeOK
  <2> QED
    BY <2>1, <2>2, QueueingKeepsHands
<1>2. ~torn' /\ n \notin lapsed'
  BY DEF Trusted
<1>3. \/ UNCHANGED <<at, received>>
      \/ Enqueue(k) /\ received' = Append(received, PackageNo[msg[k]])
      \/ received # <<>> /\ received' = Tail(received) /\ n # Head(received) /\ at[k] = "dequeue"
  <2>1. CASE Enqueue(k)
    BY <1>2, <2>1 DEF Enqueue, Becomes
  <2>2. CASE Dequeue(k)
    <3>1. \/ UNCHANGED <<at, queueVars>>
          \/ /\ torn \/ received # <<>>
             /\ Becomes(k, Tail(received))
             /\ lapsed' = IF torn THEN lapsed ELSE lapsed \cup {Head(received)}
             /\ at[k] = "dequeue"
      BY <2>2 DEF Dequeue
    <3> QED
      BY <1>2, <3>1 DEF Becomes, queueVars
  <2> QED
    BY <2>1, <2>2
<1>4. ASSUME InReceivedQueue(n) PROVE InReceivedQueue(n)'
  <2>1. PICK i \in DOMAIN received : received[i] = n
    BY <1>4 DEF InReceivedQueue
  <2>2. CASE UNCHANGED <<at, received>>
    BY <1>4, <2>2 DEF InReceivedQueue
  <2>3. CASE received' = Append(received, PackageNo[msg[k]])
    <3>1. i \in 1..Len(received')  /\ received'[i] = n
      BY <1>1, <2>1, <2>3, AppendProperties
    <3>2. received' \in Seq(Numbers)
      BY <1>1, <2>3
    <3> QED
      BY <3>1, <3>2 DEF InReceivedQueue
  <2>4. CASE received # <<>> /\ received' = Tail(received) /\ n # Head(received)
    <3>1. /\ received' \in Seq(Numbers) /\ Len(received') = Len(received) - 1
          /\ \A j \in 1..Len(received') : received'[j] = received[j + 1]
      BY <1>1, <2>4, HeadTailProperties
    <3>2. i # 1 /\ i \in 1..Len(received)
      BY <1>1, <2>1, <2>4
    <3>3. i - 1 \in 1..Len(received') /\ (i - 1) + 1 = i
      BY <1>1, <3>1, <3>2
    <3>4. received'[i - 1] = n
      BY <2>1, <3>1, <3>3
    <3> QED
      BY <3>1, <3>3, <3>4 DEF InReceivedQueue
  <2> QED
    BY <1>3, <2>2, <2>3, <2>4
<1>5. \A o \in Callbacks : Holds(o, n)' => Holds(o, n)
  BY <1>1 DEF Holds
<1>6. ASSUME NEW o \in Callbacks, Holds(o, n)', at'[o] # "enqueue" PROVE InReceivedQueue(n)'
  <2>1. CASE at[o] # "enqueue"
    BY <1>4, <1>5, <1>6, <2>1 DEF OnceFor
  <2>2. CASE at[o] = "enqueue"
    <3>1. o = k /\ Enqueue(k) /\ received' = Append(received, PackageNo[msg[k]])
      BY <1>1, <1>3, <1>6, <2>2
    <3>2. PackageNo[msg[k]] = n
      BY <1>5, <1>6, <3>1 DEF Holds
    <3>3. received' \in Seq(Numbers) /\ Len(received) + 1 \in 1..Len(received') /\ received'[Len(received) + 1] = n
      BY <1>1, <3>1, <3>2, AppendProperties
    <3> QED
      BY <3>3 DEF InReceivedQueue
  <2> QED
    BY <2>1, <2>2
<1> QED
  BY <1>1, <1>4, <1>5, <1>6 DEF OnceFor

\* The message that is delivered is the only one of its number.
LEMMA OnceByDelivery ==
  ASSUME ReceiverInv, NEW n \in Numbers, OnceFor(n), NEW k \in Callbacks, OnMessageReceived(k),
         UNCHANGED PackageNo
  PROVE  OnceFor(n)'
<1>1. /\ at \in [Callbacks -> Stages] /\ msg \in [Callbacks -> Messages \cup {None}]
      /\ delivered \in [Messages -> Nat] /\ msg[k] \in Messages
      /\ at[k] = "deliver" /\ at' = [at EXCEPT ![k] = "idle"] /\ msg' = [msg EXCEPT ![k] = None]
      /\ delivered' = [delivered EXCEPT ![msg[k]] = @ + 1]
      /\ UNCHANGED received
  BY DEF OnMessageReceived, Done, queueVars, ReceiverInv, TypeOK, Passed
<1>2. \A o \in Callbacks : Holds(o, n)' => o # k /\ Holds(o, n) /\ at'[o] = at[o]
  BY <1>1 DEF Holds, Passed
<1>3. CASE PackageNo[msg[k]] # n
  <2>1. \A m \in Messages : PackageNo[m] = n => delivered'[m] = delivered[m]
    BY <1>1, <1>3
  <2> QED
    BY <1>2, <2>1, <1>1 DEF OnceFor, InReceivedQueue
<1>4. CASE PackageNo[msg[k]] = n
  <2>1. Holds(k, n) /\ InReceivedQueue(n)
    BY <1>1, <1>4 DEF Holds, Passed, OnceFor
  <2>2. \A m \in Messages : PackageNo[m] = n => delivered[m] = 0
    BY <2>1 DEF OnceFor
  <2>3. delivered'[msg[k]] = 1 /\ \A m \in Messages : PackageNo[m] = n /\ m # msg[k] => delivered'[m] = 0
    BY <1>1, <1>4, <2>2
  <2>4. \A o \in Callbacks : ~Holds(o, n)'
    BY <1>2, <2>1 DEF OnceFor
  <2>5. InReceivedQueue(n)'
    BY <1>1, <2>1 DEF InReceivedQueue
  <2>6. \A m, o \in Messages :
          PackageNo[m] = n /\ PackageNo[o] = n /\ delivered'[m] > 0 /\ delivered'[o] > 0
            => m = o /\ delivered'[m] = 1
    BY <2>3
  <2> QED
    BY <2>4, <2>5, <2>6 DEF OnceFor
<1> QED
  BY <1>3, <1>4

\* Nothing has been delivered at first.
LEMMA OnceInit == Init => OnceInv
  BY ReceiverInit DEF Init, OnceInv, OnceFor, Holds, Passed

\* What the queue cannot be trusted about, it never can be again.
LEMMA TrustIsLost == ASSUME [Next]_vars, NEW n, Trusted(n)' PROVE Trusted(n)
<1>1. torn => torn'
  BY DEF Next, Callback, ReceiveDataAsync, SendConfirm, SinglePacket, FragmentOutOfRange, CacheFragment,
         HandleConfirmation, DropRepeated, NotReceivedBefore, Enqueue, TestCount, Dequeue, Becomes,
         OnMessageReceived, vars, queueVars
<1>2. lapsed \subseteq lapsed'
  BY DEF Next, Callback, ReceiveDataAsync, SendConfirm, SinglePacket, FragmentOutOfRange, CacheFragment,
         HandleConfirmation, DropRepeated, NotReceivedBefore, Enqueue, TestCount, Dequeue,
         OnMessageReceived, vars, queueVars
<1> QED
  BY <1>1, <1>2 DEF Trusted

\* Every step keeps what has been delivered in the queue, once.
LEMMA OnceNext == ASSUME OnceInv, [Next]_vars PROVE OnceInv'
  <1>1. ReceiverInv'
    BY ReceiverNext DEF OnceInv
  <1>2. SUFFICES ASSUME NEW n \in Numbers, Trusted(n)' PROVE OnceFor(n)'
    BY <1>1 DEF OnceInv, Numbers
  <1>3. OnceFor(n) /\ ReceiverInv
    BY <1>2, TrustIsLost DEF OnceInv
  <1>4. at \in [Callbacks -> Stages] /\ msg \in [Callbacks -> Messages \cup {None}]
    BY <1>3 DEF ReceiverInv, TypeOK
  <1>5. CASE UNCHANGED vars
    BY <1>3, <1>5, OnceByOthers DEF vars, numbers, history, queueVars
  <1>6. CASE Next
    <2>1. PICK k \in Callbacks : Callback(k) \/ \E f \in Fragments : ReceiveDataAsync(k, f)
      BY <1>6 DEF Next
    <2>2. UNCHANGED PackageNo
      BY <1>6 DEF Next, numbers
    <2>3. CASE \/ \E f \in Fragments : ReceiveDataAsync(k, f)
               \/ SendConfirm(k) \/ FragmentOutOfRange(k)
      <3>1. UNCHANGED <<received, delivered, msg>>
        BY <2>3 DEF ReceiveDataAsync, SendConfirm, FragmentOutOfRange, history, queueVars
      <3>2. \/ at' = at
            \/ \E s \in {"confirm", "translate"} : at' = [at EXCEPT ![k] = s]
        BY <2>3 DEF ReceiveDataAsync, SendConfirm, FragmentOutOfRange
      <3> QED
        BY <1>3, <1>4, <2>2, <3>1, <3>2, OnceByOthers DEF Passed
    <2>4. CASE SinglePacket(k) \/ CacheFragment(k)
      <3>1. UNCHANGED <<received, delivered>> /\ \E m : GoOnWith(k, m)
        BY <2>4 DEF SinglePacket, CacheFragment, history, queueVars
      <3> QED
        BY <1>3, <1>4, <2>2, <3>1, OnceByOthers DEF GoOnWith, Passed
    <2>5. CASE HandleConfirmation(k) \/ DropRepeated(k)
      <3>1. UNCHANGED <<received, delivered>> /\ Done(k)
        BY <2>5 DEF HandleConfirmation, DropRepeated, queueVars
      <3> QED
        BY <1>3, <1>4, <2>2, <3>1, OnceByOthers DEF Done, Passed
    <2>6. CASE TestCount(k)
      <3>1. /\ UNCHANGED <<received, delivered, msg>> /\ at[k] = "count"
            /\ \E s \in {"dequeue", "deliver"} : at' = [at EXCEPT ![k] = s]
        BY <2>6 DEF TestCount, history, queueVars
      <3> QED
        BY <1>3, <1>4, <2>2, <3>1, OnceByOthers DEF Passed
    <2>7. CASE NotReceivedBefore(k)
      BY <1>2, <1>3, <2>2, <2>7, OnceByTest
    <2>8. CASE Enqueue(k) \/ Dequeue(k)
      BY <1>2, <1>3, <2>2, <2>8, OnceByQueue
    <2>9. CASE OnMessageReceived(k)
      BY <1>3, <2>2, <2>9, OnceByDelivery
    <2> QED
      BY <2>1, <2>3, <2>4, <2>5, <2>6, <2>7, <2>8, <2>9 DEF Callback
  <1> QED
    BY <1>5, <1>6

\* PackageReceived raises MessageReceived once for all messages of a number, on however
\* many callbacks, as long as ReceivedQueue can be trusted about that number.
THEOREM RepeatsAreDropped == Spec => []DeliveredOnce
  <1>1. OnceInv /\ [Next]_vars => OnceInv'
    BY OnceNext
  <1>2. OnceInv => DeliveredOnce
    BY NumberOfMessage DEF OnceInv, OnceFor, DeliveredOnce, ReceiverInv
  <1> QED
    BY <1>1, <1>2, OnceInit, PTL DEF Spec
================================================================================
