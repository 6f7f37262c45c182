---------------------------- MODULE ReliableUdp_proofs ----------------------------
(***************************************************************************)
(* Proofs about ReliableUdp for any messages, packets and callbacks: each  *)
(* host alone is what UdpSender and MsgReceiver describe, so that what is  *)
(* proved of them holds of the pair, and no packet is taken for confirmed  *)
(* that has not arrived.                                                   *)
(***************************************************************************)
EXTENDS ReliableUdp, SequenceTheorems, TLAPS

\* What is proved of the hosts alone.
ReceiverP == INSTANCE MsgReceiver_proofs
               WITH Confirmations <- {}, ConfirmedNos <- {<<>>}, Copies <- MaxResendTimes
SenderP   == INSTANCE UdpSender_proofs
               WITH Null <- None, crashed <- senderCrashed, confirms <- popped

\* A step of the pair is a step, or none, of the sender.
LEMMA SenderStep == [Next]_vars => [Sender!Next]_(Sender!vars)
<1> SUFFICES ASSUME [Next]_vars PROVE [Sender!Next]_(Sender!vars)
  OBVIOUS
<1> DEFINE Stays == UNCHANGED senderVars
<1>1. Stays => UNCHANGED Sender!vars
  BY DEF senderVars, Sender!vars, Sender!appVars, Sender!listVars, Sender!resendVars, Sender!popVars
<1>2. CASE SenderAlone
  BY <1>2 DEF SenderAlone, SendPacket, Sender!Next
<1>3. CASE ReceiverAlone
  BY <1>1, <1>3 DEF ReceiverAlone
<1>4. ASSUME NEW p \in Packets, DatagramArrives(p) PROVE Stays
  BY <1>4 DEF DatagramArrives
<1>5. ASSUME NEW p \in Packets, ConfirmationArrives(p) PROVE Sender!Next
  BY <1>5 DEF ConfirmationArrives, Sender!Next
<1>6. CASE UNCHANGED vars
  BY <1>6, <1>1 DEF vars
<1> QED BY <1>1, <1>2, <1>3, <1>4, <1>5, <1>6 DEF Next

\* A step of the pair is a step, or none, of the receiver.
LEMMA ReceiverStep == [Next]_vars => [Receiver!Next]_(Receiver!vars)
<1> SUFFICES ASSUME [Next]_vars PROVE [Receiver!Next]_(Receiver!vars)
  OBVIOUS
<1> DEFINE Stays == UNCHANGED receiverVars
<1>1. Stays => UNCHANGED Receiver!vars
  BY DEF receiverVars, numbers, Receiver!vars, Receiver!numbers, Receiver!queueVars, Receiver!history
<1>2. CASE SenderAlone
  BY <1>1, <1>2 DEF SenderAlone
<1>3. CASE ReceiverAlone
  BY <1>3 DEF ReceiverAlone, numbers, Receiver!Next, Receiver!numbers
<1>4. ASSUME NEW p \in Packets, DatagramArrives(p) PROVE Receiver!Next
  BY <1>4 DEF DatagramArrives, numbers, Receiver!Next, Receiver!numbers, Packets
<1>5. ASSUME NEW p \in Packets, ConfirmationArrives(p) PROVE Stays
  BY <1>5 DEF ConfirmationArrives
<1>6. CASE UNCHANGED vars
  BY <1>6, <1>1 DEF vars
<1> QED BY <1>1, <1>2, <1>3, <1>4, <1>5, <1>6 DEF Next

\* Each host of the pair behaves as UdpSender and MsgReceiver say.
THEOREM HostsAreComponents == Spec => Sender!Spec /\ Receiver!Spec
<1>1. Init => Sender!Init /\ Receiver!Init
  BY DEF Init
<1> QED BY <1>1, SenderStep, ReceiverStep, PTL DEF Spec, Sender!Spec, Receiver!Spec

(***************************************************************************)
(* What the sender takes for confirmed has arrived.  A confirmation is in  *)
(* the network or in the hands of PopSendItemFromList only if it was sent, *)
(* and a callback that sends one has a packet in its hands.                *)
(***************************************************************************)
Types ==
  /\ popped \in [Packets -> Nat] /\ arrived \in [Packets -> Nat]
  /\ at \in [Callbacks -> Receiver!Stages]
  /\ pack \in [Callbacks -> Packets \cup {None}]

InHandArrived  == \A k \in Callbacks : at[k] # "idle" => pack[k] \in Packets /\ arrived[pack[k]] > 0
ConfirmArrived == \A p \in confirms : p \in Packets /\ arrived[p] > 0
PoppedConfirmed ==
  /\ pop # None => pop \in confirms
  /\ \A p \in Packets : popped[p] > 0 => p \in confirms

ArrivalInv == Types /\ InHandArrived /\ ConfirmArrived /\ PoppedConfirmed

PoppedHaveArrived == \A p \in Packets : popped[p] > 0 => arrived[p] > 0

LEMMA ArrivalInit == Init => ArrivalInv
<1> SUFFICES ASSUME Init PROVE ArrivalInv OBVIOUS
<1> USE DEF Init, Sender!Init, Receiver!Init
<1>1. popped \in [Packets -> Nat] /\ arrived \in [Packets -> Nat]
  BY DEF Packets
<1>2. at \in [Callbacks -> Receiver!Stages] /\ pack \in [Callbacks -> Packets \cup {None}]
  BY DEF Receiver!Stages
<1>3. InHandArrived /\ ConfirmArrived
  BY DEF InHandArrived, ConfirmArrived
<1>4. PoppedConfirmed
  BY DEF PoppedConfirmed
<1> QED BY <1>1, <1>2, <1>3, <1>4 DEF ArrivalInv, Types

\* The sender alone: only PopDone counts a confirmation, of a packet that is confirmed.
LEMMA ArrivalSender == ArrivalInv /\ SenderAlone => ArrivalInv'
<1> SUFFICES ASSUME ArrivalInv, SenderAlone PROVE ArrivalInv' OBVIOUS
<1>1. UNCHANGED <<arrived, at, pack, confirms>>
  BY DEF SenderAlone, receiverVars
<1>2. CASE UNCHANGED <<pop, popped>>
  BY <1>1, <1>2 DEF ArrivalInv, Types, InHandArrived, ConfirmArrived, PoppedConfirmed
<1>3. CASE Sender!PopDone
  <2>1. pop # None /\ pop \in confirms /\ pop \in Packets
    BY <1>3 DEF Sender!PopDone, ArrivalInv, PoppedConfirmed, ConfirmArrived
  <2>2. popped' = [popped EXCEPT ![pop] = @ + 1] /\ pop' = None
    BY <1>3 DEF Sender!PopDone
  <2>3. popped' \in [Packets -> Nat]
    BY <2>1, <2>2 DEF ArrivalInv, Types
  <2>4. PoppedConfirmed'
    BY <1>1, <2>1, <2>2 DEF ArrivalInv, Types, PoppedConfirmed
  <2> QED BY <1>1, <2>3, <2>4 DEF ArrivalInv, Types, InHandArrived, ConfirmArrived
<1>4. UNCHANGED <<pop, popped>> \/ Sender!PopDone
  <2>1. ASSUME NEW p \in Packets, SendPacket(p) \/ Sender!Pushing(p)
        PROVE UNCHANGED <<pop, popped>>
    BY <2>1 DEF SendPacket, Sender!SendPacket, Sender!Pushing, Sender!PushReads,
                Sender!PushGrows, Sender!PushStores, Sender!NewVersion, Sender!popVars
  <2>2. CASE Sender!ResendThread
    BY <2>2 DEF Sender!ResendThread, Sender!StartRound, Sender!EndRound, Sender!NullEntry,
                Sender!TreatEntry, Sender!RepushReads, Sender!RepushGrows,
                Sender!RepushStores, Sender!DropFinds, Sender!DropRemoves,
                Sender!DropOutOfRange, Sender!NewVersion, Sender!popVars
  <2>3. CASE Sender!Popping
    BY <2>3 DEF Sender!Popping, Sender!PopScan, Sender!PopFinds, Sender!PopRemoves,
                Sender!PopOutOfRange, Sender!popVars
  <2>4. CASE Sender!Close
    BY <2>4 DEF Sender!Close, Sender!popVars
  <2> QED BY <2>1, <2>2, <2>3, <2>4 DEF SenderAlone
<1> QED BY <1>2, <1>3, <1>4

\* The receiver alone: SendConfirm confirms the packet in the hands of its callback.
LEMMA ArrivalReceiver == ArrivalInv /\ ReceiverAlone => ArrivalInv'
<1> SUFFICES ASSUME ArrivalInv, NEW k \in Callbacks, Receiver!Callback(k),
                    UNCHANGED <<numbers, senderVars>>
             PROVE  ArrivalInv'
  BY DEF ReceiverAlone
<1> USE DEF ArrivalInv, Types, InHandArrived, ConfirmArrived, PoppedConfirmed, Receiver!Stages
<1>1. UNCHANGED <<pop, popped>>
  BY DEF senderVars
<1>2. CASE Receiver!SendConfirm(k)
  BY <1>1, <1>2 DEF Receiver!SendConfirm
<1>3. CASE Receiver!SinglePacket(k)
  BY <1>1, <1>3 DEF Receiver!SinglePacket, Receiver!GoOnWith, Receiver!history
<1>4. CASE Receiver!FragmentOutOfRange(k)
  BY <1>1, <1>4 DEF Receiver!FragmentOutOfRange, Receiver!history
<1>5. CASE Receiver!CacheFragment(k)
  BY <1>1, <1>5 DEF Receiver!CacheFragment, Receiver!GoOnWith, Receiver!history
<1>6. CASE Receiver!HandleConfirmation(k)
  BY <1>1, <1>6 DEF Receiver!HandleConfirmation, Receiver!Done
<1>7. CASE Receiver!DropRepeated(k)
  BY <1>1, <1>7 DEF Receiver!DropRepeated, Receiver!Done
<1>8. CASE Receiver!NotReceivedBefore(k)
  BY <1>1, <1>8 DEF Receiver!NotReceivedBefore, Receiver!history, Receiver!Passed
<1>9. CASE Receiver!Enqueue(k) \/ Receiver!TestCount(k) \/ Receiver!Dequeue(k)
  <2>1. /\ UNCHANGED <<arrived, pack, confirms>> /\ at[k] # "idle"
        /\ at' = at \/ \E s \in Receiver!Passed : at' = [at EXCEPT ![k] = s]
    BY <1>9 DEF Receiver!Enqueue, Receiver!TestCount, Receiver!Dequeue, Receiver!history,
                Receiver!Passed
  <2> QED
    BY <1>1, <2>1 DEF Receiver!Passed
<1>10. CASE Receiver!OnMessageReceived(k)
  BY <1>1, <1>10 DEF Receiver!OnMessageReceived, Receiver!Done
<1> QED
  BY <1>2, <1>3, <1>4, <1>5, <1>6, <1>7, <1>8, <1>9, <1>10 DEF Receiver!Callback

LEMMA ArrivalNetwork ==
  ASSUME ArrivalInv, NEW p \in Packets, DatagramArrives(p) \/ ConfirmationArrives(p)
  PROVE  ArrivalInv'
<1> USE DEF ArrivalInv, Types, InHandArrived, ConfirmArrived, PoppedConfirmed
<1>1. CASE DatagramArrives(p)
  <2>1. UNCHANGED <<pop, popped>>
    BY <1>1 DEF DatagramArrives, senderVars
  <2>2. PICK k \in Callbacks : Receiver!ReceiveDataAsync(k, p)
    BY <1>1 DEF DatagramArrives
  <2> QED BY <2>1, <2>2 DEF Receiver!ReceiveDataAsync, Receiver!Stages, Receiver!history
<1>2. CASE ConfirmationArrives(p)
  BY <1>2 DEF ConfirmationArrives, receiverVars, Sender!ConfirmArrives
<1> QED BY <1>1, <1>2

LEMMA ArrivalNext == ArrivalInv /\ [Next]_vars => ArrivalInv'
<1> SUFFICES ASSUME ArrivalInv, [Next]_vars PROVE ArrivalInv' OBVIOUS
<1>1. CASE UNCHANGED vars
  BY <1>1 DEF vars, senderVars, receiverVars, ArrivalInv, Types, InHandArrived,
              ConfirmArrived, PoppedConfirmed, numbers
<1> QED BY <1>1, ArrivalSender, ArrivalReceiver, ArrivalNetwork DEF Next

LEMMA ArrivalInvariance == Spec => []ArrivalInv
  BY ArrivalInit, ArrivalNext, PTL DEF Spec

\* No packet is taken for confirmed that has not arrived.
THEOREM NoFalseConfirmation == Spec => []PoppedHaveArrived
<1>1. ArrivalInv => PoppedHaveArrived
  BY DEF ArrivalInv, ConfirmArrived, PoppedConfirmed, PoppedHaveArrived
<1> QED BY <1>1, ArrivalInvariance, PTL

(***************************************************************************)
(* The hosts of the pair are also those the proofs about one host are      *)
(* about: their definitions and assumptions are the same.                  *)
(***************************************************************************)

\* The packets of the sender are the fragments of the receiver.
LEMMA SameFragments ==
  /\ ReceiverP!Fragments = Packets
  /\ \A m : ReceiverP!FragmentsOf(m) = Receiver!FragmentsOf(m)
BY DEF Packets, Receiver!Fragments, ReceiverP!Fragments, Receiver!FragmentsOf,
       ReceiverP!FragmentsOf

\* The assumptions about MsgReceiver hold.
LEMMA ReceiverAssumptions ==
  /\ ReceiverP!MessagesAssumption /\ ReceiverP!NumbersAssumption
  /\ ReceiverP!CountAssumption /\ ReceiverP!CallbacksAssumption
  /\ ReceiverP!BoundsAssumption /\ ReceiverP!NoneAssumption
<1>1. IsFiniteSet(Callbacks) => ReceiverP!IsFiniteSet(Callbacks)
  BY DEF IsFiniteSet, ReceiverP!IsFiniteSet
<1> QED
  BY <1>1, SameFragments, NumbersAssumption, CountAssumption, CallbacksAssumption,
     BoundsAssumption, NoneAssumption
  DEF ReceiverP!MessagesAssumption, ReceiverP!NumbersAssumption, ReceiverP!CountAssumption,
      ReceiverP!CallbacksAssumption, ReceiverP!BoundsAssumption, ReceiverP!NoneAssumption

\* The assumptions about UdpSender hold.
LEMMA SenderAssumptions ==
  /\ SenderP!PacketsAssumption /\ SenderP!MaxResendTimesAssumption
  /\ SenderP!MaxConfirmsAssumption
BY BoundsAssumption, NoneAssumption
DEF SenderP!PacketsAssumption, SenderP!MaxResendTimesAssumption, SenderP!MaxConfirmsAssumption

LEMMA SameReceiverInit == Receiver!Init => ReceiverP!Init
<1>1. Receiver!Numbers = ReceiverP!Numbers
  BY DEF Receiver!Numbers, ReceiverP!Numbers
<1> QED
  BY <1>1, SameFragments DEF Packets, Receiver!Init, ReceiverP!Init

LEMMA SameReceiverStep ==
  [Receiver!Next]_(Receiver!vars) => [ReceiverP!Next]_(ReceiverP!vars)
<1>1. ASSUME NEW k, Receiver!Callback(k) PROVE ReceiverP!Callback(k)
  <2>1. /\ \A n : Receiver!Found(n) = ReceiverP!Found(n)
        /\ \A n : Receiver!NotFound(n) = ReceiverP!NotFound(n)
        /\ \A q : Receiver!Becomes(k, q) = ReceiverP!Becomes(k, q)
    BY DEF Receiver!Found, ReceiverP!Found, Receiver!NotFound, ReceiverP!NotFound,
           Receiver!Accepted, ReceiverP!Accepted, Receiver!Passed, ReceiverP!Passed,
           Receiver!InReceivedQueue, ReceiverP!InReceivedQueue,
           Receiver!Becomes, ReceiverP!Becomes, Receiver!Alone, ReceiverP!Alone
  <2> USE DEF Receiver!history, ReceiverP!history, Receiver!queueVars, ReceiverP!queueVars,
              Receiver!Done, ReceiverP!Done, Receiver!GoOnWith, ReceiverP!GoOnWith
  <2>2. CASE \/ Receiver!SendConfirm(k) \/ Receiver!SinglePacket(k)
             \/ Receiver!FragmentOutOfRange(k) \/ Receiver!CacheFragment(k)
    BY <2>2
    DEF Receiver!SendConfirm, Receiver!SinglePacket, Receiver!FragmentOutOfRange,
        Receiver!CacheFragment, Receiver!Stored, Receiver!Full, Receiver!Parsed,
        ReceiverP!SendConfirm, ReceiverP!SinglePacket, ReceiverP!FragmentOutOfRange,
        ReceiverP!CacheFragment, ReceiverP!Stored, ReceiverP!Full, ReceiverP!Parsed,
        ReceiverP!Callback
  <2>3. CASE \/ Receiver!HandleConfirmation(k) \/ Receiver!DropRepeated(k)
             \/ Receiver!NotReceivedBefore(k)
    BY <2>1, <2>3
    DEF Receiver!HandleConfirmation, Receiver!DropRepeated, Receiver!NotReceivedBefore,
        Receiver!TryParseToInt, ReceiverP!HandleConfirmation, ReceiverP!DropRepeated,
        ReceiverP!NotReceivedBefore, ReceiverP!TryParseToInt, ReceiverP!Callback
  <2>4. CASE \/ Receiver!Enqueue(k) \/ Receiver!TestCount(k) \/ Receiver!Dequeue(k)
             \/ Receiver!OnMessageReceived(k)
    BY <2>1, <2>4
    DEF Receiver!Enqueue, Receiver!TestCount, Receiver!Dequeue, Receiver!OnMessageReceived,
        Receiver!Overfull, ReceiverP!Enqueue, ReceiverP!TestCount, ReceiverP!Dequeue,
        ReceiverP!OnMessageReceived, ReceiverP!Overfull, ReceiverP!Callback
  <2> QED
    BY <1>1, <2>2, <2>3, <2>4 DEF Receiver!Callback
<1>2. ASSUME NEW k, NEW f, Receiver!ReceiveDataAsync(k, f)
      PROVE  ReceiverP!ReceiveDataAsync(k, f)
  BY <1>2 DEF Receiver!ReceiveDataAsync, ReceiverP!ReceiveDataAsync, Receiver!history,
              ReceiverP!history, Receiver!queueVars, ReceiverP!queueVars
<1>3. Receiver!vars = ReceiverP!vars /\ Receiver!numbers = ReceiverP!numbers
  BY DEF Receiver!vars, ReceiverP!vars, Receiver!history, ReceiverP!history,
         Receiver!queueVars, ReceiverP!queueVars, Receiver!numbers, ReceiverP!numbers
<1>4. CASE Receiver!Next
  <2>1. PICK k \in Callbacks :
          Receiver!Callback(k) \/ \E f \in Receiver!Fragments : Receiver!ReceiveDataAsync(k, f)
    BY <1>4 DEF Receiver!Next
  <2>2. UNCHANGED ReceiverP!numbers
    BY <1>4 DEF Receiver!Next, Receiver!numbers, ReceiverP!numbers
  <2>3. CASE Receiver!Callback(k)
    BY <1>1, <2>2, <2>3 DEF ReceiverP!Next
  <2>4. CASE \E f \in Receiver!Fragments : Receiver!ReceiveDataAsync(k, f)
    BY <1>2, <2>2, <2>4, SameFragments DEF ReceiverP!Next, Packets
  <2> QED
    BY <2>1, <2>3, <2>4
<1>5. CASE UNCHANGED Receiver!vars
  BY <1>5 DEF Receiver!vars, ReceiverP!vars, Receiver!history, ReceiverP!history,
              Receiver!queueVars, ReceiverP!queueVars, Receiver!numbers, ReceiverP!numbers
<1> QED
  BY <1>4, <1>5

LEMMA SameSenderInit == Sender!Init => SenderP!Init
  BY DEF Sender!Init, SenderP!Init

\* The list operations are the same.
LEMMA SameListOperations ==
  /\ Sender!sendList = SenderP!sendList
  /\ \A p : Sender!Listed(p) = SenderP!Listed(p)
  /\ \A p : Sender!Occurrences(p) = SenderP!Occurrences(p)
  /\ \A i, p : Sender!First(i, p) = SenderP!First(i, p)
  /\ \A p : Sender!First(resendSlot', p) = SenderP!First(resendSlot', p)
  /\ \A p : Sender!First(popSlot', p) = SenderP!First(popSlot', p)
  /\ \A k : Sender!Grow(k) = SenderP!Grow(k)
  /\ \A k, p : Sender!Store(k, p) = SenderP!Store(k, p)
  /\ \A i, p : Sender!RemoveAt(i, p) = SenderP!RemoveAt(i, p)
<1>1. /\ Sender!sendList = SenderP!sendList
      /\ \A p : Sender!Listed(p) = SenderP!Listed(p)
      /\ \A i, p : Sender!First(i, p) = SenderP!First(i, p)
      /\ \A p : Sender!First(resendSlot', p) = SenderP!First(resendSlot', p)
      /\ \A p : Sender!First(popSlot', p) = SenderP!First(popSlot', p)
  BY DEF Sender!sendList, SenderP!sendList, Sender!Listed, SenderP!Listed, Sender!First, SenderP!First
<1>2. \A p : Sender!Occurrences(p) = SenderP!Occurrences(p)
  BY DEF Sender!Occurrences, SenderP!Occurrences, Sender!Cardinality, SenderP!Cardinality
<1>3. /\ \A k : Sender!Grow(k) = SenderP!Grow(k)
      /\ \A k, p : Sender!Store(k, p) = SenderP!Store(k, p)
  BY DEF Sender!Grow, SenderP!Grow, Sender!Store, SenderP!Store, Sender!Upto, SenderP!Upto
<1>4. \A i, p : Sender!RemoveAt(i, p) = SenderP!RemoveAt(i, p)
  BY DEF Sender!RemoveAt, SenderP!RemoveAt
<1> QED
  BY <1>1, <1>2, <1>3, <1>4

LEMMA SameSenderStep ==
  [Sender!Next]_(Sender!vars) => [SenderP!Next]_(SenderP!vars)
<1> USE DEF Sender!appVars, SenderP!appVars, Sender!resendVars, SenderP!resendVars,
            Sender!popVars, SenderP!popVars, Sender!listVars, SenderP!listVars,
            Sender!NewVersion, SenderP!NewVersion, Sender!NextEntry, SenderP!NextEntry
<1>1. ASSUME NEW p, Sender!SendPacket(p) \/ Sender!SendCallback(p)
      PROVE  SenderP!SendPacket(p) \/ SenderP!SendCallback(p)
  BY <1>1 DEF Sender!SendPacket, SenderP!SendPacket, Sender!SendCallback, SenderP!SendCallback
<1>2. ASSUME NEW p, Sender!Pushing(p) PROVE SenderP!Pushing(p)
  BY <1>2, SameListOperations
  DEF Sender!Pushing, SenderP!Pushing, Sender!PushReads, SenderP!PushReads,
      Sender!PushGrows, SenderP!PushGrows, Sender!PushStores, SenderP!PushStores
<1>4. ASSUME NEW p, Sender!ConfirmArrives(p) PROVE SenderP!ConfirmArrives(p)
  BY <1>4 DEF Sender!ConfirmArrives, SenderP!ConfirmArrives
<1>5. ASSUME Sender!StartRound \/ Sender!EndRound \/ Sender!NullEntry \/ Sender!TreatEntry
      PROVE  SenderP!ResendThread
  BY <1>5, SameListOperations
  DEF Sender!StartRound, Sender!EndRound, Sender!NullEntry, Sender!TreatEntry,
      Sender!LastTry, SenderP!StartRound, SenderP!EndRound, SenderP!NullEntry,
      SenderP!TreatEntry, SenderP!LastTry, SenderP!ResendThread
<1>6. ASSUME Sender!RepushReads \/ Sender!RepushGrows \/ Sender!RepushStores
      PROVE  SenderP!ResendThread
  BY <1>6, SameListOperations
  DEF Sender!RepushReads, Sender!RepushGrows, Sender!RepushStores,
      SenderP!RepushReads, SenderP!RepushGrows, SenderP!RepushStores, SenderP!ResendThread
<1>3. ASSUME Sender!DropFinds \/ Sender!DropRemoves \/ Sender!DropOutOfRange
      PROVE  SenderP!ResendThread
  BY <1>3, SameListOperations
  DEF Sender!DropFinds, Sender!DropRemoves, Sender!DropOutOfRange,
      SenderP!DropFinds, SenderP!DropRemoves, SenderP!DropOutOfRange, SenderP!ResendThread
<1>7. ASSUME Sender!Popping PROVE SenderP!Popping
  BY <1>7, SameListOperations
  DEF Sender!Popping, Sender!PopScan, Sender!PopFinds, Sender!PopRemoves,
      Sender!PopOutOfRange, Sender!PopDone, SenderP!Popping, SenderP!PopScan,
      SenderP!PopFinds, SenderP!PopRemoves, SenderP!PopOutOfRange, SenderP!PopDone
<1>8. ASSUME Sender!Close PROVE SenderP!Close
  BY <1>8 DEF Sender!Close, SenderP!Close
<1>9. CASE UNCHANGED Sender!vars
  BY <1>9 DEF Sender!vars, SenderP!vars
<1> QED
  BY <1>1, <1>2, <1>3, <1>4, <1>5, <1>6, <1>7, <1>8, <1>9
  DEF Sender!Next, SenderP!Next, Sender!ResendThread

\* So the pair keeps the invariants of its hosts.
LEMMA SenderInvStep == SenderP!SendInv /\ [Next]_vars => SenderP!SendInv'
  BY SenderStep, SameSenderStep, SenderAssumptions, SenderP!SendNext

LEMMA SenderInvInit == Init => SenderP!SendInv
  BY SameSenderInit, SenderAssumptions, SenderP!SendInit DEF Init

LEMMA ReceiverInvariance == Spec => []ReceiverP!KeepInv
<1>1. Init => ReceiverP!KeepInv
  BY SameReceiverInit, ReceiverAssumptions, ReceiverP!KeepInit DEF Init
<1>2. ReceiverP!KeepInv /\ [Next]_vars => ReceiverP!KeepInv'
  BY ReceiverStep, SameReceiverStep, ReceiverAssumptions, ReceiverP!KeepNext
<1> QED
  BY <1>1, <1>2, PTL DEF Spec

LEMMA SenderInvariance == Spec => []SenderP!SendInv
  BY SenderInvInit, SenderInvStep, PTL DEF Spec

\* Joined by the network, both hosts keep every variable well typed.
THEOREM PairTypeOK == Spec => []TypeOK
<1>1. SenderP!SendInv => Sender!TypeOK
  BY DEF SenderP!SendInv, SenderP!TypeOK, Sender!TypeOK, SenderP!AppStates, Sender!AppStates,
         SenderP!ResendStates, Sender!ResendStates
<1>2. ReceiverP!KeepInv => Receiver!TypeOK
  <2>1. /\ Receiver!Fragments = ReceiverP!Fragments /\ Receiver!Numbers = ReceiverP!Numbers
        /\ Receiver!Stages = ReceiverP!Stages /\ Receiver!Passed = ReceiverP!Passed
    BY SameFragments DEF Packets, Receiver!Numbers, ReceiverP!Numbers, Receiver!Stages,
                         ReceiverP!Stages, Receiver!Passed, ReceiverP!Passed
  <2>2. Receiver!Cardinality(Receiver!Overdue) = ReceiverP!Cardinality(ReceiverP!Overdue)
    BY DEF Receiver!Overdue, ReceiverP!Overdue, Receiver!Cardinality, ReceiverP!Cardinality
  <2> QED
    BY <2>1, <2>2 DEF ReceiverP!KeepInv, ReceiverP!ReceiverInv, ReceiverP!TypeOK, Receiver!TypeOK
<1> QED
  <2>1. SenderP!SendInv /\ ReceiverP!KeepInv => TypeOK
    BY <1>1, <1>2 DEF TypeOK
  <2> QED
    BY <2>1, SenderInvariance, ReceiverInvariance, PTL

\* What is proved of the hosts alone holds of the pair: transmissions are bounded, the
\* resend thread gives up only after all of them, nothing incomplete is delivered and
\* what was treated is delivered.
HostsPromise ==
  /\ Sender!TransmissionBound /\ Sender!GivenUpAfterAllTries
  /\ Receiver!CompleteBeforeDelivered /\ Receiver!NothingLost

\* Neither the network nor the other host makes a host break what it promises.
THEOREM HostsKeepTheirPromises == Spec => []HostsPromise
<1>1. SenderP!SendInv => Sender!TransmissionBound /\ Sender!GivenUpAfterAllTries
  BY SenderAssumptions, SenderP!SentWithinBound, SenderP!GivenUpTriedAll
  DEF Sender!TransmissionBound, Sender!GivenUpAfterAllTries, SenderP!TransmissionBound,
      SenderP!GivenUpAfterAllTries
<1>2. ReceiverP!KeepInv => Receiver!CompleteBeforeDelivered
  BY SameFragments DEF ReceiverP!KeepInv, ReceiverP!ReceiverInv,
     ReceiverP!CompleteBeforeDelivered, Receiver!CompleteBeforeDelivered
<1>3. ReceiverP!KeepInv => Receiver!NothingLost
  <2>1. /\ \A f : Receiver!Treated(f) = ReceiverP!Treated(f)
        /\ \A m : Receiver!OwnNumber(m) = ReceiverP!OwnNumber(m)
    BY DEF Receiver!Treated, ReceiverP!Treated, Receiver!OwnNumber, ReceiverP!OwnNumber,
           Receiver!Cardinality, ReceiverP!Cardinality, Cardinality
  <2>2. ReceiverP!KeepInv => ReceiverP!NothingLost
    BY ReceiverAssumptions, ReceiverP!TreatedIsConcluded
    DEF ReceiverP!NothingLost, ReceiverP!Regular, ReceiverP!Concluded
  <2> QED
    BY <2>1, <2>2, SameFragments DEF Receiver!NothingLost, ReceiverP!NothingLost
<1> QED
  <2>1. SenderP!SendInv /\ ReceiverP!KeepInv => HostsPromise
    BY <1>1, <1>2, <1>3 DEF HostsPromise
  <2> QED
    BY <2>1, SenderInvariance, ReceiverInvariance, PTL

(***************************************************************************)
(* What is confirmed is delivered.  A packet is confirmed just before its  *)
(* callback looks at it, so when the sender has the confirmations of all   *)
(* packets of a message, each has been put into the array of the message's *)
(* number, or is still in a callback's hands.                              *)
(***************************************************************************)

\* The numbers the sender has drawn for different messages differ.
DistinctNumbers ==
  \A choice \in PackageNos : \A m, o \in Messages : choice[m] = choice[o] => m = o

LEMMA TreatedOrInHand ==
  ASSUME ReceiverP!KeepInv, ArrivalInv, NEW m \in Messages, AllConfirmed(m), ~InHand(m)
  PROVE  \A p \in ReceiverP!FragmentsOf(m) : ReceiverP!Treated(p) > 0
<1> SUFFICES ASSUME NEW p \in ReceiverP!FragmentsOf(m) PROVE ReceiverP!Treated(p) > 0
  OBVIOUS
<1>1. p \in ReceiverP!Fragments /\ p.msg = m
  BY ReceiverAssumptions, ReceiverP!FragmentsOfMessage DEF ReceiverP!FragmentsOf
<1>2. p # None
  BY <1>1, ReceiverAssumptions, ReceiverP!FragmentFields
<1>3. p \in confirms
  BY <1>1, SameFragments DEF AllConfirmed, ArrivalInv, PoppedConfirmed
<1> QED
  BY <1>1, <1>2, <1>3 DEF ReceiverP!KeepInv, ReceiverP!ConfirmedIsTreated, InHand

\* However packets and confirmations are lost, repeated and reordered: a message whose
\* packets the sender counts as confirmed has reached the application, or a callback
\* has it in its hands, provided that no two messages have one number.
THEOREM ConfirmedReachesTheApplication ==
  ASSUME DistinctNumbers
  PROVE  Spec => []ConfirmedIsDelivered
<1>1. ASSUME ReceiverP!KeepInv, ArrivalInv, NEW m \in Messages, AllConfirmed(m), ~InHand(m)
      PROVE  delivered[m] > 0
  <2>1. PackageNo \in PackageNos
    BY <1>1 DEF ReceiverP!KeepInv, ReceiverP!ReceiverInv, ReceiverP!TypeOK
  <2>2. ReceiverP!Regular(m)
    BY <2>1, DistinctNumbers DEF ReceiverP!Regular, ReceiverP!OwnNumber, DistinctNumbers
  <2>3. ReceiverP!Concluded(m)
    BY <1>1, <2>2, TreatedOrInHand, ReceiverAssumptions, ReceiverP!TreatedIsConcluded
  <2> QED
    BY <1>1, <2>3 DEF ReceiverP!Concluded, InHand
<1>2. ReceiverP!KeepInv /\ ArrivalInv => ConfirmedIsDelivered
  BY <1>1 DEF ConfirmedIsDelivered
<1> QED
  BY <1>2, ReceiverInvariance, ArrivalInvariance, PTL

(***************************************************************************)
(* The pair implements Delivery, on any number of callbacks: a message is  *)
(* delivered again only when its number is one that the receiver's queue   *)
(* of received numbers cannot be trusted about any more.                   *)
(***************************************************************************)

\* What has been handed to AsyncSendPacket has been transmitted.
GivenIsSent == \A p \in Packets : app[p] # "new" => sent[p] > 0

DeliveryInv == SenderP!SendInv /\ ReceiverP!OnceInv /\ ArrivalInv /\ GivenIsSent

Counts == /\ sent \in [Packets -> Nat] /\ givenUp \in [Packets -> Nat]
          /\ popped \in [Packets -> Nat] /\ arrived \in [Packets -> Nat]
          /\ delivered \in [Messages -> Nat]

LEMMA DeliveryCounts == DeliveryInv => Counts
BY SameFragments
DEF DeliveryInv, Counts, SenderP!SendInv, SenderP!TypeOK, ReceiverP!OnceInv,
    ReceiverP!ReceiverInv, ReceiverP!TypeOK

\* What the receiver may have forgotten depends on its queue only.
Forgotten == {m \in Messages : ~Receiver!Trusted(PackageNo[m])}

QueueStays == UNCHANGED <<torn, lapsed, PackageNo>>

LEMMA ForgottenStays == QueueStays => UNCHANGED Forgotten
BY DEF QueueStays, Forgotten, Receiver!Trusted

\* The history of Delivery is UNCHANGED when the counts and the queue are.
LEMMA Stutters ==
  UNCHANGED <<sent, arrived, delivered, popped, givenUp>> /\ QueueStays
    => UNCHANGED Abstract!vars
BY ForgottenStays DEF Abstract!vars, Forgotten

\* Counting a packet once more adds it to the set of those counted.
LEMMA OnceMore ==
  ASSUME NEW c \in [Packets -> Nat], NEW p \in Packets
  PROVE  {q \in Packets : [c EXCEPT ![p] = @ + 1][q] > 0} = {q \in Packets : c[q] > 0} \cup {p}
OBVIOUS

\* A transmission.
LEMMA SendImplements ==
  ASSUME Counts, NEW p \in Packets, sent' = [sent EXCEPT ![p] = @ + 1],
         UNCHANGED <<arrived, delivered, popped, givenUp>>, QueueStays
  PROVE  Abstract!Next
<1>1. {q \in Packets : sent'[q] > 0} = {q \in Packets : sent[q] > 0} \cup {p}
  BY OnceMore DEF Counts
<1> QED
  BY <1>1, ForgottenStays DEF Forgotten, Abstract!Next, Abstract!Send

\* A failure of a packet that has been transmitted.
LEMMA FailImplements ==
  ASSUME Counts, NEW p \in Packets, sent[p] > 0, givenUp' = [givenUp EXCEPT ![p] = @ + 1],
         UNCHANGED <<sent, arrived, delivered, popped>>, QueueStays
  PROVE  Abstract!Next
<1>1. {q \in Packets : givenUp'[q] > 0} = {q \in Packets : givenUp[q] > 0} \cup {p}
  BY OnceMore DEF Counts
<1> QED
  BY <1>1, ForgottenStays DEF Forgotten, Abstract!Next, Abstract!Fail

\* The arrival of a packet that has been transmitted.
LEMMA ArriveImplements ==
  ASSUME Counts, NEW p \in Packets, arrived[p] < sent[p],
         arrived' = [arrived EXCEPT ![p] = @ + 1],
         UNCHANGED <<sent, delivered, popped, givenUp>>, QueueStays
  PROVE  Abstract!Next
<1>1. {q \in Packets : arrived'[q] > 0} = {q \in Packets : arrived[q] > 0} \cup {p}
  BY OnceMore DEF Counts
<1>2. sent[p] > 0
  BY DEF Counts
<1> QED
  BY <1>1, <1>2, ForgottenStays DEF Forgotten, Abstract!Next, Abstract!Arrive

\* The confirmation of a packet that has arrived.
LEMMA ConfirmImplements ==
  ASSUME Counts, NEW p \in Packets, arrived[p] > 0, popped' = [popped EXCEPT ![p] = @ + 1],
         UNCHANGED <<sent, arrived, delivered, givenUp>>, QueueStays
  PROVE  Abstract!Next
<1>1. {q \in Packets : popped'[q] > 0} = {q \in Packets : popped[q] > 0} \cup {p}
  BY OnceMore DEF Counts
<1> QED
  BY <1>1, ForgottenStays DEF Forgotten, Abstract!Next, Abstract!Confirm

\* A delivery of a message all of whose packets have arrived: the first, or of one that
\* may have been forgotten.
LEMMA DeliverImplements ==
  ASSUME Counts, NEW m \in Messages, delivered[m] = 0 \/ m \in Forgotten,
         \A p \in ReceiverP!FragmentsOf(m) : p \in Packets /\ arrived[p] > 0,
         delivered' = [delivered EXCEPT ![m] = @ + 1],
         UNCHANGED <<sent, arrived, popped, givenUp>>, QueueStays
  PROVE  Abstract!Next
<1>1. Receiver!FragmentsOf(m) \subseteq {p \in Packets : arrived[p] > 0}
  BY SameFragments
<1> QED
  BY <1>1, ForgottenStays DEF Forgotten, Abstract!Next, Abstract!Deliver

\* The receiver's queue only loses numbers.
LEMMA ForgetImplements ==
  ASSUME torn => torn', lapsed \subseteq lapsed', UNCHANGED PackageNo,
         UNCHANGED <<sent, arrived, delivered, popped, givenUp>>
  PROVE  Abstract!Next
<1>1. Forgotten \subseteq Forgotten' /\ Forgotten' \subseteq Messages
  BY DEF Forgotten, Receiver!Trusted
<1> QED
  BY <1>1 DEF Forgotten, Abstract!Next, Abstract!Forget

\* The sender transmits, fails a packet, counts a confirmation, or stutters.
LEMMA SenderImplements ==
  ASSUME DeliveryInv, SenderAlone
  PROVE  [Abstract!Next]_(Abstract!vars)
<1> USE DEF Sender!appVars, Sender!resendVars, Sender!popVars, Sender!NewVersion,
            Sender!NextEntry
<1>1. UNCHANGED <<arrived, delivered>> /\ QueueStays
  BY DEF SenderAlone, receiverVars, numbers, QueueStays
<1>2. Counts
  BY DeliveryCounts
<1>3. ASSUME NEW p \in Packets, Sender!SendPacket(p) PROVE Abstract!Next
  BY <1>1, <1>2, <1>3, SendImplements DEF Sender!SendPacket
<1>4. CASE Sender!TreatEntry
  <2> DEFINE p == Head(snapshot)
  <2>1. p \in Packets /\ sent[p] > 0
    <3>1. snapshot # <<>> /\ p # None
      BY <1>4 DEF Sender!TreatEntry
    <3>2. p \in SenderP!Given
      BY <3>1, SenderAssumptions, SenderP!HeadGiven DEF DeliveryInv
    <3> QED
      BY <3>2 DEF SenderP!Given, DeliveryInv, GivenIsSent
  <2>2. /\ popped' = popped
        /\ \/ givenUp' = [givenUp EXCEPT ![p] = @ + 1] /\ UNCHANGED sent
           \/ sent' = [sent EXCEPT ![p] = @ + 1] /\ UNCHANGED givenUp
           \/ UNCHANGED <<sent, givenUp>>
    BY <1>4 DEF Sender!TreatEntry
  <2> QED
    BY <1>1, <1>2, <2>1, <2>2, SendImplements, FailImplements, Stutters
<1>5. CASE Sender!PopDone
  <2>1. pop \in Packets /\ arrived[pop] > 0
    BY <1>5 DEF Sender!PopDone, DeliveryInv, ArrivalInv, PoppedConfirmed, ConfirmArrived
  <2>2. popped' = [popped EXCEPT ![pop] = @ + 1] /\ UNCHANGED <<sent, givenUp>>
    BY <1>5 DEF Sender!PopDone
  <2> QED
    BY <1>1, <1>2, <2>1, <2>2, ConfirmImplements
<1>6. ASSUME NEW p \in Packets, Sender!Pushing(p)
      PROVE  UNCHANGED <<sent, popped, givenUp>>
  BY <1>6 DEF Sender!Pushing, Sender!PushReads, Sender!PushGrows, Sender!PushStores
<1>7. ASSUME Sender!ResendThread, ~Sender!TreatEntry
      PROVE  UNCHANGED <<sent, popped, givenUp>>
  BY <1>7 DEF Sender!ResendThread, Sender!StartRound, Sender!EndRound, Sender!NullEntry,
              Sender!RepushReads, Sender!RepushGrows, Sender!RepushStores,
              Sender!DropFinds, Sender!DropRemoves, Sender!DropOutOfRange
<1>8. ASSUME Sender!Popping \/ Sender!Close, ~Sender!PopDone
      PROVE  UNCHANGED <<sent, popped, givenUp>>
  BY <1>8 DEF Sender!Popping, Sender!PopScan, Sender!PopFinds, Sender!PopRemoves,
              Sender!PopOutOfRange, Sender!Close
<1>9. ASSUME UNCHANGED <<sent, popped, givenUp>> PROVE UNCHANGED Abstract!vars
  BY <1>1, <1>9, Stutters
<1> QED
  BY <1>3, <1>4, <1>5, <1>6, <1>7, <1>8, <1>9
  DEF SenderAlone, SendPacket

\* A callback delivers a message, or its use of the queue may forget one, or it stutters.
LEMMA ReceiverImplements ==
  ASSUME DeliveryInv, ReceiverAlone
  PROVE  [Abstract!Next]_(Abstract!vars)
<1>1. PICK k \in Callbacks : Receiver!Callback(k)
  BY DEF ReceiverAlone
<1>2. UNCHANGED <<sent, popped, givenUp, PackageNo>>
  BY DEF ReceiverAlone, senderVars, numbers
<1>3. CASE Receiver!OnMessageReceived(k)
  <2> DEFINE m == msg[k]
  <2>1. /\ at[k] = "deliver" /\ arrived' = arrived /\ QueueStays
        /\ delivered' = [delivered EXCEPT ![m] = @ + 1]
    BY <1>2, <1>3 DEF Receiver!OnMessageReceived, Receiver!queueVars, QueueStays
  <2>2. m \in Messages /\ ReceiverP!Complete(m)
    BY <2>1 DEF DeliveryInv, ReceiverP!OnceInv, ReceiverP!ReceiverInv, ReceiverP!TypeOK,
                ReceiverP!Passed
  <2>3. delivered[m] = 0 \/ m \in Forgotten
    <3>1. PackageNo[m] \in ReceiverP!Numbers
      BY <2>2, ReceiverAssumptions, ReceiverP!NumberOfMessage
      DEF DeliveryInv, ReceiverP!OnceInv, ReceiverP!ReceiverInv
    <3>2. ReceiverP!Trusted(PackageNo[m]) => ReceiverP!OnceFor(PackageNo[m])
      BY <3>1 DEF DeliveryInv, ReceiverP!OnceInv
    <3>3. ReceiverP!Holds(k, PackageNo[m])
      BY <2>1 DEF ReceiverP!Holds, ReceiverP!Passed
    <3> QED
      BY <2>2, <3>2, <3>3 DEF ReceiverP!OnceFor, Forgotten, Receiver!Trusted, ReceiverP!Trusted
  <2>4. \A p \in ReceiverP!FragmentsOf(m) : p \in Packets /\ arrived[p] > 0
    BY <2>2, SameFragments, ReceiverAssumptions, ReceiverP!FragmentsOfMessage
    DEF ReceiverP!Complete
  <2> QED
    BY <1>2, <2>1, <2>2, <2>3, <2>4, DeliveryCounts, DeliverImplements
<1>4. CASE \/ Receiver!NotReceivedBefore(k) \/ Receiver!Enqueue(k)
           \/ Receiver!TestCount(k) \/ Receiver!Dequeue(k)
  <2>1. UNCHANGED <<arrived, delivered>>
    BY <1>4 DEF Receiver!NotReceivedBefore, Receiver!Enqueue, Receiver!TestCount,
                Receiver!Dequeue, Receiver!history
  <2>2. (torn => torn') /\ lapsed \subseteq lapsed'
    BY <1>4 DEF Receiver!NotReceivedBefore, Receiver!Enqueue, Receiver!TestCount,
                Receiver!Dequeue, Receiver!Becomes, Receiver!Alone, Receiver!queueVars
  <2> QED
    BY <1>2, <2>1, <2>2, ForgetImplements
<1>5. CASE \/ Receiver!SendConfirm(k) \/ Receiver!SinglePacket(k)
           \/ Receiver!FragmentOutOfRange(k) \/ Receiver!CacheFragment(k)
           \/ Receiver!HandleConfirmation(k) \/ Receiver!DropRepeated(k)
  <2>1. UNCHANGED <<arrived, delivered, torn, lapsed>>
    BY <1>5
    DEF Receiver!SendConfirm, Receiver!SinglePacket, Receiver!FragmentOutOfRange,
        Receiver!CacheFragment, Receiver!HandleConfirmation, Receiver!DropRepeated,
        Receiver!history, Receiver!queueVars
  <2> QED
    BY <1>2, <2>1, Stutters DEF QueueStays
<1> QED
  BY <1>1, <1>3, <1>4, <1>5 DEF Receiver!Callback

\* Only AsyncSendPacket takes a packet out of its first state.
LEMMA GivenStaysSent ==
  ASSUME DeliveryInv, [Next]_vars
  PROVE  GivenIsSent'
<1> USE DEF Sender!appVars, Sender!resendVars, Sender!popVars, Sender!listVars,
            Sender!NewVersion, Sender!NextEntry
<1>1. /\ sent \in [Packets -> Nat] /\ app \in [Packets -> SenderP!AppStates] /\ GivenIsSent
  BY DEF DeliveryInv, SenderP!SendInv, SenderP!TypeOK
<1>2. CASE UNCHANGED Sender!vars
  BY <1>1, <1>2 DEF Sender!vars, GivenIsSent
<1>3. ASSUME NEW p \in Packets, Sender!SendPacket(p) PROVE GivenIsSent'
  BY <1>1, <1>3 DEF Sender!SendPacket, GivenIsSent
<1>4. ASSUME NEW p \in Packets, Sender!Pushing(p) \/ Sender!SendCallback(p) PROVE GivenIsSent'
  BY <1>1, <1>4 DEF Sender!Pushing, Sender!PushReads, Sender!PushGrows, Sender!PushStores,
                    Sender!SendCallback, GivenIsSent
<1>5. CASE Sender!TreatEntry
  <2>1. UNCHANGED app /\ (UNCHANGED sent \/ sent' = [sent EXCEPT ![Head(snapshot)] = @ + 1])
    BY <1>5 DEF Sender!TreatEntry
  <2> QED
    BY <1>1, <2>1 DEF GivenIsSent
<1>6. ASSUME Sender!ResendThread, ~Sender!TreatEntry PROVE UNCHANGED <<app, sent>>
  BY <1>6 DEF Sender!ResendThread, Sender!StartRound, Sender!EndRound, Sender!NullEntry,
              Sender!RepushReads, Sender!RepushGrows, Sender!RepushStores,
              Sender!DropFinds, Sender!DropRemoves, Sender!DropOutOfRange
<1>7. ASSUME Sender!Popping \/ Sender!Close \/ \E p \in Packets : Sender!ConfirmArrives(p)
      PROVE  UNCHANGED <<app, sent>>
  BY <1>7 DEF Sender!Popping, Sender!PopScan, Sender!PopFinds, Sender!PopRemoves,
              Sender!PopOutOfRange, Sender!PopDone, Sender!Close, Sender!ConfirmArrives
<1>8. UNCHANGED <<app, sent>> => GivenIsSent'
  BY <1>1 DEF GivenIsSent
<1> QED
  BY SenderStep, <1>2, <1>3, <1>4, <1>5, <1>6, <1>7, <1>8 DEF Sender!Next

\* End to end: however often packets and confirmations are lost, repeated and
\* reordered, and on however many callbacks they are received, a message is delivered
\* after all its packets have arrived, and again only when its number is one that the
\* receiver's queue has lost; and no packet is confirmed that has not arrived.
THEOREM ImplementsDelivery == Spec => IsDelivery
<1>2. Init => DeliveryInv
  <2> SUFFICES ASSUME Init PROVE DeliveryInv
    OBVIOUS
  <2>1. ReceiverP!OnceInv
    BY SameReceiverInit, ReceiverAssumptions, ReceiverP!OnceInit DEF Init
  <2>2. GivenIsSent
    BY DEF Init, Sender!Init, GivenIsSent
  <2> QED
    BY <2>1, <2>2, SenderInvInit, ArrivalInit DEF DeliveryInv
<1>3. DeliveryInv /\ [Next]_vars => DeliveryInv'
  <2> SUFFICES ASSUME DeliveryInv, [Next]_vars PROVE DeliveryInv'
    OBVIOUS
  <2>1. ReceiverP!OnceInv'
    BY ReceiverStep, SameReceiverStep, ReceiverAssumptions, ReceiverP!OnceNext
    DEF DeliveryInv
  <2> QED
    BY <2>1, SenderInvStep, ArrivalNext, GivenStaysSent DEF DeliveryInv
<1>4. Init => Abstract!Init
  BY SameFragments DEF Init, Sender!Init, Receiver!Init, Receiver!Trusted, Abstract!Init, Packets
<1>5. DeliveryInv /\ [Next]_vars => [Abstract!Next]_(Abstract!vars)
  <2> SUFFICES ASSUME DeliveryInv, [Next]_vars PROVE [Abstract!Next]_(Abstract!vars)
    OBVIOUS
  <2>1. CASE UNCHANGED vars
    BY <2>1, Stutters DEF vars, senderVars, receiverVars, numbers, QueueStays
  <2>2. CASE SenderAlone
    BY <2>2, SenderImplements
  <2>3. CASE ReceiverAlone
    BY <2>3, ReceiverImplements
  <2>4. ASSUME NEW p \in Packets, DatagramArrives(p) PROVE Abstract!Next
    <3>1. /\ arrived[p] < sent[p] /\ arrived' = [arrived EXCEPT ![p] = @ + 1]
          /\ UNCHANGED <<sent, delivered, popped, givenUp>> /\ QueueStays
      BY <2>4 DEF DatagramArrives, Receiver!ReceiveDataAsync, Receiver!history, senderVars,
                  Receiver!queueVars, numbers, QueueStays
    <3> QED
      BY <3>1, DeliveryCounts, ArriveImplements
  <2>5. ASSUME NEW p \in Packets, ConfirmationArrives(p) PROVE UNCHANGED Abstract!vars
    BY <2>5, Stutters
    DEF ConfirmationArrives, Sender!ConfirmArrives, Sender!resendVars, receiverVars, numbers,
        QueueStays
  <2> QED
    BY <2>1, <2>2, <2>3, <2>4, <2>5 DEF Next
<1> QED
  BY <1>2, <1>3, <1>4, <1>5, PTL DEF Spec, IsDelivery, Abstract!Spec

================================================================================
