------------------------------- MODULE ReliableUdp -------------------------------
(***************************************************************************)
(* Two Netframe hosts: UdpSender on one, MsgReceiver on the other, and     *)
(* between them a network that loses, delays and reorders datagrams.  The  *)
(* packets of the sender are the fragments the receiver puts together, and *)
(* confirmations go the other way.                                         *)
(*                                                                         *)
(* The network needs no state of its own: a packet can arrive as often as  *)
(* it has been transmitted, a confirmation after it has been sent, and     *)
(* neither has to.  The number of a message travels in the text of its     *)
(* confirmations, where TryParseToInt reads it.                            *)
(***************************************************************************)
EXTENDS Integers, Sequences, FiniteSets

CONSTANTS
  Messages,        \* messages that require confirmation
  PackageNos,      \* the numbers the sender may choose for them
  PackageCount,    \* fragments of each
  MaxInt,          \* largest number TryParseToInt returns
  QueueSize,       \* of ReceivedQueue
  Callbacks,       \* threads that run ReceiveDataAsync
  MaxResendTimes,
  MaxConfirms,     \* bound: confirmations handled for one packet
  None             \* null

VARIABLES
  \* of the sender
  open, senderCrashed, app, appSlot, slots, size, sendTimes, resend, resendSlot, snapshot,
  pop, popLeft, popSlot, popStale, sent, sendFailed, givenUp, popped,
  raced,
  \* of the receiver
  PackageNo, Confirmed, crashed, arrived, at, pack, msg, cache, received, torn, lapsed,
  confirms, pops, delivered, dropped

Receiver == INSTANCE MsgReceiver
              WITH Confirmations <- {}, ConfirmedNos <- {<<>>}, Copies <- MaxResendTimes

Packets == Receiver!Fragments

ASSUME NumbersAssumption == PackageNos \subseteq [Messages -> Nat \ {0}]
ASSUME CountAssumption == PackageCount \in [Messages -> Nat \ {0}]
ASSUME CallbacksAssumption == IsFiniteSet(Callbacks)
ASSUME BoundsAssumption ==
  /\ MaxInt \in Nat /\ QueueSize \in Nat \ {0}
  /\ MaxResendTimes \in Nat \ {0} /\ MaxConfirms \in Nat
ASSUME NoneAssumption == None \notin Messages \cup Packets

Sender == INSTANCE UdpSender
            WITH Null <- None, crashed <- senderCrashed, confirms <- popped

senderVars == <<open, senderCrashed, app, appSlot, slots, size, sendTimes, resend, resendSlot,
                snapshot, pop, popLeft, popSlot, popStale, sent, sendFailed, givenUp, popped,
                raced>>
numbers == <<PackageNo, Confirmed>>
receiverVars == <<numbers, crashed, arrived, at, pack, msg, cache, received, torn, lapsed,
                  confirms, pops, delivered, dropped>>
vars == <<senderVars, receiverVars>>

TypeOK == Sender!TypeOK /\ Receiver!TypeOK

Init == Sender!Init /\ Receiver!Init

(***************************************************************************)
(* Steps.                                                                  *)
(***************************************************************************)

\* AsyncSendMsg sends the packets of a message one after the other.
InTurn(p) ==
  \A q \in Receiver!FragmentsOf(p.msg) : q.index < p.index => app[q] = "done"

SendPacket(p) == InTurn(p) /\ Sender!SendPacket(p)

\* (SendCallback reports to the application and changes nothing: it is left out.)
SenderAlone ==
  /\ \/ \E p \in Packets : SendPacket(p) \/ Sender!Pushing(p)
     \/ Sender!ResendThread
     \/ Sender!Popping
     \/ Sender!Close
  /\ UNCHANGED receiverVars

ReceiverAlone ==
  /\ \E k \in Callbacks : Receiver!Callback(k)
  /\ UNCHANGED <<numbers, senderVars>>

\* One of the datagrams sent for p is received.
DatagramArrives(p) ==
  /\ arrived[p] < sent[p]
  /\ \E k \in Callbacks : Receiver!ReceiveDataAsync(k, p)
  /\ UNCHANGED <<numbers, senderVars>>

\* A confirmation of p is received; one whose number does not fit is not looked at.
ConfirmationArrives(p) ==
  /\ p \in confirms
  /\ Receiver!TryParseToInt(PackageNo[p.msg]) # 0
  /\ Sender!ConfirmArrives(p)
  /\ UNCHANGED receiverVars

Next ==
  \/ SenderAlone
  \/ ReceiverAlone
  \/ \E p \in Packets : DatagramArrives(p) \/ ConfirmationArrives(p)

Spec == Init /\ [][Next]_vars

(***************************************************************************)
(* Properties.                                                             *)
(***************************************************************************)

\* When the sender has taken the confirmations of all packets of a message, the message
\* has been delivered, or is in the hands of a callback: no confirmed message is lost.
AllConfirmed(m) == \A p \in Receiver!FragmentsOf(m) : popped[p] > 0
InHand(m) == \E k \in Callbacks : msg[k] = m \/ (pack[k] # None /\ pack[k].msg = m)
ConfirmedIsDelivered ==
  \A m \in Messages : AllConfirmed(m) => delivered[m] > 0 \/ InHand(m)

\* End to end: one delivery of each message, after all its packets have arrived,
\* however often packets and confirmations are repeated and on however many threads
\* they are received; only a number that the receiver's queue has lost may come again.
Abstract == INSTANCE Delivery
              WITH PacketsOf <- Receiver!FragmentsOf,
                   sent <- {p \in Packets : sent[p] > 0},
                   arrived <- {p \in Packets : arrived[p] > 0},
                   confirmed <- {p \in Packets : popped[p] > 0},
                   failed <- {p \in Packets : givenUp[p] > 0},
                   forgotten <- {m \in Messages : ~Receiver!Trusted(PackageNo[m])}
IsDelivery == Abstract!Spec
================================================================================
