--------------------------------- MODULE Delivery ---------------------------------
(***************************************************************************)
(* What Netframe promises of messages that require confirmation: a message *)
(* is delivered when all its packets have arrived, and once, or again only *)
(* if the receiver may have forgotten that it was; a packet is             *)
(* confirmed only if it has arrived; one that is not may be reported as    *)
(* failed, which does not say that it has not arrived.                     *)
(***************************************************************************)
EXTENDS Integers

CONSTANTS
  Messages,
  Packets,
  PacketsOf(_)  \* packets of a message

VARIABLES
  sent,       \* packets that have been transmitted
  arrived,    \* packets that have been received
  delivered,  \* how often each message has been given to the application
  confirmed,  \* packets the sender knows to have been received
  failed,     \* packets reported as failed
  forgotten   \* messages the receiver may not know to have been delivered

vars == <<sent, arrived, delivered, confirmed, failed, forgotten>>

Init ==
  /\ sent = {} /\ arrived = {} /\ confirmed = {} /\ failed = {} /\ forgotten = {}
  /\ delivered = [m \in Messages |-> 0]

Send(p) == sent' = sent \cup {p} /\ UNCHANGED <<arrived, delivered, confirmed, failed, forgotten>>

Arrive(p) ==
  /\ p \in sent
  /\ arrived' = arrived \cup {p}
  /\ UNCHANGED <<sent, delivered, confirmed, failed, forgotten>>

Deliver(m) ==
  /\ PacketsOf(m) \subseteq arrived
  /\ delivered[m] = 0 \/ m \in forgotten
  /\ delivered' = [delivered EXCEPT ![m] = @ + 1]
  /\ UNCHANGED <<sent, arrived, confirmed, failed, forgotten>>

Confirm(p) ==
  /\ p \in arrived
  /\ confirmed' = confirmed \cup {p}
  /\ UNCHANGED <<sent, arrived, delivered, failed, forgotten>>

Fail(p) ==
  /\ p \in sent
  /\ failed' = failed \cup {p}
  /\ UNCHANGED <<sent, arrived, delivered, confirmed, forgotten>>

Forget ==
  /\ forgotten \subseteq forgotten' /\ forgotten' \subseteq Messages
  /\ UNCHANGED <<sent, arrived, delivered, confirmed, failed>>

Next ==
  \/ \E p \in Packets : Send(p) \/ Arrive(p) \/ Confirm(p) \/ Fail(p)
  \/ \E m \in Messages : Deliver(m)
  \/ Forget

Spec == Init /\ [][Next]_vars
================================================================================
