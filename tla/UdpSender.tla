------------------------------- MODULE UdpSender -------------------------------
(***************************************************************************)
(* The sending side of Netframe's UDPThread: packets that require a        *)
(* confirmation are sent, put on SendList, resent by the thread            *)
(* CheckUnConfirmedQueue in rounds CheckQueueTimeInterval apart, taken off *)
(* when the confirmation arrives and given up after MaxResendTimes.        *)
(*                                                                         *)
(* SendList is a List<T>, an array of slots and a size, shared without a   *)
(* common lock: Add takes none, nor does Remove on the resend thread; the  *)
(* copy locks the list, PopSendItemFromList another object.  Add reads the *)
(* size, writes it back one larger and only then writes the slot; Remove   *)
(* looks for the item and then removes what is at that index.  So entries  *)
(* can get lost, empty (Null) ones appear, and one be removed for another. *)
(* (The growth of the array and the inside of RemoveAt are not split.)     *)
(*                                                                         *)
(* Threads: one sender per packet, the resend thread, the receive          *)
(* callbacks of confirmations, serialised by the lock in                   *)
(* PopSendItemFromList, and the callbacks of the asynchronous sends.  The  *)
(* remote side and the network are external: a transmitted packet may be   *)
(* confirmed or not, at any later time.                                    *)
(*                                                                         *)
(* A definition named X_Bug is X with a plausible mistake in it; no action *)
(* uses it, it serves to see that a property notices the mistake.          *)
(***************************************************************************)
EXTENDS Integers, Sequences, FiniteSets

CONSTANTS
  Packets,         \* PacketNetWorkMsg objects with IsRequireReceiveCheck
  Null,            \* null
  MaxResendTimes,
  MaxConfirms      \* bound: confirmations that arrive for one packet

ASSUME PacketsAssumption == Null \notin Packets
ASSUME MaxResendTimesAssumption == MaxResendTimes \in Nat \ {0}
ASSUME MaxConfirmsAssumption == MaxConfirms \in Nat

VARIABLES
  open,        \* IsInitialized
  crashed,     \* an unhandled exception has ended the process
  app,         \* where the sender of each packet is in AsyncSendPacket
  appSlot,     \* the slot its Add will write (0 outside of Add)
  slots,       \* the array of SendList
  size,        \* SendList.Count
  sendTimes,   \* SendTimes of each packet
  resend,      \* where the resend thread is
  resendSlot,  \* the slot its Add will write, or that its Remove has found (0 outside)
  snapshot,    \* entries of the local array still to be treated
  pop,         \* packet PopSendItemFromList is called for, or Null
  popLeft,     \* -1 while SendList is enumerated, then removals left to do
  popSlot,     \* the slot its Remove has found (0 outside)
  popStale,    \* SendList has been modified under the enumeration
  sent,        \* history: transmissions of each packet
  sendFailed,  \* history: SendCallback has reported that a transmission failed
  givenUp,     \* history: how often the resend thread has reported each packet
  confirms,    \* history: confirmations handled completely
  raced        \* history: an Add or a Remove has hit another slot than it was meant for

listVars   == <<slots, size, raced>>
appVars    == <<app, appSlot>>
resendVars == <<resend, resendSlot, snapshot, sendTimes, givenUp>>
popVars    == <<pop, popLeft, popSlot, popStale, confirms>>
vars == <<open, crashed, appVars, listVars, resendVars, popVars, sent, sendFailed>>

AppStates    == {"new", "sent", "read", "grown", "done"}
ResendStates == {"sleep", "each", "push", "read", "grown", "drop", "remove", "end"}

TypeOK ==
  /\ open \in BOOLEAN /\ crashed \in BOOLEAN /\ popStale \in BOOLEAN
  /\ app \in [Packets -> AppStates]
  /\ appSlot \in [Packets -> Nat]
  /\ slots \in Seq(Packets \cup {Null})
  /\ size \in Nat /\ size <= Len(slots)
  /\ sendTimes \in [Packets -> Nat]
  /\ resend \in ResendStates
  /\ resendSlot \in Nat
  /\ snapshot \in Seq(Packets \cup {Null})
  /\ resend \notin {"sleep", "each", "end"} => snapshot # <<>> /\ Head(snapshot) # Null
  /\ pop \in Packets \cup {Null}
  /\ popLeft \in Nat \cup {-1}
  /\ popSlot \in Nat /\ (popSlot > 0 => popLeft > 0)
  /\ sent \in [Packets -> Nat]
  /\ sendFailed \in BOOLEAN
  /\ givenUp \in [Packets -> Nat]
  /\ confirms \in [Packets -> Nat]
  /\ raced \in BOOLEAN

Init ==
  /\ open = TRUE
  /\ crashed = FALSE
  /\ app = [p \in Packets |-> "new"]
  /\ appSlot = [p \in Packets |-> 0]
  /\ slots = <<>> /\ size = 0 /\ raced = FALSE
  /\ sendTimes = [p \in Packets |-> 0]
  /\ resend = "sleep"
  /\ resendSlot = 0
  /\ snapshot = <<>>
  /\ pop = Null /\ popLeft = -1 /\ popSlot = 0 /\ popStale = FALSE
  /\ sent = [p \in Packets |-> 0]
  /\ sendFailed = FALSE
  /\ givenUp = [p \in Packets |-> 0]
  /\ confirms = [p \in Packets |-> 0]

(***************************************************************************)
(* SendList.                                                               *)
(***************************************************************************)
sendList == SubSeq(slots, 1, size)
Listed(p) == \E i \in 1..size : slots[i] = p
Occurrences(p) == Cardinality({i \in 1..size : slots[i] = p})

\* The slots, at least k of them: those that are not in slots are null.
Upto(k) ==
  [i \in 1..(IF k > Len(slots) THEN k ELSE Len(slots)) |->
     IF i <= Len(slots) THEN slots[i] ELSE Null]

\* The middle of List.Add: what it has read of the size, plus one, is the size.
Grow(k) == size' = k /\ slots' = Upto(k) /\ raced' = (raced \/ k # size + 1)

\* The end of List.Add.
Store(k, p) ==
  /\ slots' = [Upto(k) EXCEPT ![k] = p]
  /\ raced' = (raced \/ k > size \/ slots[k] # Null)
  /\ UNCHANGED size

\* List.IndexOf.
First(i, p) == i \in 1..size /\ slots[i] = p /\ \A j \in 1..(i - 1) : slots[j] # p

\* List.RemoveAt: what is at the index now, which was found to be p.
RemoveAt(i, p) ==
  /\ size' = size - 1
  /\ slots' = [j \in 1..(IF Len(slots) = size THEN size - 1 ELSE Len(slots)) |->
                 CASE j < i \/ j > size -> slots[j]
                   [] j >= i /\ j < size -> slots[j + 1]
                   [] j = size -> Null]
  /\ raced' = (raced \/ ~(i \in 1..size /\ slots[i] = p))

\* A new version: an enumeration in progress will throw.
NewVersion ==
  /\ popStale' = (pop # Null /\ popLeft = -1)
  /\ UNCHANGED <<pop, popLeft, popSlot, confirms>>

(***************************************************************************)
(* AsyncSendMsg / AsyncSendPacket on the application's threads.            *)
(***************************************************************************)
SendPacket(p) ==
  /\ ~crashed
  /\ app[p] = "new"
  /\ open
  /\ sent' = [sent EXCEPT ![p] = @ + 1]
  /\ app' = [app EXCEPT ![p] = "sent"]
  /\ UNCHANGED <<open, crashed, appSlot, listVars, resendVars, popVars, sendFailed>>

\* EndSend throws: PackageSendFailure is raised, for a packet the event does not name,
\* and nothing is done about the packet.
SendCallback(p) ==
  /\ ~crashed
  /\ sent[p] > 0
  /\ sendFailed' = TRUE
  /\ UNCHANGED <<open, crashed, appVars, listVars, resendVars, popVars, sent>>

PushReads(p) ==
  /\ ~crashed
  /\ app[p] = "sent"
  /\ appSlot' = [appSlot EXCEPT ![p] = size + 1]
  /\ app' = [app EXCEPT ![p] = "read"]
  /\ UNCHANGED <<open, crashed, listVars, resendVars, popVars, sent, sendFailed>>

PushGrows(p) ==
  /\ ~crashed
  /\ app[p] = "read"
  /\ Grow(appSlot[p])
  /\ app' = [app EXCEPT ![p] = "grown"]
  /\ UNCHANGED <<open, crashed, appSlot, resendVars, popVars, sent, sendFailed>>

PushStores(p) ==
  /\ ~crashed
  /\ app[p] = "grown"
  /\ Store(appSlot[p], p) /\ NewVersion
  /\ appSlot' = [appSlot EXCEPT ![p] = 0]
  /\ app' = [app EXCEPT ![p] = "done"]
  /\ UNCHANGED <<open, crashed, resendVars, sent, sendFailed>>

(***************************************************************************)
(* The resend thread CheckUnConfirmedQueue.                                *)
(***************************************************************************)

\* The array takes the place of the list, which begins anew.
StartRound_Bug ==
  /\ ~crashed
  /\ resend = "sleep"
  /\ open
  /\ size > 0
  /\ snapshot' = sendList
  /\ slots' = <<>> /\ size' = 0
  /\ resend' = "each"
  /\ UNCHANGED <<open, crashed, appVars, raced, resendSlot, sendTimes, givenUp,
                 popVars, sent, sendFailed>>

\* A new round: the array is a copy of SendList.  When SendList is empty the
\* thread only sleeps, and when IsInitialized is false it ends.
StartRound ==
  /\ ~crashed
  /\ resend = "sleep"
  /\ open
  /\ size > 0
  /\ snapshot' = sendList
  /\ resend' = "each"
  /\ UNCHANGED <<open, crashed, appVars, listVars, resendSlot, sendTimes, givenUp,
                 popVars, sent, sendFailed>>

\* One round only, in place of the while loop.
EndRound_Bug ==
  /\ ~crashed
  /\ resend = "each"
  /\ snapshot = <<>>
  /\ resend' = "end"
  /\ UNCHANGED <<open, crashed, appVars, listVars, resendSlot, snapshot, sendTimes,
                 givenUp, popVars, sent, sendFailed>>

EndRound ==
  /\ ~crashed
  /\ resend = "each"
  /\ snapshot = <<>>
  /\ resend' = IF open THEN "sleep" ELSE "end"
  /\ UNCHANGED <<open, crashed, appVars, listVars, resendSlot, snapshot, sendTimes,
                 givenUp, popVars, sent, sendFailed>>

\* s.SendTimes++ on a null entry.
NullEntry ==
  /\ ~crashed
  /\ resend = "each"
  /\ snapshot # <<>>
  /\ Head(snapshot) = Null
  /\ crashed' = TRUE
  /\ UNCHANGED <<open, appVars, listVars, resendVars, popVars, sent, sendFailed>>

LastTry_Late(s) == sendTimes[s] + 1 > MaxResendTimes
LastTry_Early(s) == sendTimes[s] + 2 >= MaxResendTimes
LastTry(s) == sendTimes[s] + 1 >= MaxResendTimes

\* One more time: at the limit the failure event, below it AsyncSendPacket, which
\* sends nothing once the client is closed.
TreatEntry ==
  /\ ~crashed
  /\ resend = "each"
  /\ snapshot # <<>>
  /\ Head(snapshot) # Null
  /\ LET s == Head(snapshot)
     IN /\ sendTimes' = [sendTimes EXCEPT ![s] = @ + 1]
        /\ \/ /\ LastTry(s)
              /\ givenUp' = [givenUp EXCEPT ![s] = @ + 1]
              /\ resend' = "drop"
              /\ UNCHANGED <<snapshot, sent>>
           \/ /\ ~LastTry(s)
              /\ open
              /\ sent' = [sent EXCEPT ![s] = @ + 1]
              /\ resend' = "push"
              /\ UNCHANGED <<snapshot, givenUp>>
           \/ /\ ~LastTry(s)
              /\ ~open
              /\ snapshot' = Tail(snapshot)
              /\ UNCHANGED <<resend, givenUp, sent>>
  /\ UNCHANGED <<open, crashed, appVars, listVars, resendSlot, popVars, sendFailed>>

\* AsyncSendPacket pushes the packet again, although it is still on the list.
RepushReads ==
  /\ ~crashed
  /\ resend = "push"
  /\ resendSlot' = size + 1
  /\ resend' = "read"
  /\ UNCHANGED <<open, crashed, appVars, listVars, snapshot, sendTimes, givenUp,
                 popVars, sent, sendFailed>>

RepushGrows ==
  /\ ~crashed
  /\ resend = "read"
  /\ Grow(resendSlot)
  /\ resend' = "grown"
  /\ UNCHANGED <<open, crashed, appVars, resendSlot, snapshot, sendTimes, givenUp,
                 popVars, sent, sendFailed>>

\* The thread goes on with the next entry of its array.
NextEntry == snapshot' = Tail(snapshot) /\ resend' = "each" /\ resendSlot' = 0

RepushStores ==
  /\ ~crashed
  /\ resend = "grown"
  /\ Store(resendSlot, Head(snapshot)) /\ NewVersion
  /\ NextEntry
  /\ UNCHANGED <<open, crashed, appVars, sendTimes, givenUp, sent, sendFailed>>

\* SendList.Remove(s), which looks for the first occurrence.
DropFinds ==
  /\ ~crashed
  /\ resend = "drop"
  /\ \/ /\ First(resendSlot', Head(snapshot))
        /\ resend' = "remove"
        /\ UNCHANGED snapshot
     \/ /\ ~Listed(Head(snapshot))
        /\ NextEntry
  /\ UNCHANGED <<open, crashed, appVars, listVars, sendTimes, givenUp, popVars, sent, sendFailed>>

DropRemoves ==
  /\ ~crashed
  /\ resend = "remove"
  /\ resendSlot <= size
  /\ RemoveAt(resendSlot, Head(snapshot)) /\ NewVersion
  /\ NextEntry
  /\ UNCHANGED <<open, crashed, appVars, sendTimes, givenUp, sent, sendFailed>>

\* RemoveAt throws: the list has become too short for the index.
DropOutOfRange ==
  /\ ~crashed
  /\ resend = "remove"
  /\ resendSlot > size
  /\ crashed' = TRUE
  /\ UNCHANGED <<open, appVars, listVars, resendVars, popVars, sent, sendFailed>>

ResendThread ==
  \/ StartRound \/ EndRound \/ NullEntry \/ TreatEntry
  \/ RepushReads \/ RepushGrows \/ RepushStores
  \/ DropFinds \/ DropRemoves \/ DropOutOfRange

(***************************************************************************)
(* PopSendItemFromList, called for a confirmation.                         *)
(***************************************************************************)
ConfirmArrives(p) ==
  /\ ~crashed
  /\ pop = Null
  /\ confirms[p] < sent[p]
  /\ confirms[p] < MaxConfirms
  /\ pop' = p
  /\ UNCHANGED <<open, crashed, appVars, listVars, resendVars, popLeft, popSlot, popStale,
                 confirms, sent, sendFailed>>

\* Where(...).ToArray(): the enumerator throws if SendList has changed under it,
\* the predicate if it meets a null entry; nobody catches it.
PopScan ==
  /\ ~crashed
  /\ pop # Null
  /\ popLeft = -1
  /\ IF popStale \/ Listed(Null)
     THEN crashed' = TRUE /\ UNCHANGED popLeft
     ELSE popLeft' = Occurrences(pop) /\ UNCHANGED crashed
  /\ UNCHANGED <<open, appVars, listVars, resendVars, pop, popSlot, popStale, confirms,
                 sent, sendFailed>>

\* SendList.Remove(s).
PopFinds ==
  /\ ~crashed
  /\ pop # Null
  /\ popLeft > 0 /\ popSlot = 0
  /\ \/ First(popSlot', pop) /\ UNCHANGED popLeft
     \/ ~Listed(pop) /\ popLeft' = popLeft - 1 /\ UNCHANGED popSlot
  /\ UNCHANGED <<open, crashed, appVars, listVars, resendVars, pop, popStale, confirms,
                 sent, sendFailed>>

\* The index is not looked at again.
PopRemoves_Bug ==
  /\ ~crashed
  /\ pop # Null
  /\ popSlot > 0
  /\ RemoveAt(popSlot, pop)
  /\ popLeft' = popLeft - 1
  /\ popSlot' = 0
  /\ UNCHANGED <<open, crashed, appVars, resendVars, pop, popStale, confirms, sent, sendFailed>>

PopRemoves ==
  /\ ~crashed
  /\ pop # Null
  /\ popSlot > 0 /\ popSlot <= size
  /\ RemoveAt(popSlot, pop)
  /\ popLeft' = popLeft - 1
  /\ popSlot' = 0
  /\ UNCHANGED <<open, crashed, appVars, resendVars, pop, popStale, confirms, sent, sendFailed>>

PopOutOfRange ==
  /\ ~crashed
  /\ pop # Null
  /\ popSlot > size
  /\ crashed' = TRUE
  /\ UNCHANGED <<open, appVars, listVars, resendVars, popVars, sent, sendFailed>>

PopDone ==
  /\ ~crashed
  /\ pop # Null
  /\ popLeft = 0
  /\ confirms' = [confirms EXCEPT ![pop] = @ + 1]
  /\ pop' = Null
  /\ popLeft' = -1
  /\ UNCHANGED <<open, crashed, appVars, listVars, resendVars, popSlot, popStale, sent, sendFailed>>

Popping == PopScan \/ PopFinds \/ PopRemoves \/ PopOutOfRange \/ PopDone

\* Close(): IsInitialized = false.  (The sleeping resend thread ends.)
Close ==
  /\ ~crashed
  /\ open
  /\ open' = FALSE
  /\ resend' = IF resend = "sleep" THEN "end" ELSE resend
  /\ UNCHANGED <<crashed, appVars, listVars, resendSlot, snapshot, sendTimes, givenUp,
                 popVars, sent, sendFailed>>

Pushing(p) == PushReads(p) \/ PushGrows(p) \/ PushStores(p)

Next ==
  \/ \E p \in Packets : SendPacket(p) \/ SendCallback(p) \/ Pushing(p) \/ ConfirmArrives(p)
  \/ ResendThread
  \/ Popping
  \/ Close

\* Threads that run keep running: the resend thread's loop and a callback.  A
\* confirmation need never arrive, and nobody has to send or to close.
Fairness == WF_vars(ResendThread) /\ WF_vars(Popping)
            /\ \A p \in Packets : WF_vars(Pushing(p))

Spec == Init /\ [][Next]_vars
FairSpec == Spec /\ Fairness

(***************************************************************************)
(* Properties.                                                             *)
(***************************************************************************)

\* However often a packet stands on SendList, and whatever races happen, it is
\* transmitted at most MaxResendTimes times, the first time included.
TransmissionBound == \A p \in Packets : sent[p] <= MaxResendTimes

\* The resend thread gives a packet up only when all the transmissions it is entitled to
\* have been begun: no race between Add, Remove and the copy, and no failure that
\* SendCallback reports, costs it one.
GivenUpAfterAllTries ==
  \A p \in Packets :
    givenUp[p] > 0 => sendTimes[p] >= MaxResendTimes /\ (open => sent[p] = MaxResendTimes)

\* SendList drains, whether confirmations arrive or not and however often resends make
\* it grow: unless the process has died or the client is closed, it is empty again.
Drains == size > 0 ~> (crashed \/ ~open \/ size = 0)

\* "Resent until the answer is received" (UDPThread.cs:314): a packet that is neither
\* confirmed nor given up stands on SendList, where the resend thread finds it, unless
\* two threads that use the list without a common lock have met: an Add that stored by
\* an outdated size, or a Remove whose index had become another packet's.
Settled(p) == confirms[p] > 0 \/ givenUp[p] > 0
UnsettledIsListed ==
  \A p \in Packets : app[p] = "done" /\ ~Settled(p) /\ ~raced => pop = p \/ Listed(p)

\* These do not hold, and no run checks them: "the largest number of times it is sent
\* again when no confirmation is received; beyond this number it is dropped and
\* PackageSendFailture is raised" (UDPThread.cs:55), so once for a packet, after
\* MaxResendTimes repetitions (the first transmission is counted as one of them), and
\* not before (SendCallback raises it after any transmission).
FailedOnce == \A p \in Packets : givenUp[p] <= 1
AllRepeated == \A p \in Packets : open /\ givenUp[p] > 0 => sent[p] = MaxResendTimes + 1
NotReportedBefore == sendFailed => \E p \in Packets : givenUp[p] > 0
================================================================================
