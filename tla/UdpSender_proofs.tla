--------------------------- MODULE UdpSender_proofs ---------------------------
(***************************************************************************)
(* Proofs about UdpSender for every set of packets and every limit.  The   *)
(* number of entries of a packet on SendList grows and shrinks in ways     *)
(* that depend on races, so the bound on transmissions cannot be counted   *)
(* from the list: it follows from SendTimes, which only the resend thread  *)
(* increments, and from the fact that this thread never meets a packet     *)
(* that has not been sent a first time (ListsHoldGiven).                   *)
(* That a packet stays listed until it is settled needs, in addition, what *)
(* the Adds and Removes under way have read of the list (OpenInv).         *)
(***************************************************************************)
EXTENDS UdpSender, SequenceTheorems, FiniteSetTheorems, TLAPS

-----------------------------------------------------------------------------
(* The array of SendList: what the list operations keep. *)

\* A function on 1..n is a sequence of that length.
LEMMA FunctionIsSequence ==
  ASSUME NEW S, NEW n \in Nat, NEW f \in [1..n -> S]
  PROVE  f \in Seq(S) /\ Len(f) = n
  OBVIOUS

\* An array that has grown holds what it held, and empty slots.
LEMMA UptoKeeps ==
  ASSUME NEW S, slots \in Seq(S), Null \in S, NEW k \in Nat
  PROVE  /\ Upto(k) \in Seq(S)
         /\ Len(Upto(k)) \in Nat /\ Len(Upto(k)) >= k /\ Len(Upto(k)) >= Len(slots)
         /\ \A i \in 1..Len(slots) : Upto(k)[i] = slots[i]
<1> DEFINE n == IF k > Len(slots) THEN k ELSE Len(slots)
<1>1. Len(slots) \in Nat /\ \A i \in 1..Len(slots) : slots[i] \in S
  BY ElementOfSeq, LenProperties
<1>2. n \in Nat /\ n >= k /\ n >= Len(slots)
  BY <1>1
<1>3. Upto(k) \in [1..n -> S]
  BY <1>1, <1>2 DEF Upto
<1>4. \A i \in 1..Len(slots) : Upto(k)[i] = slots[i]
  BY <1>1, <1>2 DEF Upto
<1> HIDE DEF n
<1>5. Upto(k) \in Seq(S) /\ Len(Upto(k)) = n
  BY <1>2, <1>3, FunctionIsSequence
<1> QED
  BY <1>1, <1>2, <1>4, <1>5

\* The end of an Add: the entry is in the array, and only one slot has changed.
LEMMA StoreKeeps ==
  ASSUME NEW S, slots \in Seq(S), Null \in S, NEW k \in Nat \ {0}, NEW p \in S, Store(k, p)
  PROVE  /\ slots' \in Seq(S)
         /\ Len(slots') \in Nat /\ Len(slots') >= Len(slots)
         /\ slots'[k] = p
         /\ \A i \in 1..Len(slots) : i # k => slots'[i] = slots[i]
<1>1. /\ Upto(k) \in Seq(S)
      /\ Len(Upto(k)) \in Nat /\ Len(Upto(k)) >= k /\ Len(Upto(k)) >= Len(slots)
      /\ \A i \in 1..Len(slots) : Upto(k)[i] = slots[i]
  BY UptoKeeps
<1>2. k \in 1..Len(Upto(k)) /\ slots' = [Upto(k) EXCEPT ![k] = p]
  BY <1>1 DEF Store
<1>3. Upto(k) \in [1..Len(Upto(k)) -> S]
  BY <1>1, LenProperties, ElementOfSeq
<1> DEFINE n == Len(Upto(k))
<1>4. slots' \in [1..n -> S] /\ slots'[k] = p
  BY <1>2, <1>3
<1>5. slots' \in Seq(S) /\ Len(slots') = n
  BY <1>1, <1>4, FunctionIsSequence
<1>6. Len(slots) \in Nat
  BY LenProperties
<1>7. \A i \in 1..Len(slots) : i # k => slots'[i] = slots[i]
  BY <1>1, <1>2, <1>3, <1>6
<1> QED
  BY <1>1, <1>4, <1>5, <1>7

\* RemoveAt takes off one entry: what stood before it stays where it was, what stood
\* behind it moves up by one.
LEMMA RemoveKeeps ==
  ASSUME NEW S, slots \in Seq(S), Null \in S, size \in Nat, size <= Len(slots),
         NEW i \in 1..size, NEW p, RemoveAt(i, p)
  PROVE  /\ slots' \in Seq(S)
         /\ size' \in Nat /\ size' = size - 1 /\ size' <= Len(slots')
         /\ \A j \in 1..(i - 1) : slots'[j] = slots[j]
         /\ \A j \in i..(size - 1) : slots'[j] = slots[j + 1]
<1> DEFINE n == IF Len(slots) = size THEN size - 1 ELSE Len(slots)
<1>1. Len(slots) \in Nat /\ \A j \in 1..Len(slots) : slots[j] \in S
  BY ElementOfSeq, LenProperties
<1>2. /\ n \in Nat /\ n <= Len(slots) /\ size - 1 <= n /\ (n >= size => n = Len(slots))
      /\ size > 0
  BY <1>1
<1>3. /\ size' = size - 1
      /\ slots' = [j \in 1..n |-> CASE j < i \/ j > size -> slots[j]
                                   [] j >= i /\ j < size -> slots[j + 1]
                                   [] j = size -> Null]
  BY DEF RemoveAt
<1> HIDE DEF n
<1>4. ASSUME NEW j \in 1..n
      PROVE  /\ (j < i \/ j > size) => slots'[j] = slots[j]
             /\ (j >= i /\ j < size) => slots'[j] = slots[j + 1]
             /\ j = size => slots'[j] = Null
  BY <1>2, <1>3
<1>5. ASSUME NEW j \in 1..n PROVE slots'[j] \in S
  <2>1. j \in 1..Len(slots) /\ (j < size => j + 1 \in 1..Len(slots))
    BY <1>1, <1>2
  <2>2. (j < i \/ j > size) \/ (j >= i /\ j < size) \/ j = size
    OBVIOUS
  <2> QED
    BY <1>1, <1>4, <2>1, <2>2
<1>6. slots' \in [1..n -> S]
  BY <1>3, <1>5
<1>7. slots' \in Seq(S) /\ Len(slots') = n
  BY <1>2, <1>6, FunctionIsSequence
<1>8. \A j \in 1..(i - 1) : slots'[j] = slots[j]
  BY <1>2, <1>4
<1>9. \A j \in i..(size - 1) : slots'[j] = slots[j + 1]
  BY <1>2, <1>4
<1>10. size' \in Nat /\ size' <= Len(slots')
  BY <1>2, <1>3, <1>7
<1> QED
  BY <1>3, <1>7, <1>8, <1>9, <1>10

-----------------------------------------------------------------------------
(* Which packets are listed: what an operation that has not raced keeps. *)

\* A list that grows by one.
LEMMA ListedByGrow ==
  ASSUME TypeOK, NEW k \in Nat, Grow(k), ~raced', NEW q, Listed(q)
  PROVE  Listed(q)'
<1>1. slots \in Seq(Packets \cup {Null}) /\ size \in Nat /\ size <= Len(slots)
  BY DEF TypeOK
<1>2. \A i \in 1..Len(slots) : Upto(k)[i] = slots[i]
  BY <1>1, UptoKeeps
<1>3. size' = size + 1 /\ slots' = Upto(k)
  BY DEF Grow
<1>4. Len(slots) \in Nat
  BY <1>1, LenProperties
<1> QED
  BY <1>1, <1>2, <1>3, <1>4 DEF Listed

\* An entry that is stored where none was.
LEMMA ListedByStore ==
  ASSUME TypeOK, NEW k \in Nat \ {0}, NEW p \in Packets, Store(k, p), ~raced'
  PROVE  /\ Listed(p)'
         /\ \A q \in Packets : Listed(q) => Listed(q)'
<1>1. slots \in Seq(Packets \cup {Null}) /\ size \in Nat /\ size <= Len(slots)
  BY DEF TypeOK
<1>2. /\ slots'[k] = p
      /\ \A i \in 1..Len(slots) : i # k => slots'[i] = slots[i]
  BY <1>1, StoreKeeps
<1>3. k <= size /\ slots[k] = Null /\ size' = size
  <2>1. ~(k > size) /\ slots[k] = Null /\ size' = size
    BY Zenon DEF Store
  <2> QED
    BY <1>1, <2>1
<1>4. Len(slots) \in Nat
  BY <1>1, LenProperties
<1>5. Listed(p)'
  BY <1>1, <1>2, <1>3 DEF Listed
<1>6. ASSUME NEW q \in Packets, Listed(q) PROVE Listed(q)'
  BY <1>1, <1>2, <1>3, <1>4, <1>6, PacketsAssumption DEF Listed
<1> QED
  BY <1>5, <1>6

\* An entry that is taken off is the one that was meant.
LEMMA ListedByRemove ==
  ASSUME TypeOK, NEW i \in 1..size, NEW p, RemoveAt(i, p), ~raced', NEW q, q # p, Listed(q)
  PROVE  Listed(q)'
<1>1. slots \in Seq(Packets \cup {Null}) /\ size \in Nat /\ size <= Len(slots)
  BY DEF TypeOK
<1>2. /\ size' = size - 1
      /\ \A j \in 1..(i - 1) : slots'[j] = slots[j]
      /\ \A j \in i..(size - 1) : slots'[j] = slots[j + 1]
  BY <1>1, RemoveKeeps
<1>3. slots[i] = p
  BY DEF RemoveAt
<1>4. PICK j \in 1..size : slots[j] = q
  BY DEF Listed
<1>5. CASE j < i
  BY <1>1, <1>2, <1>4, <1>5 DEF Listed
<1>6. CASE j > i
  <2>1. j - 1 \in i..(size - 1) /\ j - 1 \in 1..size' /\ (j - 1) + 1 = j
    BY <1>1, <1>2, <1>6
  <2> QED
    BY <1>2, <1>4, <2>1 DEF Listed
<1>7. j # i
  BY <1>3, <1>4
<1> QED
  BY <1>1, <1>4, <1>5, <1>6, <1>7

-----------------------------------------------------------------------------
(* The inductive invariant. *)

\* Packets that have been handed to AsyncSendPacket, and what lists may hold.
Given == {p \in Packets : app[p] # "new"}
Entries == Given \cup {Null}

\* Transmissions a packet may have had after SendTimes rounds.
Budget(p) == IF sendTimes[p] < MaxResendTimes THEN sendTimes[p] + 1 ELSE MaxResendTimes

ListsHoldGiven == slots \in Seq(Entries) /\ snapshot \in Seq(Entries)

\* What is read or found is an index of the list, then at least.
SlotsAreIndices ==
  /\ \A p \in Packets : app[p] \in {"read", "grown"} => appSlot[p] > 0
  /\ resend \in {"read", "grown", "remove"} => resendSlot > 0

Accounted(p) ==
  /\ app[p] = "new" => sent[p] = 0 /\ sendTimes[p] = 0 /\ givenUp[p] = 0
  /\ app[p] # "new" => sent[p] <= Budget(p) /\ (open => sent[p] = Budget(p))
  /\ givenUp[p] > 0 => sendTimes[p] >= MaxResendTimes

SendInv == TypeOK /\ ListsHoldGiven /\ SlotsAreIndices /\ \A p \in Packets : Accounted(p)

\* The counters of one packet are numbers, and so is the bound on them.
LEMMA Counters ==
  ASSUME TypeOK, NEW p \in Packets
  PROVE  /\ sent[p] \in Nat /\ sendTimes[p] \in Nat /\ givenUp[p] \in Nat
         /\ MaxResendTimes \in Nat \ {0}
         /\ Budget(p) \in Nat /\ Budget(p) <= MaxResendTimes
<1>1. sent[p] \in Nat /\ sendTimes[p] \in Nat /\ givenUp[p] \in Nat
  BY DEF TypeOK
<1>2. MaxResendTimes \in Nat \ {0}
  BY MaxResendTimesAssumption
<1>3. CASE sendTimes[p] < MaxResendTimes
  BY <1>1, <1>2, <1>3 DEF Budget
<1>4. CASE ~(sendTimes[p] < MaxResendTimes)
  BY <1>1, <1>2, <1>4 DEF Budget
<1> QED
  BY <1>1, <1>2, <1>3, <1>4

\* The invariant holds before anything is sent.
LEMMA SendInit == Init => SendInv
<1> SUFFICES ASSUME Init PROVE SendInv
  OBVIOUS
<1>1. TypeOK
  <2>1. Len(<<>>) = 0
    OBVIOUS
  <2>2. size \in Nat /\ size <= Len(slots) /\ slots \in Seq(Packets \cup {Null})
    BY <2>1, EmptySeq DEF Init
  <2>3. snapshot \in Seq(Packets \cup {Null}) /\ resend = "sleep"
    BY EmptySeq DEF Init
  <2>4. /\ pop \in Packets \cup {Null} /\ popLeft \in Nat \cup {-1}
        /\ popSlot \in Nat /\ popStale \in BOOLEAN
    BY DEF Init
  <2>7. ~(popSlot > 0)
    <3>1. popSlot = 0
      BY DEF Init
    <3> QED
      BY <3>1
  <2>5. /\ app \in [Packets -> AppStates] /\ appSlot \in [Packets -> Nat]
        /\ sendTimes \in [Packets -> Nat] /\ sent \in [Packets -> Nat]
        /\ givenUp \in [Packets -> Nat] /\ confirms \in [Packets -> Nat]
    BY DEF Init, AppStates
  <2>6. /\ open \in BOOLEAN /\ crashed \in BOOLEAN /\ sendFailed \in BOOLEAN /\ raced \in BOOLEAN
        /\ resendSlot \in Nat
    BY DEF Init
  <2> QED
    BY <2>2, <2>3, <2>4, <2>5, <2>6, <2>7, Zenon DEF TypeOK, ResendStates
<1>2. ListsHoldGiven /\ SlotsAreIndices
  BY EmptySeq DEF Init, ListsHoldGiven, SlotsAreIndices
<1>3. \A p \in Packets : Accounted(p)
  BY DEF Init, Accounted
<1> QED
  BY <1>1, <1>2, <1>3 DEF SendInv

\* The accounts depend on five variables.
LEMMA AccountsUnchanged ==
  ASSUME SendInv, UNCHANGED <<sent, sendTimes, givenUp>>,
         open' => open,
         \A p \in Packets : (app'[p] = "new") = (app[p] = "new")
  PROVE  \A p \in Packets : Accounted(p)'
  BY DEF SendInv, Accounted, Budget

\* What has been given to AsyncSendPacket stays given, so the lists hold nothing else.
LEMMA ListsUnchanged ==
  ASSUME SendInv, slots' \in Seq(Entries), snapshot' \in Seq(Entries),
         \A p \in Packets : (app'[p] = "new") = (app[p] = "new")
  PROVE  ListsHoldGiven'
<1>1. Entries' = Entries
  BY DEF Entries, Given
<1> QED
  BY <1>1 DEF ListsHoldGiven

\* The head of the local array is a packet that has been sent before.
LEMMA HeadGiven ==
  ASSUME SendInv, snapshot # <<>>, Head(snapshot) # Null
  PROVE  /\ Head(snapshot) \in Given
         /\ Tail(snapshot) \in Seq(Entries)
         /\ Tail(snapshot) \in Seq(Packets \cup {Null})
<1>1. snapshot \in Seq(Entries) /\ snapshot \in Seq(Packets \cup {Null})
  BY DEF SendInv, ListsHoldGiven, TypeOK
<1>2. Head(snapshot) \in Entries /\ Tail(snapshot) \in Seq(Entries)
  BY <1>1, HeadTailProperties
<1>3. Tail(snapshot) \in Seq(Packets \cup {Null})
  BY <1>1, HeadTailProperties
<1> QED
  BY <1>2, <1>3 DEF Entries

\* What stands on SendList is a packet or a null entry.
LEMMA EntriesArePackets == Entries \subseteq Packets \cup {Null}
  BY DEF Entries, Given

\* A step that leaves every account alone and keeps the lists well formed.
LEMMA ListStep ==
  ASSUME SendInv, TypeOK', SlotsAreIndices', UNCHANGED <<sent, sendTimes, givenUp>>, open' => open,
         \A p \in Packets : (app'[p] = "new") = (app[p] = "new"),
         slots' \in Seq(Entries), snapshot' \in Seq(Entries)
  PROVE  SendInv'
<1>1. \A p \in Packets : Accounted(p)'
  BY AccountsUnchanged
<1>2. ListsHoldGiven'
  BY ListsUnchanged
<1> QED
  BY <1>1, <1>2 DEF SendInv

\* The middle and the end of an Add, and RemoveAt, keep the array over the given packets.
LEMMA GrowKeepsEntries ==
  ASSUME SendInv, NEW k \in Nat, Grow(k)
  PROVE  /\ slots' \in Seq(Entries) /\ slots' \in Seq(Packets \cup {Null})
         /\ size' \in Nat /\ size' <= Len(slots') /\ raced' \in BOOLEAN
<1>1. slots \in Seq(Entries) /\ Null \in Entries
  BY DEF SendInv, ListsHoldGiven, Entries
<1>2. slots' \in Seq(Entries) /\ Len(slots') >= k /\ size' = k
  BY <1>1, UptoKeeps DEF Grow
<1> QED
  BY <1>2, EntriesArePackets, SeqMonotonic DEF Grow

LEMMA StoreKeepsEntries ==
  ASSUME SendInv, NEW k \in Nat \ {0}, NEW p \in Given, Store(k, p)
  PROVE  /\ slots' \in Seq(Entries) /\ slots' \in Seq(Packets \cup {Null})
         /\ size' \in Nat /\ size' <= Len(slots') /\ raced' \in BOOLEAN
<1>1. slots \in Seq(Entries) /\ Null \in Entries /\ p \in Entries
  BY DEF SendInv, ListsHoldGiven, Entries
<1>2. slots' \in Seq(Entries) /\ Len(slots') \in Nat /\ Len(slots') >= Len(slots)
  BY <1>1, StoreKeeps
<1>3. size' = size /\ size \in Nat /\ size <= Len(slots) /\ Len(slots) \in Nat
  BY LenProperties DEF Store, SendInv, TypeOK
<1>4. size' <= Len(slots')
  BY <1>2, <1>3
<1> QED
  BY <1>2, <1>3, <1>4, EntriesArePackets, SeqMonotonic DEF Store, SendInv, TypeOK

LEMMA RemoveKeepsEntries ==
  ASSUME SendInv, NEW i \in 1..size, NEW p, RemoveAt(i, p)
  PROVE  /\ slots' \in Seq(Entries) /\ slots' \in Seq(Packets \cup {Null})
         /\ size' \in Nat /\ size' <= Len(slots') /\ raced' \in BOOLEAN
<1>1. slots \in Seq(Entries) /\ Null \in Entries /\ size \in Nat /\ size <= Len(slots)
  BY DEF SendInv, ListsHoldGiven, Entries, TypeOK
<1>2. slots' \in Seq(Entries) /\ size' \in Nat /\ size' <= Len(slots')
  BY <1>1, RemoveKeeps
<1> QED
  BY <1>2, EntriesArePackets, SeqMonotonic DEF RemoveAt, SendInv, TypeOK

\* AsyncSendPacket transmits the packet for the first time.
LEMMA SendPacketStep ==
  ASSUME SendInv, NEW p \in Packets, SendPacket(p)
  PROVE  SendInv'
<1> USE DEF SendInv, SendPacket
<1>1. TypeOK'
  BY SMTT(30) DEF TypeOK, AppStates, listVars, resendVars, popVars
<1>2. Entries \subseteq Entries'
  BY DEF Entries, Given, TypeOK
<1>3. ListsHoldGiven'
  BY <1>2, SeqMonotonic DEF ListsHoldGiven, listVars, resendVars
<1>4. ASSUME NEW q \in Packets PROVE Accounted(q)'
  <2>1. /\ sent' = [sent EXCEPT ![p] = @ + 1] /\ app' = [app EXCEPT ![p] = "sent"]
        /\ app[p] = "new" /\ UNCHANGED <<open, sendTimes, givenUp>>
    BY DEF resendVars
  <2>2. /\ sent \in [Packets -> Nat] /\ app \in [Packets -> AppStates]
        /\ sendTimes \in [Packets -> Nat] /\ givenUp \in [Packets -> Nat]
    BY DEF TypeOK
  <2>3. Accounted(p) /\ Accounted(q) /\ MaxResendTimes \in Nat \ {0}
    BY MaxResendTimesAssumption
  <2> HIDE DEF SendInv, SendPacket
  <2>4. CASE q = p
    BY <2>1, <2>2, <2>3, <2>4 DEF Accounted, Budget
  <2>5. CASE q # p
    BY <2>1, <2>2, <2>3, <2>5 DEF Accounted, Budget
  <2> QED
    BY <2>4, <2>5
<1>5. SlotsAreIndices'
  BY DEF SlotsAreIndices, TypeOK, resendVars
<1> QED
  BY <1>1, <1>3, <1>4, <1>5

\* A failure that SendCallback reports changes nothing else.
LEMMA CallbackStep ==
  ASSUME SendInv, NEW p \in Packets, SendCallback(p)
  PROVE  SendInv'
<1> USE DEF SendCallback, appVars, listVars, resendVars, popVars
<1>1. TypeOK' /\ SlotsAreIndices'
  BY DEF SendInv, TypeOK, SlotsAreIndices
<1>2. slots' \in Seq(Entries) /\ snapshot' \in Seq(Entries)
  BY DEF SendInv, ListsHoldGiven
<1> QED
  BY <1>1, <1>2, ListStep

\* PushSendItemToList, in its three parts, on a thread of the application.
LEMMA PushStep ==
  ASSUME SendInv, NEW p \in Packets, Pushing(p)
  PROVE  SendInv'
<1> USE DEF SendInv
<1>1. \A q \in Packets : (app'[q] = "new") = (app[q] = "new")
  BY DEF Pushing, PushReads, PushGrows, PushStores, TypeOK
<1>2. UNCHANGED <<sent, sendTimes, givenUp, snapshot>> /\ (open' => open)
  BY DEF Pushing, PushReads, PushGrows, PushStores, resendVars
<1>3. snapshot' \in Seq(Entries)
  BY <1>2 DEF ListsHoldGiven
<1>4. CASE PushReads(p)
  <2>0. size + 1 \in Nat /\ size + 1 > 0
    BY DEF TypeOK
  <2>3. TypeOK'
    BY <1>4, <2>0 DEF PushReads, TypeOK, AppStates, listVars, resendVars, popVars
  <2>4. SlotsAreIndices'
    BY <1>4, <2>0 DEF PushReads, TypeOK, SlotsAreIndices, resendVars
  <2>1. TypeOK' /\ SlotsAreIndices'
    BY <2>3, <2>4
  <2>2. slots' \in Seq(Entries)
    BY <1>4 DEF PushReads, listVars, ListsHoldGiven
  <2> QED
    BY <1>1, <1>2, <1>3, <2>1, <2>2, ListStep
<1>5. CASE PushGrows(p)
  <2>1. appSlot[p] \in Nat
    BY DEF TypeOK
  <2>2. /\ slots' \in Seq(Entries) /\ slots' \in Seq(Packets \cup {Null})
        /\ size' \in Nat /\ size' <= Len(slots') /\ raced' \in BOOLEAN
    BY <1>5, <2>1, GrowKeepsEntries DEF PushGrows
  <2>3. TypeOK' /\ SlotsAreIndices'
    BY <1>5, <2>2 DEF PushGrows, TypeOK, SlotsAreIndices, AppStates, resendVars, popVars
  <2> QED
    BY <1>1, <1>2, <1>3, <2>2, <2>3, ListStep
<1>6. CASE PushStores(p)
  <2>1. p \in Given /\ appSlot[p] \in Nat \ {0}
    BY <1>6 DEF PushStores, Given, TypeOK, SlotsAreIndices
  <2>2. /\ slots' \in Seq(Entries) /\ slots' \in Seq(Packets \cup {Null})
        /\ size' \in Nat /\ size' <= Len(slots') /\ raced' \in BOOLEAN
    BY <1>6, <2>1, StoreKeepsEntries DEF PushStores
  <2>3. TypeOK' /\ SlotsAreIndices'
    BY <1>6, <2>2 DEF PushStores, NewVersion, TypeOK, SlotsAreIndices, AppStates, resendVars
  <2> QED
    BY <1>1, <1>2, <1>3, <2>2, <2>3, ListStep
<1> QED
  BY <1>4, <1>5, <1>6 DEF Pushing

-----------------------------------------------------------------------------
(* The resend thread. *)

\* The copy holds what the list holds.
LEMMA CopyKeeps ==
  ASSUME NEW S, slots \in Seq(S), size \in Nat, size <= Len(slots)
  PROVE  sendList \in Seq(S)
<1>1. \A i \in 1..size : slots[i] \in S
  BY ElementOfSeq, LenProperties
<1> QED
  BY <1>1, SubSeqProperties DEF sendList

\* A round begins, ends, or meets a null entry.
LEMMA RoundStep ==
  ASSUME SendInv, StartRound \/ EndRound \/ NullEntry
  PROVE  SendInv'
<1> USE DEF StartRound, EndRound, NullEntry, listVars, appVars, resendVars, popVars
<1>1. sendList \in Seq(Entries) /\ sendList \in Seq(Packets \cup {Null})
  BY CopyKeeps DEF SendInv, ListsHoldGiven, TypeOK
<1>2. slots' \in Seq(Entries) /\ snapshot' \in Seq(Entries)
  BY <1>1 DEF SendInv, ListsHoldGiven
<1>3. TypeOK' /\ SlotsAreIndices'
  BY <1>1 DEF SendInv, TypeOK, SlotsAreIndices, ResendStates
<1> QED
  BY <1>2, <1>3, ListStep

\* SendTimes is incremented: the packet is reported, resent, or left because the
\* client has been closed.
LEMMA TreatStep ==
  ASSUME SendInv, TreatEntry
  PROVE  SendInv'
<1>1. /\ Head(snapshot) \in Given
      /\ Tail(snapshot) \in Seq(Entries) /\ Tail(snapshot) \in Seq(Packets \cup {Null})
  BY HeadGiven DEF TreatEntry
<1>2. PICK s \in Packets : s = Head(snapshot) /\ app[s] # "new"
  BY <1>1 DEF Given
<1>3. /\ sendTimes' = [sendTimes EXCEPT ![s] = @ + 1]
      /\ UNCHANGED <<open, crashed, app, appSlot, slots, size, raced, resendSlot, pop, popLeft,
                     popSlot, popStale, confirms, sendFailed>>
  BY <1>2 DEF TreatEntry, appVars, listVars, popVars
<1>4. ListsHoldGiven'
  <2>1. slots' \in Seq(Entries)
    BY <1>3 DEF SendInv, ListsHoldGiven
  <2>2. snapshot' \in Seq(Entries)
    BY <1>1 DEF TreatEntry, SendInv, ListsHoldGiven
  <2> QED
    BY <1>3, <2>1, <2>2, ListsUnchanged
<1>5. sent[s] \in Nat /\ sendTimes[s] \in Nat /\ givenUp[s] \in Nat /\ MaxResendTimes \in Nat \ {0}
  BY <1>2, Counters DEF SendInv
<1>6. sendTimes'[s] = sendTimes[s] + 1 /\ sendTimes' \in [Packets -> Nat]
  BY <1>2, <1>3, <1>5, SMTT(30) DEF SendInv, TypeOK
<1>7. \/ /\ sendTimes[s] + 1 >= MaxResendTimes
         /\ givenUp' = [givenUp EXCEPT ![s] = @ + 1]
         /\ resend' = "drop"
         /\ UNCHANGED <<snapshot, sent>>
      \/ /\ sendTimes[s] + 1 < MaxResendTimes
         /\ sent' = [sent EXCEPT ![s] = @ + 1]
         /\ resend' = "push"
         /\ UNCHANGED <<snapshot, givenUp>>
      \/ /\ sendTimes[s] + 1 < MaxResendTimes
         /\ ~open
         /\ snapshot' = Tail(snapshot)
         /\ UNCHANGED <<resend, givenUp, sent>>
  <2>1. /\ LastTry(s) <=> sendTimes[s] + 1 >= MaxResendTimes
        /\ ~LastTry(s) <=> sendTimes[s] + 1 < MaxResendTimes
    BY <1>5 DEF LastTry
  <2>2. \/ /\ LastTry(s)
           /\ givenUp' = [givenUp EXCEPT ![s] = @ + 1]
           /\ resend' = "drop"
           /\ UNCHANGED <<snapshot, sent>>
        \/ /\ ~LastTry(s)
           /\ sent' = [sent EXCEPT ![s] = @ + 1]
           /\ resend' = "push"
           /\ UNCHANGED <<snapshot, givenUp>>
        \/ /\ ~LastTry(s)
           /\ ~open
           /\ snapshot' = Tail(snapshot)
           /\ UNCHANGED <<resend, givenUp, sent>>
    BY <1>2 DEF TreatEntry
  <2> QED
    BY <2>1, <2>2
<1>8. TypeOK'
  <2>1. snapshot' \in Seq(Packets \cup {Null})
    BY <1>1, <1>2, <1>7 DEF SendInv, TypeOK
  <2>2. sent' \in [Packets -> Nat] /\ givenUp' \in [Packets -> Nat]
    <3>1. sent \in [Packets -> Nat] /\ givenUp \in [Packets -> Nat]
      BY DEF SendInv, TypeOK
    <3>2. /\ [sent EXCEPT ![s] = @ + 1] \in [Packets -> Nat]
          /\ [givenUp EXCEPT ![s] = @ + 1] \in [Packets -> Nat]
      BY <1>2, <3>1
    <3> QED
      BY <1>7, <3>1, <3>2, Zenon
  <2>3. resend' \in ResendStates
    BY <1>7 DEF TreatEntry, ResendStates
  <2>4. resend' \notin {"sleep", "each", "end"} => snapshot' # <<>> /\ Head(snapshot') # Null
    BY <1>7 DEF TreatEntry
  <2> QED
    BY <1>3, <1>6, <2>1, <2>2, <2>3, <2>4 DEF SendInv, TypeOK
<1>9. ASSUME NEW q \in Packets, q # s PROVE Accounted(q)'
  BY <1>2, <1>3, <1>7, <1>9 DEF SendInv, TypeOK, Accounted, Budget
<1>10. Accounted(s)'
  <2>1. /\ sent[s] <= Budget(s) /\ (open => sent[s] = Budget(s))
        /\ givenUp[s] > 0 => sendTimes[s] >= MaxResendTimes
    BY <1>2 DEF SendInv, Accounted
  <2>2. app'[s] # "new" /\ open' = open
    BY <1>2, <1>3
  <2>3. CASE sendTimes[s] + 1 >= MaxResendTimes
    <3>1. Budget(s) = MaxResendTimes /\ Budget(s)' = MaxResendTimes
      BY <1>5, <1>6, <2>3 DEF Budget
    <3>2. sent'[s] = sent[s]
      BY <1>5, <1>7, <2>3
    <3> QED
      BY <1>5, <1>6, <2>1, <2>2, <2>3, <3>1, <3>2 DEF Accounted
  <2>4. CASE sendTimes[s] + 1 < MaxResendTimes
    <3>1. Budget(s) = sendTimes[s] + 1 /\ Budget(s)' = sendTimes[s] + 2
      BY <1>5, <1>6, <2>4 DEF Budget
    <3>2. \/ sent'[s] = sent[s] + 1 /\ givenUp'[s] = givenUp[s]
          \/ sent'[s] = sent[s] /\ givenUp'[s] = givenUp[s] /\ ~open
      BY <1>2, <1>5, <1>7, <2>4, SMTT(30) DEF SendInv, TypeOK
    <3> QED
      BY <1>5, <1>6, <2>1, <2>2, <2>4, <3>1, <3>2 DEF Accounted
  <2> QED
    BY <1>5, <2>3, <2>4
<1>11. SlotsAreIndices'
  <2>1. resend' \in {"each", "push", "drop"}
    BY <1>7 DEF TreatEntry
  <2> QED
    BY <1>3, <2>1 DEF SendInv, SlotsAreIndices
<1> QED
  BY <1>4, <1>8, <1>9, <1>10, <1>11 DEF SendInv

\* The resend thread puts back what it has sent again.
LEMMA RepushStep ==
  ASSUME SendInv, RepushReads \/ RepushGrows \/ RepushStores
  PROVE  SendInv'
<1>1. snapshot # <<>> /\ Head(snapshot) # Null /\ resendSlot \in Nat
  BY DEF SendInv, TypeOK, RepushReads, RepushGrows, RepushStores
<1>2. /\ Head(snapshot) \in Given
      /\ Tail(snapshot) \in Seq(Entries) /\ Tail(snapshot) \in Seq(Packets \cup {Null})
  BY <1>1, HeadGiven
<1>3. UNCHANGED <<sent, sendTimes, givenUp, app>> /\ (open' => open)
  BY DEF RepushReads, RepushGrows, RepushStores, appVars
<1>4. CASE RepushReads
  <2>1. TypeOK' /\ SlotsAreIndices'
    BY <1>4 DEF RepushReads, SendInv, TypeOK, SlotsAreIndices, ResendStates, appVars, listVars,
                popVars
  <2>2. slots' \in Seq(Entries) /\ snapshot' \in Seq(Entries)
    BY <1>4 DEF RepushReads, SendInv, ListsHoldGiven, listVars
  <2> QED
    BY <1>3, <2>1, <2>2, ListStep
<1>5. CASE RepushGrows
  <2>1. /\ slots' \in Seq(Entries) /\ slots' \in Seq(Packets \cup {Null})
        /\ size' \in Nat /\ size' <= Len(slots') /\ raced' \in BOOLEAN
    BY <1>1, <1>5, GrowKeepsEntries DEF RepushGrows
  <2>2. TypeOK' /\ SlotsAreIndices'
    BY <1>5, <2>1 DEF RepushGrows, SendInv, TypeOK, SlotsAreIndices, ResendStates, appVars, popVars
  <2>3. snapshot' \in Seq(Entries)
    BY <1>5 DEF RepushGrows, SendInv, ListsHoldGiven
  <2> QED
    BY <1>3, <2>1, <2>2, <2>3, ListStep
<1>6. CASE RepushStores
  <2>1. resendSlot \in Nat \ {0}
    BY <1>1, <1>6 DEF RepushStores, SendInv, SlotsAreIndices
  <2>2. /\ slots' \in Seq(Entries) /\ slots' \in Seq(Packets \cup {Null})
        /\ size' \in Nat /\ size' <= Len(slots') /\ raced' \in BOOLEAN
    BY <1>2, <1>6, <2>1, StoreKeepsEntries DEF RepushStores
  <2>3. TypeOK' /\ SlotsAreIndices'
    BY <1>2, <1>6, <2>2
    DEF RepushStores, NextEntry, NewVersion, SendInv, TypeOK, SlotsAreIndices, ResendStates, appVars
  <2>4. snapshot' \in Seq(Entries)
    BY <1>2, <1>6 DEF RepushStores, NextEntry
  <2> QED
    BY <1>3, <2>2, <2>3, <2>4, ListStep
<1> QED
  BY <1>4, <1>5, <1>6

\* SendList.Remove at the limit.
LEMMA DropStep ==
  ASSUME SendInv, DropFinds \/ DropRemoves \/ DropOutOfRange
  PROVE  SendInv'
<1>1. snapshot # <<>> /\ Head(snapshot) # Null
  BY DEF SendInv, TypeOK, DropFinds, DropRemoves, DropOutOfRange
<1>2. Tail(snapshot) \in Seq(Entries) /\ Tail(snapshot) \in Seq(Packets \cup {Null})
  BY <1>1, HeadGiven
<1>3. UNCHANGED <<sent, sendTimes, givenUp, app>> /\ (open' => open)
  BY DEF DropFinds, DropRemoves, DropOutOfRange, appVars, resendVars
<1>4. snapshot' \in Seq(Entries)
  BY <1>2 DEF DropFinds, DropRemoves, DropOutOfRange, NextEntry, SendInv, ListsHoldGiven, resendVars
<1>5. CASE DropFinds
  <2>1. resendSlot' \in Nat /\ (resend' = "remove" => resendSlot' > 0)
        /\ ((resend' = "remove" /\ UNCHANGED snapshot) \/ NextEntry)
    BY <1>5 DEF DropFinds, First, NextEntry, SendInv, TypeOK
  <2>2. TypeOK' /\ SlotsAreIndices'
    BY <1>1, <1>2, <1>5, <2>1
    DEF DropFinds, NextEntry, SendInv, TypeOK, SlotsAreIndices, ResendStates, appVars, listVars, popVars
  <2>3. slots' \in Seq(Entries)
    BY <1>5 DEF DropFinds, SendInv, ListsHoldGiven, listVars
  <2> QED
    BY <1>3, <1>4, <2>2, <2>3, ListStep
<1>6. CASE DropRemoves
  <2>1. resendSlot \in 1..size
    BY <1>6 DEF DropRemoves, SendInv, SlotsAreIndices, TypeOK
  <2>2. /\ slots' \in Seq(Entries) /\ slots' \in Seq(Packets \cup {Null})
        /\ size' \in Nat /\ size' <= Len(slots') /\ raced' \in BOOLEAN
    BY <1>6, <2>1, RemoveKeepsEntries DEF DropRemoves
  <2>3. TypeOK' /\ SlotsAreIndices'
    BY <1>2, <1>6, <2>2
    DEF DropRemoves, NextEntry, NewVersion, SendInv, TypeOK, SlotsAreIndices, ResendStates, appVars
  <2> QED
    BY <1>3, <1>4, <2>2, <2>3, ListStep
<1>7. CASE DropOutOfRange
  <2>1. TypeOK' /\ SlotsAreIndices'
    BY <1>7 DEF DropOutOfRange, SendInv, TypeOK, SlotsAreIndices, appVars, listVars, resendVars, popVars
  <2>2. slots' \in Seq(Entries)
    BY <1>7 DEF DropOutOfRange, SendInv, ListsHoldGiven, listVars
  <2> QED
    BY <1>3, <1>4, <2>1, <2>2, ListStep
<1> QED
  BY <1>5, <1>6, <1>7

-----------------------------------------------------------------------------
(* Confirmations and Close. *)

\* The array of PopSendItemFromList has a length.
LEMMA OccurrencesType == ASSUME SendInv, NEW p PROVE Occurrences(p) \in Nat
<1>1. IsFiniteSet(1..size)
  BY FS_Interval DEF SendInv, TypeOK
<1>2. IsFiniteSet({i \in 1..size : slots[i] = p})
  BY <1>1, FS_Subset
<1> QED
  BY <1>2, FS_CardinalityType DEF Occurrences

\* A confirmation and the removals it causes.
LEMMA PopStep ==
  ASSUME SendInv, Popping \/ \E p \in Packets : ConfirmArrives(p)
  PROVE  SendInv'
<1> USE DEF Popping, PopScan, PopFinds, PopOutOfRange, PopDone, ConfirmArrives, appVars,
            listVars, resendVars, popVars
<1>1. /\ UNCHANGED <<sent, sendTimes, givenUp, app, appSlot, resend, resendSlot, snapshot, open,
                     sendFailed>>
      /\ PopRemoves \/ UNCHANGED <<slots, size, raced>>
  BY DEF PopRemoves
<1>2. /\ slots' \in Seq(Entries) /\ slots' \in Seq(Packets \cup {Null})
      /\ size' \in Nat /\ size' <= Len(slots') /\ raced' \in BOOLEAN
  <2>1. CASE PopRemoves
    <3>1. popSlot \in 1..size /\ RemoveAt(popSlot, pop)
      BY <2>1 DEF PopRemoves, SendInv, TypeOK
    <3> QED
      BY <3>1, RemoveKeepsEntries
  <2>2. CASE UNCHANGED <<slots, size, raced>>
    BY <2>2 DEF SendInv, ListsHoldGiven, TypeOK
  <2> QED
    BY <1>1, <2>1, <2>2
<1>3. /\ crashed' \in BOOLEAN /\ popStale' \in BOOLEAN
      /\ pop' \in Packets \cup {Null}
      /\ popLeft' \in Nat \cup {-1} /\ popSlot' \in Nat /\ (popSlot' > 0 => popLeft' > 0)
      /\ confirms' \in [Packets -> Nat]
  <2>1. /\ pop \in Packets \cup {Null} /\ popLeft \in Nat \cup {-1} /\ popSlot \in Nat
        /\ confirms \in [Packets -> Nat] /\ crashed \in BOOLEAN /\ popStale \in BOOLEAN
        /\ popSlot > 0 => popLeft > 0
    BY DEF SendInv, TypeOK
  <2>2. CASE PopScan
    <3>1. ~(popSlot > 0)
      BY <2>1, <2>2
    <3>2. /\ UNCHANGED <<pop, popSlot, popStale, confirms>>
          /\ \/ crashed' = TRUE /\ UNCHANGED popLeft
             \/ popLeft' = Occurrences(pop) /\ UNCHANGED crashed
      BY <2>2
    <3>3. Occurrences(pop) \in Nat
      BY OccurrencesType
    <3> QED
      BY <2>1, <3>1, <3>2, <3>3
  <2>3. CASE PopFinds
    BY <2>1, <2>3 DEF First
  <2>4. CASE PopRemoves
    BY <2>1, <2>4 DEF PopRemoves
  <2>5. CASE PopDone
    BY <2>1, <2>5
  <2>6. CASE PopOutOfRange \/ \E p \in Packets : ConfirmArrives(p)
    BY <2>1, <2>6
  <2> QED
    BY <2>2, <2>3, <2>4, <2>5, <2>6
<1> USE DEF SendInv
<1>6. TypeOK'
  BY <1>1, <1>2, <1>3 DEF TypeOK
<1>4. TypeOK' /\ SlotsAreIndices'
  BY <1>1, <1>6 DEF SlotsAreIndices
<1>5. snapshot' \in Seq(Entries)
  BY <1>1 DEF SendInv, ListsHoldGiven
<1> QED
  BY <1>1, <1>2, <1>4, <1>5, ListStep

\* Close ends the rounds and changes no counter.
LEMMA CloseStep == ASSUME SendInv, Close PROVE SendInv'
<1> USE DEF Close, appVars, listVars, popVars
<1>1. TypeOK' /\ SlotsAreIndices'
  BY DEF SendInv, TypeOK, SlotsAreIndices, ResendStates
<1>2. slots' \in Seq(Entries) /\ snapshot' \in Seq(Entries)
  BY DEF SendInv, ListsHoldGiven
<1> QED
  BY <1>1, <1>2, ListStep

-----------------------------------------------------------------------------
(* The theorems. *)

\* Every step preserves the invariant.
LEMMA SendNext == ASSUME SendInv, [Next]_vars PROVE SendInv'
<1>1. CASE UNCHANGED vars
  <2> USE DEF vars, appVars, listVars, resendVars, popVars
  <2>1. TypeOK' /\ SlotsAreIndices'
    BY <1>1 DEF SendInv, TypeOK, SlotsAreIndices
  <2>2. slots' \in Seq(Entries) /\ snapshot' \in Seq(Entries)
    BY <1>1 DEF SendInv, ListsHoldGiven
  <2> QED
    BY <1>1, <2>1, <2>2, ListStep
<1>2. CASE \E p \in Packets : SendPacket(p) \/ SendCallback(p) \/ Pushing(p)
  BY <1>2, SendPacketStep, CallbackStep, PushStep
<1>3. CASE ResendThread
  BY <1>3, RoundStep, TreatStep, RepushStep, DropStep DEF ResendThread
<1>4. CASE Popping \/ \E p \in Packets : ConfirmArrives(p)
  BY <1>4, PopStep
<1>5. CASE Close
  BY <1>5, CloseStep
<1> QED
  BY <1>1, <1>2, <1>3, <1>4, <1>5 DEF Next

\* So it holds in every state of every behaviour.
LEMMA SendInvariance == Spec => []SendInv
  BY SendInit, SendNext, PTL DEF Spec

\* UDPThread's lists, counters and threads stay well typed whatever races happen
\* between Add, Remove and the enumeration.
THEOREM SenderTypeOK == Spec => []TypeOK
<1>1. SendInv => TypeOK
  BY DEF SendInv
<1> QED
  BY <1>1, SendInvariance, PTL

\* AsyncSendPacket puts no packet on the wire more than MaxResendTimes times, however
\* many entries of it the races have left on SendList.
LEMMA SentWithinBound == SendInv => TransmissionBound
<1>1. ASSUME SendInv, NEW p \in Packets PROVE sent[p] <= MaxResendTimes
  <2>1. Accounted(p) /\ TypeOK
    BY <1>1 DEF SendInv
  <2>2. sent[p] \in Nat /\ Budget(p) \in Nat /\ Budget(p) <= MaxResendTimes
        /\ MaxResendTimes \in Nat
    BY <2>1, Counters
  <2>3. sent[p] = 0 \/ sent[p] <= Budget(p)
    BY <2>1 DEF Accounted
  <2> QED
    BY <2>2, <2>3
<1> QED
  BY <1>1 DEF TransmissionBound

\* The number of transmissions of a packet is bounded, in every reachable state.
THEOREM BoundedTransmission == Spec => []TransmissionBound
  BY SentWithinBound, SendInvariance, PTL

\* CheckUnConfirmedQueue gives up only a packet it has tried as often as it ever will.
LEMMA GivenUpTriedAll == SendInv => GivenUpAfterAllTries
<1>1. ASSUME SendInv, NEW p \in Packets, givenUp[p] > 0
      PROVE  sendTimes[p] >= MaxResendTimes /\ (open => sent[p] = MaxResendTimes)
  <2>1. Accounted(p) /\ TypeOK
    BY <1>1 DEF SendInv
  <2>2. sendTimes[p] \in Nat /\ givenUp[p] \in Nat /\ MaxResendTimes \in Nat
    BY <2>1, Counters
  <2>3. sendTimes[p] >= MaxResendTimes /\ app[p] # "new"
    BY <1>1, <2>1, <2>2 DEF Accounted
  <2>4. Budget(p) = MaxResendTimes
    BY <2>2, <2>3 DEF Budget
  <2> QED
    BY <2>1, <2>3, <2>4 DEF Accounted
<1> QED
  BY <1>1 DEF GivenUpAfterAllTries

\* A packet that is given up by the resend thread has had all its transmissions begun,
\* whether or not SendCallback has reported that some of them failed.
THEOREM GivingUpMeansAllTries == Spec => []GivenUpAfterAllTries
  BY GivenUpTriedAll, SendInvariance, PTL

-----------------------------------------------------------------------------
(* Unsettled packets stay listed. *)

\* Remove is reached on the resend thread only with a packet that has been given up.
DropReported == resend \in {"drop", "remove"} => givenUp[Head(snapshot)] > 0
OpenInv == SendInv /\ DropReported /\ UnsettledIsListed

\* What a step has to keep: who is settled, and who is listed or being taken off.
LEMMA StillListed ==
  ASSUME UnsettledIsListed, raced => raced',
         \A q \in Packets : Settled(q) => Settled(q)',
         \A q \in Packets : app'[q] = "done" /\ ~raced' => app[q] = "done" \/ Listed(q)',
         \A q \in Packets : pop = q => pop' = q \/ Settled(q)',
         \A q \in Packets : ~raced' /\ Listed(q) => Listed(q)' \/ Settled(q)' \/ pop' = q
  PROVE  UnsettledIsListed'
  BY DEF UnsettledIsListed

\* A step that leaves the list and the callback's packet alone, and raises no account.
LEMMA ListUntouched ==
  ASSUME OpenInv, UNCHANGED <<slots, size, raced, pop, confirms>>,
         \A q \in Packets : givenUp[q] > 0 => givenUp'[q] > 0,
         \A q \in Packets : app'[q] = "done" => app[q] = "done"
  PROVE  UnsettledIsListed'
<1>1. \A q : Listed(q)' = Listed(q)
  BY DEF Listed
<1>2. \A q \in Packets : Settled(q) => Settled(q)'
  BY DEF Settled
<1> QED
  BY <1>1, <1>2, StillListed DEF OpenInv

\* The application's threads.
LEMMA OpenAppStep ==
  ASSUME OpenInv, NEW p \in Packets, SendPacket(p) \/ SendCallback(p) \/ Pushing(p)
  PROVE  DropReported' /\ UnsettledIsListed'
<1>1. UNCHANGED <<resend, snapshot, givenUp, pop, confirms>>
  BY DEF SendPacket, SendCallback, Pushing, PushReads, PushGrows, PushStores, NewVersion,
         appVars, listVars, resendVars, popVars
<1>2. DropReported'
  BY <1>1 DEF OpenInv, DropReported
<1>3. app \in [Packets -> AppStates] /\ TypeOK
  BY DEF OpenInv, SendInv, TypeOK
<1>4. \A q \in Packets : Settled(q)' = Settled(q)
  BY <1>1 DEF Settled
<1>5. CASE SendPacket(p) \/ SendCallback(p) \/ PushReads(p)
  <2>1. UNCHANGED <<slots, size, raced>> /\ \A q \in Packets : app'[q] = "done" => app[q] = "done"
    BY <1>3, <1>5 DEF SendPacket, SendCallback, PushReads, appVars, listVars
  <2> QED
    BY <1>1, <1>2, <2>1, ListUntouched
<1>6. CASE PushGrows(p)
  <2>1. appSlot[p] \in Nat /\ Grow(appSlot[p]) /\ (raced => raced')
    BY <1>3, <1>6 DEF PushGrows, Grow, TypeOK
  <2>2. \A q \in Packets : app'[q] = "done" => app[q] = "done"
    BY <1>3, <1>6 DEF PushGrows
  <2>3. \A q \in Packets : ~raced' /\ Listed(q) => Listed(q)'
    BY <1>3, <2>1, ListedByGrow
  <2> QED
    BY <1>1, <1>2, <1>4, <2>1, <2>2, <2>3, StillListed DEF OpenInv
<1>7. CASE PushStores(p)
  <2>1. appSlot[p] \in Nat \ {0} /\ Store(appSlot[p], p) /\ (raced => raced')
    BY <1>3, <1>7 DEF PushStores, Store, TypeOK, OpenInv, SendInv, SlotsAreIndices
  <2>2. ~raced' => Listed(p)' /\ \A q \in Packets : Listed(q) => Listed(q)'
    BY <1>3, <2>1, ListedByStore
  <2>3. \A q \in Packets : app'[q] = "done" /\ ~raced' => app[q] = "done" \/ Listed(q)'
    BY <1>3, <1>7, <2>2 DEF PushStores
  <2> QED
    BY <1>1, <1>2, <1>4, <2>1, <2>2, <2>3, StillListed DEF OpenInv
<1> QED
  BY <1>5, <1>6, <1>7 DEF Pushing

\* The resend thread removes only what it has given up.
LEMMA OpenResendStep ==
  ASSUME OpenInv, ResendThread
  PROVE  DropReported' /\ UnsettledIsListed'
<1>1. TypeOK /\ UNCHANGED <<app, pop, confirms>>
  BY DEF OpenInv, SendInv, ResendThread, StartRound, EndRound, NullEntry, TreatEntry,
         RepushReads, RepushGrows, RepushStores, DropFinds, DropRemoves, DropOutOfRange,
         NewVersion, appVars, popVars
<1>2. CASE StartRound \/ EndRound \/ NullEntry \/ RepushReads \/ DropFinds \/ DropOutOfRange
  <2>1. UNCHANGED <<slots, size, raced, givenUp>>
    BY <1>2 DEF StartRound, EndRound, NullEntry, RepushReads, DropFinds, DropOutOfRange,
                listVars, resendVars
  <2>2. resend' \in {"drop", "remove"} => resend \in {"drop", "remove"} /\ UNCHANGED snapshot
    BY <1>2 DEF StartRound, EndRound, NullEntry, RepushReads, DropFinds, DropOutOfRange, NextEntry,
                resendVars
  <2>3. DropReported'
    BY <2>1, <2>2 DEF OpenInv, DropReported
  <2> QED
    BY <1>1, <2>1, <2>3, ListUntouched
<1>3. CASE TreatEntry
  <2>1. Head(snapshot) \in Packets
    BY <1>1, <1>3, HeadGiven DEF TreatEntry, OpenInv, SendInv, Given
  <2>2. givenUp \in [Packets -> Nat]
    BY <1>1 DEF TypeOK
  <2>3. \/ /\ givenUp' = [givenUp EXCEPT ![Head(snapshot)] = @ + 1]
           /\ UNCHANGED snapshot
        \/ givenUp' = givenUp /\ resend' \notin {"drop", "remove"}
    BY <1>3 DEF TreatEntry
  <2>4. \A q \in Packets : givenUp[q] > 0 => givenUp'[q] > 0
    BY <2>1, <2>2, <2>3
  <2>5. DropReported'
    BY <2>1, <2>2, <2>3 DEF DropReported
  <2>6. UNCHANGED <<slots, size, raced>>
    BY <1>3 DEF TreatEntry, listVars
  <2> QED
    BY <1>1, <2>4, <2>5, <2>6, ListUntouched
<1>4. CASE RepushGrows
  <2>1. resendSlot \in Nat /\ Grow(resendSlot) /\ (raced => raced') /\ UNCHANGED givenUp
    BY <1>1, <1>4 DEF RepushGrows, Grow, TypeOK
  <2>2. \A q \in Packets : (~raced' /\ Listed(q) => Listed(q)') /\ (Settled(q)' = Settled(q))
    BY <1>1, <2>1, ListedByGrow DEF Settled
  <2>3. DropReported'
    BY <1>4 DEF RepushGrows, DropReported
  <2> QED
    BY <1>1, <2>1, <2>2, <2>3, StillListed DEF OpenInv
<1>5. CASE RepushStores
  <2>1. /\ resendSlot \in Nat \ {0} /\ Store(resendSlot, Head(snapshot)) /\ (raced => raced')
        /\ UNCHANGED givenUp
    BY <1>1, <1>5 DEF RepushStores, Store, TypeOK, OpenInv, SendInv, SlotsAreIndices
  <2>2. Head(snapshot) \in Packets
    BY <1>1, <1>5, HeadGiven DEF RepushStores, TypeOK, OpenInv, SendInv, Given
  <2>3. \A q \in Packets : (~raced' /\ Listed(q) => Listed(q)') /\ (Settled(q)' = Settled(q))
    BY <1>1, <2>1, <2>2, ListedByStore DEF Settled
  <2>4. DropReported'
    BY <1>5 DEF RepushStores, NextEntry, DropReported
  <2> QED
    BY <1>1, <2>1, <2>3, <2>4, StillListed DEF OpenInv
<1>6. CASE DropRemoves
  <2>1. /\ resendSlot \in 1..size /\ RemoveAt(resendSlot, Head(snapshot)) /\ (raced => raced')
        /\ UNCHANGED givenUp
    BY <1>1, <1>6 DEF DropRemoves, RemoveAt, TypeOK, OpenInv, SendInv, SlotsAreIndices
  <2>2. Settled(Head(snapshot)) /\ \A q \in Packets : Settled(q)' = Settled(q)
    BY <1>1, <1>6, <2>1 DEF DropRemoves, OpenInv, DropReported, Settled
  <2>3. ASSUME NEW q \in Packets, ~raced', Listed(q) PROVE Listed(q)' \/ Settled(q)'
    <3>1. CASE q = Head(snapshot)
      BY <2>2, <3>1
    <3>2. CASE q # Head(snapshot)
      BY <1>1, <2>1, <2>3, <3>2, ListedByRemove
    <3> QED
      BY <3>1, <3>2
  <2>4. DropReported'
    BY <1>6 DEF DropRemoves, NextEntry, DropReported
  <2> QED
    BY <1>1, <2>1, <2>2, <2>3, <2>4, StillListed DEF OpenInv
<1> QED
  BY <1>2, <1>3, <1>4, <1>5, <1>6 DEF ResendThread

\* A confirmation removes only the packet it is for, and counts when it is done.
LEMMA OpenPopStep ==
  ASSUME OpenInv, Popping \/ \E p \in Packets : ConfirmArrives(p)
  PROVE  DropReported' /\ UnsettledIsListed'
<1>1. TypeOK /\ UNCHANGED <<app, resend, snapshot, givenUp>>
  BY DEF OpenInv, SendInv, Popping, PopScan, PopFinds, PopRemoves, PopOutOfRange, PopDone,
         ConfirmArrives, appVars, resendVars
<1>2. DropReported'
  BY <1>1 DEF OpenInv, DropReported
<1>3. CASE PopScan \/ PopFinds \/ PopOutOfRange
  <2>1. UNCHANGED <<slots, size, raced, pop, confirms>>
    BY <1>3 DEF PopScan, PopFinds, PopOutOfRange, listVars, popVars
  <2> QED
    BY <1>1, <1>2, <2>1, ListUntouched
<1>4. CASE PopRemoves
  <2>1. /\ popSlot \in 1..size /\ RemoveAt(popSlot, pop) /\ (raced => raced')
        /\ UNCHANGED <<pop, confirms>>
    BY <1>1, <1>4 DEF PopRemoves, RemoveAt, TypeOK
  <2>2. ASSUME NEW q \in Packets, ~raced', Listed(q) PROVE Listed(q)' \/ pop' = q
    <3>1. CASE q # pop
      BY <1>1, <2>1, <2>2, <3>1, ListedByRemove
    <3> QED
      BY <2>1, <3>1
  <2>3. \A q \in Packets : Settled(q)' = Settled(q)
    BY <1>1, <2>1 DEF Settled
  <2> QED
    BY <1>1, <1>2, <2>1, <2>2, <2>3, StillListed DEF OpenInv
<1>5. CASE PopDone
  <2>1. /\ UNCHANGED <<slots, size, raced>> /\ pop \in Packets
        /\ confirms \in [Packets -> Nat] /\ confirms' = [confirms EXCEPT ![pop] = @ + 1]
    BY <1>1, <1>5 DEF PopDone, TypeOK, listVars
  <2>2. confirms'[pop] > 0 /\ \A q \in Packets : confirms[q] > 0 => confirms'[q] > 0
    BY <2>1
  <2>3. \A q \in Packets : Settled(q) \/ q = pop => Settled(q)'
    BY <1>1, <2>2 DEF Settled
  <2>4. \A q : Listed(q)' = Listed(q)
    BY <2>1 DEF Listed
  <2> QED
    BY <1>1, <1>2, <2>1, <2>3, <2>4, StillListed DEF OpenInv
<1>6. CASE \E p \in Packets : ConfirmArrives(p)
  <2>1. UNCHANGED <<slots, size, raced, confirms>> /\ pop = Null
    BY <1>6 DEF ConfirmArrives, listVars
  <2>2. \A q : Listed(q)' = Listed(q)
    BY <2>1 DEF Listed
  <2>3. \A q \in Packets : Settled(q)' = Settled(q)
    BY <1>1, <2>1 DEF Settled
  <2>4. \A q \in Packets : pop # q
    BY <2>1, PacketsAssumption
  <2> QED
    BY <1>1, <1>2, <2>1, <2>2, <2>3, <2>4, StillListed DEF OpenInv
<1> QED
  BY <1>3, <1>4, <1>5, <1>6 DEF Popping

\* Every step of UDPThread's sender.
LEMMA OpenNext == ASSUME OpenInv, [Next]_vars PROVE OpenInv'
<1>1. SendInv'
  BY SendNext DEF OpenInv
<1>2. CASE UNCHANGED vars \/ Close
  <2>1. UNCHANGED <<slots, size, raced, app, pop, confirms, givenUp>>
    BY <1>2 DEF Close, vars, appVars, listVars, resendVars, popVars
  <2>2. resend' \in {"drop", "remove"} => resend \in {"drop", "remove"} /\ UNCHANGED snapshot
    BY <1>2 DEF Close, vars, resendVars
  <2>3. DropReported'
    BY <2>1, <2>2 DEF OpenInv, DropReported
  <2> QED
    BY <1>1, <2>1, <2>3, ListUntouched DEF OpenInv
<1>3. CASE \E p \in Packets : SendPacket(p) \/ SendCallback(p) \/ Pushing(p)
  BY <1>1, <1>3, OpenAppStep DEF OpenInv
<1>4. CASE ResendThread
  BY <1>1, <1>4, OpenResendStep DEF OpenInv
<1>5. CASE Popping \/ \E p \in Packets : ConfirmArrives(p)
  BY <1>1, <1>5, OpenPopStep DEF OpenInv
<1> QED
  BY <1>2, <1>3, <1>4, <1>5 DEF Next

\* A packet that is neither confirmed nor given up stands on SendList, where
\* CheckUnConfirmedQueue finds it, as long as no Add and no Remove has raced.
THEOREM UnsettledStaysListed == Spec => []UnsettledIsListed
<1>1. Init => OpenInv
  BY SendInit DEF Init, OpenInv, DropReported, UnsettledIsListed
<1>2. OpenInv /\ [Next]_vars => OpenInv'
  BY OpenNext
<1>3. OpenInv => UnsettledIsListed
  BY DEF OpenInv
<1> QED
  BY <1>1, <1>2, <1>3, PTL DEF Spec
===============================================================================
