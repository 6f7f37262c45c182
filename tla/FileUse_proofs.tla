------------------------------ MODULE FileUse_proofs ------------------------------
(***************************************************************************)
(* Proof that an open file can be found by its name, and an element in     *)
(* service on the list, until the very Close that ends that.  Both rest on *)
(* the locks: what a thread does to an element it does with the lock of    *)
(* the only token that the element is ever bound to.                       *)
(***************************************************************************)
EXTENDS FileUse, SequenceTheorems, WellFoundedInduction, TLAPS

\* Every step of the system is a step of one token's connection.
Step(t) == Connect(t) \/ ReceiveBytes(t) \/ Disconnected(t) \/ SendCompleted(t) \/ Callback(t)

\* Elements that have been made.
Made == {e \in Elements : token[e] \in Tokens}

PlainTypes ==
  /\ conn \in [Tokens -> {"free", "up", "down"}]
  /\ waiting \in [Tokens -> BOOLEAN]
  /\ sends \in [Tokens -> Nat]
  /\ closed \in [Tokens -> BOOLEAN]
  /\ exists \subseteq Files

ThreadTypes ==
  /\ at \in [Tokens -> Places]
  /\ this \in [Tokens -> Elements \cup {None}]
  /\ fileName \in [Tokens -> Files \cup {None}]
  /\ index \in [Tokens -> Nat]
  /\ victim \in [Tokens -> Tokens \cup {None}]
  /\ mgr \in Tokens \cup {None}

ElementTypes ==
  /\ element \in [Tokens -> Elements \cup {None}]
  /\ made \in 0..MaxElements
  /\ token \in [Elements -> Tokens \cup {None}]
  /\ name \in [Elements -> Files \cup {None}]
  /\ stream \in [Elements -> Files \cup {None}]

\* An element works for one connection only: the one it was made for.
OwnElements ==
  /\ \A e \in Elements : e > made => token[e] = None
  /\ \A t \in Tokens :
       /\ element[t] # None => token[element[t]] = t
       /\ this[t] # None => token[this[t]] = t

\* A thread that closes a connection has that token's lock to itself, and only the one
\* that scans has the lock of the list.
Locks ==
  \A t \in Tokens :
    /\ victim[t] # None <=> at[t] \in Closing
    /\ \A u \in Tokens : victim[u] = t => (u = t \/ at[t] = "idle") /\ \A v \in Tokens : victim[v] = t => v = u
    /\ mgr = t => at[t] \in {"scan", "wait"} \cup Closing
    /\ at[t] \in {"scan", "wait"} => mgr = t

\* The connection that is being closed keeps its element until the setter drops it.
Victims ==
  \A t \in Tokens :
    /\ at[t] \in Closing \ {"close"} => conn[victim[t]] = "down"
    /\ at[t] \in {"clear", "shut", "unlist"} => element[victim[t]] # None

\* The loop's index is one of the list where it is used.
IndexOK ==
  \A t \in Tokens :
    /\ mgr = t => index[t] > 0
    /\ at[t] = "wait" => index[t] <= Len(list)

\* DoUpload, from where it has closed the last file to where it opens the next one.
Uploading(t) == at[t] \in {"check", "probe", "lock", "open", "create"} \/ mgr = t

\* A callback that handles a command has an element, and one of DoUpload has named a file
\* but not opened it.
Working ==
  \A t \in Tokens :
    /\ at[t] \notin {"idle"} \cup Closing \/ mgr = t => this[t] # None
    /\ Uploading(t) => fileName[t] \in Files
    /\ Uploading(t) \/ at[t] = "unname" => stream[this[t]] = None
    /\ at[t] = "create" => name[this[t]] = fileName[t]

\* Entries of the list are of elements that have been made, each at most once.
ListOK ==
  /\ list \in Seq(Made) /\ IsInjective(list)
  /\ \A t \in Tokens : at[t] = "build" => ~Contains(list, this[t])

\* BoundIsListed, with the thread that has taken the element off named.
Listed ==
  \A t \in Tokens :
    element[t] # None => \/ Contains(list, element[t])
                         \/ \E u \in Tokens : at[u] = "unbind" /\ victim[u] = t

FileInv ==
  /\ PlainTypes /\ ThreadTypes /\ ElementTypes
  /\ OwnElements /\ Locks /\ Victims /\ IndexOK /\ Working
  /\ ListOK /\ OpenIsNamed /\ Listed

-----------------------------------------------------------------------------
\* null is none of the things that the variables hold.
LEMMA NoneIsNoElement == None \notin Elements /\ None \notin Tokens /\ None \notin Files
  BY NoneAssumption, BoundsAssumption DEF Elements

\* Elements are numbered in the order in which they are made.
LEMMA ElementsAreNumbers == ASSUME NEW e \in Elements PROVE e \in Int /\ 1 <= e /\ e <= MaxElements
  BY BoundsAssumption DEF Elements

-----------------------------------------------------------------------------
(* UploadSocketProtocolMgr: what adding to a list and removing from it keep. *)

\* A non-empty set of natural numbers has a least element.
LEMMA LeastElement ==
  ASSUME NEW I \in SUBSET Nat, I # {}
  PROVE  Min(I) \in I /\ \A j \in I : Min(I) <= j
  <1> DEFINE R == OpToRel(<, Nat)
  <1>1. IsWellFoundedOn(R, Nat)
    BY NatLessThanWellFounded
  <1>2. \A j, m \in Nat : j < m => <<j, m>> \in R
    BY DEF OpToRel
  <1> HIDE DEF R
  <1>3. PICK m \in I : \A j \in I : ~(<<j, m>> \in R)
    BY <1>1, WFMin
  <1>4. ASSUME NEW j \in I PROVE m <= j
    <2>1. j \in Nat /\ m \in Nat /\ ~(j < m)
      BY <1>2, <1>3, Zenon
    <2> QED
      BY <2>1
  <1> QED
    BY <1>4 DEF Min

\* List.Remove takes one entry off at most; every other entry stays.
LEMMA RemoveFirstKeeps ==
  ASSUME NEW S, NEW s \in Seq(S), NEW e
  PROVE  /\ RemoveFirst(s, e) \in Seq(S)
         /\ \A x : x # e /\ Contains(s, x) => Contains(RemoveFirst(s, e), x)
         /\ \A x : Contains(RemoveFirst(s, e), x) => Contains(s, x)
         /\ IsInjective(s) => IsInjective(RemoveFirst(s, e))
  <1> DEFINE I == {i \in 1..Len(s) : s[i] = e}
             k == SelectInSeq(s, LAMBDA v : v = e)
             r == RemoveFirst(s, e)
  <1>1. CASE \E i \in 1..Len(s) : s[i] = e
    <2>1. I # {} /\ I \in SUBSET Nat
      BY <1>1
    <2>2. k = Min(I)
      BY <2>1 DEF SelectInSeq
    <2>3. k \in 1..Len(s) /\ s[k] = e
      BY <2>1, <2>2, LeastElement
    <2>4. r = SubSeq(s, 1, k - 1) \o SubSeq(s, k + 1, Len(s))
      BY <1>1 DEF RemoveFirst, RemoveAt
    <2> HIDE DEF k, I, r
    <2>5. Len(s) \in Nat /\ \A i \in 1..Len(s) : s[i] \in S
      BY ElementOfSeq, LenProperties
    <2> DEFINE a == SubSeq(s, 1, k - 1)
               b == SubSeq(s, k + 1, Len(s))
    <2>6. a \in Seq(S) /\ Len(a) = k - 1 /\ \A i \in 1..(k - 1) : a[i] = s[i]
      BY <2>3, <2>5, SubSeqProperties
    <2>7. b \in Seq(S) /\ Len(b) = Len(s) - k /\ \A i \in 1..(Len(s) - k) : b[i] = s[k + i]
      BY <2>3, <2>5, SubSeqProperties
    <2> HIDE DEF a, b
    <2>8. /\ r \in Seq(S) /\ Len(r) = Len(s) - 1
          /\ \A i \in 1..(k - 1) : r[i] = s[i]
          /\ \A i \in k..(Len(s) - 1) : r[i] = s[i + 1]
      <3>1. r = a \o b
        BY <2>4 DEF a, b
      <3>0. /\ r \in Seq(S) /\ Len(r) = Len(a) + Len(b)
            /\ \A i \in 1..(Len(a) + Len(b)) : r[i] = IF i <= Len(a) THEN a[i] ELSE b[i - Len(a)]
        BY <2>6, <2>7, <3>1, ConcatProperties
      <3>2. r \in Seq(S) /\ Len(r) = Len(s) - 1
        BY <2>3, <2>5, <2>6, <2>7, <3>0
      <3>3. \A i \in 1..(Len(s) - 1) : r[i] = IF i <= k - 1 THEN a[i] ELSE b[i - (k - 1)]
        <4>1. Len(a) = k - 1 /\ Len(a) + Len(b) = Len(s) - 1
          BY <2>3, <2>5, <2>6, <2>7
        <4> QED
          BY <3>0, <4>1
      <3>4. ASSUME NEW i \in 1..(k - 1) PROVE r[i] = s[i]
        BY <2>3, <2>5, <2>6, <3>3
      <3>5. ASSUME NEW i \in k..(Len(s) - 1) PROVE r[i] = s[i + 1]
        <4>1. i - (k - 1) \in 1..(Len(s) - k) /\ k + (i - (k - 1)) = i + 1 /\ ~(i <= k - 1)
          BY <2>3, <2>5
        <4> QED
          BY <2>3, <2>5, <2>7, <3>3, <4>1
      <3> QED
        BY <3>2, <3>4, <3>5
    <2>9. ASSUME NEW x, x # e, Contains(s, x) PROVE Contains(r, x)
      <3>1. PICK i \in 1..Len(s) : s[i] = x
        BY <2>9 DEF Contains
      <3>2. CASE i < k
        BY <2>3, <2>5, <2>8, <3>1, <3>2 DEF Contains
      <3>3. CASE i > k
        <4>1. i - 1 \in k..(Len(s) - 1) /\ i - 1 \in 1..Len(r)
          BY <2>3, <2>5, <2>8, <3>3
        <4>2. r[i - 1] = x
          BY <2>8, <3>1, <4>1
        <4> QED
          BY <4>1, <4>2 DEF Contains
      <3> QED
        BY <2>3, <2>5, <2>9, <3>1, <3>2, <3>3
    <2> DEFINE from(i) == IF i < k THEN i ELSE i + 1   \* where entry i of r is in s
    <2>10. \A i \in 1..Len(r) :
             from(i) \in 1..Len(s) /\ r[i] = s[from(i)] /\ from(i) # k
      <3> TAKE i \in 1..Len(r)
      <3>1. i \in 1..(Len(s) - 1)
        BY <2>5, <2>8
      <3>2. CASE i < k
        <4>1. i \in 1..(k - 1) /\ i \in 1..Len(s) /\ i # k
          BY <2>3, <2>5, <3>1, <3>2
        <4> QED
          BY <2>8, <3>2, <4>1
      <3>3. CASE ~(i < k)
        <4>1. i \in k..(Len(s) - 1) /\ i + 1 \in 1..Len(s) /\ i + 1 # k
          BY <2>3, <2>5, <3>1, <3>3
        <4> QED
          BY <2>8, <3>3, <4>1
      <3> QED
        BY <3>2, <3>3
    <2>11. ASSUME NEW i \in 1..Len(r), NEW j \in 1..Len(r), from(i) = from(j) PROVE i = j
      BY <2>3, <2>5, <2>8, <2>11
    <2> HIDE DEF from
    <2>12. \A x : Contains(r, x) => Contains(s, x)
      BY <2>10 DEF Contains
    <2>13. ASSUME IsInjective(s) PROVE IsInjective(r)
      <3> SUFFICES ASSUME NEW i \in 1..Len(r), NEW j \in 1..Len(r), r[i] = r[j] PROVE i = j
        BY <2>8, LenProperties DEF IsInjective
      <3>1. s[from(i)] = s[from(j)] /\ from(i) \in 1..Len(s) /\ from(j) \in 1..Len(s)
        BY <2>10
      <3>2. from(i) = from(j)
        BY <2>13, <3>1, LenProperties DEF IsInjective
      <3> QED
        BY <2>11, <3>2
    <2> QED
      BY <2>8, <2>9, <2>12, <2>13 DEF r
  <1>2. CASE ~ \E i \in 1..Len(s) : s[i] = e
    BY <1>2 DEF RemoveFirst
  <1> QED
    BY <1>1, <1>2

\* List.Add keeps what is there.
LEMMA AppendKeeps ==
  ASSUME NEW S, NEW s \in Seq(S), NEW e \in S
  PROVE  /\ Append(s, e) \in Seq(S)
         /\ Contains(Append(s, e), e)
         /\ \A x : Contains(s, x) => Contains(Append(s, e), x)
         /\ \A x : Contains(Append(s, e), x) => x = e \/ Contains(s, x)
         /\ IsInjective(s) /\ ~Contains(s, e) => IsInjective(Append(s, e))
  <1>1. /\ Append(s, e) \in Seq(S) /\ Len(Append(s, e)) = Len(s) + 1 /\ Len(s) \in Nat
        /\ \A i \in 1..Len(s) : Append(s, e)[i] = s[i]
        /\ Append(s, e)[Len(s) + 1] = e
    BY AppendProperties, LenProperties
  <1> DEFINE a == Append(s, e)
  <1> HIDE DEF a
  <1>2. Contains(a, e) /\ \A x : Contains(s, x) => Contains(a, x)
    BY <1>1 DEF Contains, a
  <1>3. \A x : Contains(a, x) => x = e \/ Contains(s, x)
    BY <1>1 DEF Contains, a
  <1>4. ASSUME IsInjective(s), ~Contains(s, e) PROVE IsInjective(a)
    <2> SUFFICES ASSUME NEW i \in 1..Len(a), NEW j \in 1..Len(a), a[i] = a[j] PROVE i = j
      BY <1>1, LenProperties DEF IsInjective, a
    <2>1. CASE i \in 1..Len(s) /\ j \in 1..Len(s)
      BY <1>1, <1>4, <2>1, LenProperties DEF IsInjective, a
    <2>2. CASE i = Len(s) + 1 \/ j = Len(s) + 1
      BY <1>1, <1>4, <2>2 DEF Contains, a
    <2> QED
      BY <1>1, <2>1, <2>2 DEF a
  <1> QED
    BY <1>1, <1>2, <1>3, <1>4 DEF a

-----------------------------------------------------------------------------
(* The invariant holds when the server starts. *)

THEOREM FileInvInit == Init => FileInv
  <1> SUFFICES ASSUME Init PROVE FileInv
    OBVIOUS
  <1> USE NoneIsNoElement, BoundsAssumption DEF Init
  <1>1. PlainTypes /\ ThreadTypes /\ ElementTypes
    BY DEF PlainTypes, ThreadTypes, ElementTypes, Places
  <1>2. OwnElements /\ Locks /\ Victims /\ IndexOK /\ Working
    BY DEF OwnElements, Locks, Victims, IndexOK, Working, Uploading, Closing
  <1>3. ListOK /\ OpenIsNamed /\ Listed
    BY DEF ListOK, OpenIsNamed, Listed, IsInjective
  <1> QED
    BY <1>1, <1>2, <1>3 DEF FileInv

-----------------------------------------------------------------------------
(* Steps, conjunct by conjunct. *)

\* The element that a closing thread works on is bound to the victim and is its own.
LEMMA VictimElement ==
  ASSUME FileInv, NEW t \in Tokens, at[t] \in Closing
  PROVE  /\ victim[t] \in Tokens
         /\ victim[t] = t \/ at[victim[t]] = "idle"
         /\ at[t] \in {"clear", "shut", "unlist"} =>
              element[victim[t]] \in Elements /\ token[element[victim[t]]] = victim[t]
  BY DEF FileInv, ThreadTypes, ElementTypes, OwnElements, Locks, Victims

\* The token whose lock the loop waits for is one.
LEMMA OtherToken ==
  ASSUME FileInv, NEW t \in Tokens, at[t] = "wait"
  PROVE  token[list[index[t]]] \in Tokens
  <1>1. index[t] \in 1..Len(list)
    BY DEF FileInv, ThreadTypes, Locks, IndexOK
  <1>2. list[index[t]] \in Made
    BY <1>1, ElementOfSeq DEF FileInv, ListOK
  <1> QED
    BY <1>2 DEF Made

LEMMA PlainTypesStep ==
  ASSUME FileInv, NEW t \in Tokens, Step(t)
  PROVE  PlainTypes'
  <1> USE DEF PlainTypes, connVars, callVars, Goto, Return, Throw, GoClose, CloseEnds
  <1>0. /\ conn \in [Tokens -> {"free", "up", "down"}] /\ waiting \in [Tokens -> BOOLEAN]
        /\ sends \in [Tokens -> Nat] /\ closed \in [Tokens -> BOOLEAN] /\ exists \subseteq Files
    BY DEF FileInv
  <1> USE <1>0
  <1>1. CASE Connect(t) \/ ReceiveBytes(t) \/ Disconnected(t)
    BY <1>1 DEF Connect, ReceiveBytes, Disconnected
  <1>2. CASE SendCompleted(t)
    BY <1>2 DEF SendCompleted
  <1>3. CASE BuildingSocketInvokeElement(t) \/ ClearName(t) \/ NameFile(t)
    BY <1>3 DEF BuildingSocketInvokeElement, ClearName, NameFile
  <1>4. CASE OtherCommand(t) \/ DoEof(t) \/ \E f \in Files : DoUpload(t, f)
    BY <1>4 DEF OtherCommand, DoEof, DoUpload
  <1>5. CASE DoData(t) \/ OpenThrows(t)
    BY <1>5 DEF DoData, OpenThrows
  <1>6. CASE CheckFileInUse(t)
    BY <1>6 DEF CheckFileInUse, IsFileInUse, ProbeEnds, LockMgr, ScanElement, LockOther, ScanEnds
  <1>7. CASE OpenFile(t)
    BY <1>7 DEF OpenFile, FileInv, Working, Uploading
  <1>8. CASE DoSendResult(t)
    <2>1. sends' = [sends EXCEPT ![t] = @ + 1] \/ sends' = sends
      BY <1>8 DEF DoSendResult
    <2> QED
      BY <1>8, <2>1 DEF DoSendResult
  <1>9. CASE CloseClientSocket(t)
    <2>1. /\ sends' = sends \/ sends' = [sends EXCEPT ![victim[t]] = 0]
          /\ waiting' = waiting \/ waiting' = [waiting EXCEPT ![victim[t]] = FALSE]
          /\ conn' = conn \/ conn' = [conn EXCEPT ![victim[t]] = "down"]
      BY <1>9 DEF CloseClientSocket
    <2>2. sends' \in [Tokens -> Nat]
      BY <2>1
    <2>5. waiting' \in [Tokens -> BOOLEAN]
      BY <2>1
    <2>3. conn' \in [Tokens -> {"free", "up", "down"}]
      BY <2>1
    <2>4. closed' \in [Tokens -> BOOLEAN] /\ exists' \subseteq Files
      BY <1>9 DEF CloseClientSocket
    <2> QED
      BY <2>2, <2>3, <2>4, <2>5
  <1>10. CASE CloseClears(t) \/ CloseStream(t) \/ CloseUnlists(t)
    BY <1>10 DEF CloseClears, CloseStream, CloseUnlists
  <1>11. CASE CloseThrows(t)
    BY <1>11 DEF CloseThrows
  <1>12. CASE Unbind(t)
    BY <1>12 DEF Unbind
  <1> QED
    BY <1>1, <1>2, <1>3, <1>4, <1>5, <1>6, <1>7, <1>8, <1>9, <1>10, <1>11, <1>12
       DEF Step, Callback, Command, Close

LEMMA ThreadTypesStep ==
  ASSUME FileInv, NEW t \in Tokens, Step(t)
  PROVE  ThreadTypes'
  <1> USE DEF ThreadTypes, connVars, callVars, Goto, Return, Throw, GoClose, CloseEnds,
              StreamClosed, FileExists, Places, Closing
  <1>0. ThreadTypes /\ element[t] \in Elements \cup {None} /\ made \in 0..MaxElements
    BY DEF FileInv, ElementTypes
  <1> USE <1>0
  <1>1. CASE Connect(t) \/ Disconnected(t) \/ SendCompleted(t)
    BY <1>1 DEF Connect, Disconnected, SendCompleted
  <1>2. CASE ReceiveBytes(t)
    <2>1. made < MaxElements => made + 1 \in Elements
      BY BoundsAssumption DEF Elements
    <2> QED
      BY <1>2, <2>1 DEF ReceiveBytes
  <1>3. CASE BuildingSocketInvokeElement(t) \/ ClearName(t) \/ NameFile(t) \/ OpenFile(t)
    BY <1>3 DEF BuildingSocketInvokeElement, ClearName, NameFile, OpenFile
  <1>4. CASE OtherCommand(t) \/ DoData(t) \/ OpenThrows(t) \/ DoSendResult(t)
    BY <1>4 DEF OtherCommand, DoData, OpenThrows, DoSendResult
  <1>5. CASE DoEof(t)
    BY <1>5 DEF DoEof
  <1>11. ASSUME NEW f \in Files, DoUpload(t, f)
         PROVE  ThreadTypes'
    <2>1. fileName' = [fileName EXCEPT ![t] = f] /\ \E p \in Places : at' = [at EXCEPT ![t] = p]
      BY <1>11 DEF DoUpload
    <2>2. UNCHANGED <<this, index, victim, mgr>>
      BY <1>11 DEF DoUpload
    <2> QED
      BY <2>1, <2>2
  <1>6. CASE IsFileInUse(t) \/ ProbeEnds(t) \/ LockMgr(t)
    BY <1>6 DEF IsFileInUse, ProbeEnds, LockMgr
  <1>12. CASE ScanElement(t) \/ ScanEnds(t)
    <2>1. \E i \in {0, index[t], index[t] + 1} : index' = [index EXCEPT ![t] = i]
      BY <1>12 DEF ScanElement, ScanEnds
    <2>2. index[t] \in Nat
      OBVIOUS
    <2>3. index' \in [Tokens -> Nat]
      BY <2>1, <2>2
    <2> QED
      BY <1>12, <2>3 DEF ScanElement, ScanEnds
  <1>7. CASE LockOther(t)
    <2>1. token[list[index[t]]] \in Tokens
      BY <1>7, OtherToken DEF LockOther
    <2> QED
      BY <1>7, <2>1 DEF LockOther
  <1>8. CASE CloseClientSocket(t)
    BY <1>8 DEF CloseClientSocket
  <1>9. CASE CloseClears(t) \/ CloseStream(t) \/ CloseUnlists(t)
    BY <1>9 DEF CloseClears, CloseStream, CloseUnlists
  <1>10. CASE CloseThrows(t) \/ Unbind(t)
    BY <1>10 DEF CloseThrows, Unbind
  <1> QED
    BY <1>1, <1>2, <1>3, <1>4, <1>5, <1>6, <1>7, <1>8, <1>9, <1>10, <1>11, <1>12
       DEF Step, Callback, Command, CheckFileInUse, Close

LEMMA ElementTypesStep ==
  ASSUME FileInv, NEW t \in Tokens, Step(t)
  PROVE  ElementTypes'
  <1> USE DEF ElementTypes, connVars, elemVars
  <1>0. /\ ElementTypes
        /\ this[t] \in Elements \cup {None} /\ fileName[t] \in Files \cup {None}
    BY DEF FileInv, ThreadTypes
  <1> USE <1>0
  <1>1. CASE Connect(t) \/ Disconnected(t) \/ SendCompleted(t)
    BY <1>1 DEF Connect, Disconnected, SendCompleted
  <1>2. CASE ReceiveBytes(t)
    <2>1. made < MaxElements => made + 1 \in Elements /\ made + 1 \in 0..MaxElements
      BY BoundsAssumption DEF Elements
    <2> QED
      BY <1>2, <2>1 DEF ReceiveBytes
  <1>3. CASE BuildingSocketInvokeElement(t) \/ ClearName(t) \/ NameFile(t) \/ OpenFile(t)
    BY <1>3 DEF BuildingSocketInvokeElement, ClearName, NameFile, OpenFile
  <1>4. CASE OtherCommand(t) \/ DoData(t) \/ OpenThrows(t) \/ DoSendResult(t)
    BY <1>4 DEF OtherCommand, DoData, OpenThrows, DoSendResult
  <1>5. CASE DoEof(t) \/ \E f \in Files : DoUpload(t, f)
    BY <1>5 DEF DoEof, DoUpload, StreamClosed
  <1>6. CASE CheckFileInUse(t)
    BY <1>6 DEF CheckFileInUse, IsFileInUse, ProbeEnds, LockMgr, ScanElement, LockOther, ScanEnds
  <1>7. CASE Close(t)
    BY <1>7 DEF Close, CloseClientSocket, CloseClears, CloseStream, CloseThrows, CloseUnlists, Unbind
  <1> QED
    BY <1>1, <1>2, <1>3, <1>4, <1>5, <1>6, <1>7 DEF Step, Callback, Command

\* An element is made for a token, and a callback works for its own token's element.
LEMMA OwnElementsStep ==
  ASSUME FileInv, NEW t \in Tokens, Step(t)
  PROVE  OwnElements'
  <1>0. /\ element \in [Tokens -> Elements \cup {None}]
        /\ this \in [Tokens -> Elements \cup {None}]
        /\ token \in [Elements -> Tokens \cup {None}]
        /\ made \in 0..MaxElements
        /\ OwnElements
    BY DEF FileInv, ElementTypes, ThreadTypes
  <1> USE NoneIsNoElement DEF OwnElements, connVars, callVars, elemVars
  <1>1. ASSUME UNCHANGED <<made, token>>,
               element' = element \/ \E u : element' = [element EXCEPT ![u] = None],
               this' = this \/ this' = [this EXCEPT ![t] = None]
        PROVE  OwnElements'
    BY <1>0, <1>1
  <1> USE DEF Goto, Return, Throw, GoClose, CloseEnds
  <1>2. CASE Connect(t) \/ Disconnected(t) \/ SendCompleted(t)
    BY <1>1, <1>2 DEF Connect, Disconnected, SendCompleted
  <1>3. CASE ReceiveBytes(t) /\ element[t] # None
    <2>1. this' = [this EXCEPT ![t] = element[t]] /\ UNCHANGED <<made, token, element>>
      BY <1>3 DEF ReceiveBytes
    <2> QED
      BY <1>0, <2>1
  <1>4. CASE ReceiveBytes(t) /\ element[t] = None
    <2>1. /\ made < MaxElements /\ made' = made + 1
          /\ this' = [this EXCEPT ![t] = made + 1]
          /\ token' = [token EXCEPT ![made + 1] = t]
          /\ UNCHANGED element
      BY <1>4 DEF ReceiveBytes
    <2>2. made + 1 \in Elements /\ made \in Int /\ made + 1 > made
      BY <1>0, <2>1, BoundsAssumption DEF Elements
    <2>3. token[made + 1] = None
      BY <1>0, <2>2
    <2>4. ASSUME NEW e \in Elements, e > made' PROVE token'[e] = None
      BY <1>0, <2>1, <2>2, <2>4, ElementsAreNumbers
    <2>5. ASSUME NEW u \in Tokens
          PROVE  /\ element'[u] # None => token'[element'[u]] = u
                 /\ this'[u] # None => token'[this'[u]] = u
      <3>1. \A e \in Elements : token[e] = u => token'[e] = u
        BY <1>0, <2>1, <2>2, <2>3
      <3> QED
        BY <1>0, <2>1, <2>2, <3>1
    <2> QED
      BY <2>4, <2>5
  <1>5. CASE BuildingSocketInvokeElement(t)
    <2>1. element' = [element EXCEPT ![t] = this[t]] /\ UNCHANGED <<this, made, token>>
      BY <1>5 DEF BuildingSocketInvokeElement
    <2> QED
      BY <1>0, <2>1
  <1>6. CASE ClearName(t) \/ NameFile(t) \/ OpenFile(t)
    BY <1>1, <1>6 DEF ClearName, NameFile, OpenFile
  <1>7. CASE OtherCommand(t) \/ DoData(t) \/ OpenThrows(t) \/ DoSendResult(t)
    BY <1>1, <1>7 DEF OtherCommand, DoData, OpenThrows, DoSendResult
  <1>8. CASE DoEof(t) \/ \E f \in Files : DoUpload(t, f)
    BY <1>1, <1>8 DEF DoEof, DoUpload
  <1>9. CASE CheckFileInUse(t)
    BY <1>1, <1>9 DEF CheckFileInUse, IsFileInUse, ProbeEnds, LockMgr, ScanElement, LockOther, ScanEnds
  <1>10. CASE Close(t)
    BY <1>1, <1>10 DEF Close, CloseClientSocket, CloseClears, CloseStream, CloseThrows, CloseUnlists, Unbind
  <1> QED
    BY <1>2, <1>3, <1>4, <1>5, <1>6, <1>7, <1>8, <1>9, <1>10 DEF Step, Callback, Command

\* A lock is taken by a thread that finds it free, and given back when it closes no more.
LEMMA LocksStep ==
  ASSUME FileInv, NEW t \in Tokens, Step(t)
  PROVE  Locks'
  <1>0. /\ at \in [Tokens -> Places] /\ victim \in [Tokens -> Tokens \cup {None}]
        /\ mgr \in Tokens \cup {None} /\ Locks
    BY DEF FileInv, ThreadTypes
  <1> USE NoneIsNoElement DEF Locks, connVars, callVars, Closing
  \* A step of a thread that neither takes a lock nor gives one back,
  <1>1. ASSUME UNCHANGED <<victim, mgr>>,
               \/ UNCHANGED at
               \/ /\ at[t] # "idle" \/ Unlocked(t)
                  /\ at[t] \notin {"scan", "wait"} \cup Closing
                  /\ \E p \in Places \ ({"scan", "wait"} \cup Closing) : at' = [at EXCEPT ![t] = p]
        PROVE  Locks'
    BY <1>0, <1>1 DEF Unlocked
  \* one that goes to close its own connection,
  <1>2. ASSUME UNCHANGED mgr, at[t] # "idle" \/ Unlocked(t), GoClose(t),
               at[t] \notin {"scan", "wait"} \cup Closing
        PROVE  Locks'
    BY <1>0, <1>2 DEF Unlocked, GoClose, Goto
  \* and one that ends.
  <1>3. ASSUME Return(t), at[t] \notin {"scan", "wait"}, mgr # t, mgr' = mgr
        PROVE  Locks'
    BY <1>0, <1>3 DEF Return, Goto
  <1>4. ASSUME Throw(t), at[t] \notin {"scan", "wait"}
        PROVE  Locks'
    BY <1>0, <1>4 DEF Throw, Return, Goto
  <1>5. CASE Connect(t) \/ SendCompleted(t)
    BY <1>1, <1>5 DEF Connect, SendCompleted
  <1>6. CASE Disconnected(t)
    <2>1. Unlocked(t) /\ GoClose(t) /\ UNCHANGED mgr
      BY <1>6 DEF Disconnected
    <2> QED
      BY <1>2, <2>1 DEF Unlocked
  <1>7. CASE ReceiveBytes(t)
    BY <1>1, <1>7 DEF ReceiveBytes, Goto, Unlocked, Places
  <1>8. CASE BuildingSocketInvokeElement(t) \/ NameFile(t) \/ OpenFile(t) \/ ProbeEnds(t)
    BY <1>1, <1>8 DEF BuildingSocketInvokeElement, NameFile, OpenFile, ProbeEnds, Goto, Places
  <1>9. CASE ClearName(t) \/ IsFileInUse(t)
    BY <1>1, <1>9 DEF ClearName, IsFileInUse, FileExists, Goto, Places
  <1>10. CASE OtherCommand(t)
    <2>1. at[t] = "command" /\ UNCHANGED mgr /\ mgr # t
      BY <1>0, <1>10 DEF OtherCommand
    <2>2. CASE Goto(t, "respond") /\ UNCHANGED <<this, fileName, victim>>
      BY <1>1, <2>1, <2>2 DEF Goto, Places
    <2> QED
      BY <1>2, <1>3, <1>10, <2>1, <2>2 DEF OtherCommand
  <1>11. CASE DoData(t)
    <2>1. at[t] = "command" /\ mgr # t
      BY <1>0, <1>11 DEF DoData
    <2> QED
      BY <1>2, <1>3, <1>4, <1>11, <2>1 DEF DoData
  <1>12. CASE DoEof(t) \/ \E f \in Files : DoUpload(t, f)
    BY <1>1, <1>12 DEF DoEof, DoUpload, StreamClosed, FileExists, Goto, Places
  <1>13. CASE OpenThrows(t)
    BY <1>4, <1>13 DEF OpenThrows
  <1>14. CASE DoSendResult(t)
    <2>1. at[t] = "respond" /\ UNCHANGED mgr /\ mgr # t
      BY <1>0, <1>14 DEF DoSendResult
    <2> QED
      BY <1>2, <1>3, <1>14, <2>1 DEF DoSendResult
  <1>15. CASE LockMgr(t) \/ ScanEnds(t)
    BY <1>0, <1>15 DEF LockMgr, ScanEnds, Goto, Places
  <1>16. CASE ScanElement(t)
    BY <1>0, <1>16 DEF ScanElement, Goto, Places
  <1>17. CASE LockOther(t)
    <2>0. at[t] = "wait"
      BY <1>17 DEF LockOther
    <2>1. PICK u \in Tokens :
            /\ at' = [at EXCEPT ![t] = "close"] /\ UNCHANGED mgr
            /\ victim' = [victim EXCEPT ![t] = u]
            /\ u = t \/ Unlocked(u)
      BY <1>17, <2>0, OtherToken DEF LockOther, Goto
    <2>2. at \in [Tokens -> Places] /\ victim \in [Tokens -> Tokens \cup {None}]
      BY <1>0
    <2>3. victim[t] = None /\ (u = t \/ at[u] = "idle") /\ \A v \in Tokens : victim[v] # u
      BY <1>0, <2>0, <2>1 DEF Unlocked
    <2>4. /\ victim'[t] = u /\ at'[t] = "close"
          /\ \A s \in Tokens \ {t} : victim'[s] = victim[s] /\ at'[s] = at[s]
      BY <2>1, <2>2
    <2>5. ASSUME NEW s \in Tokens
          PROVE  /\ victim'[s] # None <=> at'[s] \in Closing
                 /\ mgr' = s => at'[s] \in {"scan", "wait"} \cup Closing
                 /\ at'[s] \in {"scan", "wait"} => mgr' = s
      BY <1>0, <2>0, <2>1, <2>4
    <2>6. ASSUME NEW s \in Tokens, NEW v \in Tokens, victim'[v] = s
          PROVE  (v = s \/ at'[s] = "idle") /\ \A w \in Tokens : victim'[w] = s => w = v
      <3>1. CASE v = t
        BY <2>3, <2>4, <2>6, <3>1
      <3>2. CASE v # t
        <4>1. victim[v] = s /\ s # u
          BY <2>3, <2>4, <2>6, <3>2
        <4>2. at[t] # "idle" /\ s # t
          BY <1>0, <2>0, <3>2, <4>1
        <4> QED
          BY <1>0, <2>4, <3>2, <4>1, <4>2
      <3> QED
        BY <3>1, <3>2
    <2> QED
      BY <2>5, <2>6
  \* The end of CloseClientSocket
  <1>18. ASSUME CloseEnds(t), at[t] \in Closing, mgr' = mgr
         PROVE  Locks'
    <2>1. CASE mgr = t
      BY <1>0, <1>18, <2>1 DEF CloseEnds, Goto
    <2>2. CASE mgr # t
      BY <1>3, <1>18, <2>2 DEF CloseEnds
    <2> QED
      BY <2>1, <2>2
  \* and the steps before it.
  <1>19. ASSUME UNCHANGED <<victim, mgr>>, at[t] \in Closing,
                \E p \in Closing : at' = [at EXCEPT ![t] = p]
         PROVE  Locks'
    BY <1>0, <1>19
  <1>20. CASE CloseClientSocket(t)
    <2>1. at[t] \in Closing /\ mgr' = mgr
      BY <1>20 DEF CloseClientSocket
    <2>2. CASE conn[victim[t]] = "up"
      BY <1>19, <1>20, <2>1, <2>2 DEF CloseClientSocket, Goto
    <2>3. CASE conn[victim[t]] # "up"
      BY <1>18, <1>20, <2>1, <2>3 DEF CloseClientSocket
    <2> QED
      BY <2>2, <2>3
  <1>21. CASE CloseClears(t) \/ CloseStream(t) \/ CloseUnlists(t)
    BY <1>19, <1>21 DEF CloseClears, CloseStream, CloseUnlists, Goto
  <1>22. CASE CloseThrows(t)
    BY <1>4, <1>22 DEF CloseThrows
  <1>23. CASE Unbind(t)
    BY <1>18, <1>23 DEF Unbind
  <1> QED
    BY <1>5, <1>6, <1>7, <1>8, <1>9, <1>10, <1>11, <1>12, <1>13, <1>14, <1>15, <1>16, <1>17,
       <1>20, <1>21, <1>22, <1>23
       DEF Step, Callback, Command, CheckFileInUse, Close

\* Nobody binds or drops the element of a connection that another thread is closing.
LEMMA VictimsStep ==
  ASSUME FileInv, NEW t \in Tokens, Step(t)
  PROVE  Victims'
  <1>0. /\ at \in [Tokens -> Places] /\ victim \in [Tokens -> Tokens \cup {None}]
        /\ conn \in [Tokens -> {"free", "up", "down"}]
        /\ element \in [Tokens -> Elements \cup {None}]
        /\ this[t] # None \/ at[t] # "build"
        /\ Locks /\ Victims
    BY DEF FileInv, ThreadTypes, PlainTypes, ElementTypes, Working, Closing
  <1> USE NoneIsNoElement DEF Victims, connVars, callVars, Closing
  <1>1. ASSUME UNCHANGED <<conn, element>>,
               \/ UNCHANGED <<at, victim>>
               \/ /\ \E p \in Places \ {"clear", "shut", "unlist", "unbind"} : at' = [at EXCEPT ![t] = p]
                  /\ victim' = victim \/ \E v : victim' = [victim EXCEPT ![t] = v]
        PROVE  Victims'
    BY <1>0, <1>1
  <1>2. CASE Connect(t)
    BY <1>0, <1>2 DEF Connect, Locks
  <1>3. CASE SendCompleted(t)
    BY <1>0, <1>3 DEF SendCompleted, Locks, Unlocked
  <1> USE DEF Goto, Return, Throw, GoClose, Places
  <1>4. CASE ReceiveBytes(t) \/ Disconnected(t)
    BY <1>1, <1>4 DEF ReceiveBytes, Disconnected
  <1>5. CASE BuildingSocketInvokeElement(t)
    <2>1. /\ at[t] = "build" /\ at' = [at EXCEPT ![t] = "command"]
          /\ element' = [element EXCEPT ![t] = this[t]] /\ UNCHANGED <<conn, victim>>
      BY <1>5 DEF BuildingSocketInvokeElement
    <2> QED
      BY <1>0, <2>1 DEF Locks
  <1>6. CASE ClearName(t) \/ NameFile(t) \/ OpenFile(t) \/ OpenThrows(t)
    BY <1>1, <1>6 DEF ClearName, NameFile, OpenFile, OpenThrows, FileExists
  <1>7. CASE OtherCommand(t) \/ DoData(t) \/ DoSendResult(t)
    BY <1>1, <1>7 DEF OtherCommand, DoData, DoSendResult
  <1>8. CASE DoEof(t) \/ \E f \in Files : DoUpload(t, f)
    BY <1>1, <1>8 DEF DoEof, DoUpload, StreamClosed, FileExists
  <1>9. CASE IsFileInUse(t) \/ ProbeEnds(t) \/ LockMgr(t) \/ ScanElement(t) \/ LockOther(t) \/ ScanEnds(t)
    BY <1>1, <1>9 DEF IsFileInUse, ProbeEnds, LockMgr, ScanElement, LockOther, ScanEnds
  <1>10. CASE CloseClientSocket(t)
    <2>1. CASE conn[victim[t]] = "up"
      <3>1. /\ at[t] = "close" /\ at' = [at EXCEPT ![t] = IF element[victim[t]] = None THEN "unbind" ELSE "clear"]
            /\ conn' = [conn EXCEPT ![victim[t]] = "down"] /\ UNCHANGED <<element, victim>>
        BY <1>10, <2>1 DEF CloseClientSocket
      <3>2. victim[t] \in Tokens
        BY <3>1, VictimElement
      <3> QED
        BY <1>0, <3>1, <3>2
    <2>2. CASE conn[victim[t]] # "up"
      BY <1>1, <1>10, <2>2 DEF CloseClientSocket, CloseEnds
    <2> QED
      BY <2>1, <2>2
  <1>11. CASE CloseClears(t) \/ CloseStream(t) \/ CloseUnlists(t)
    BY <1>0, <1>11 DEF CloseClears, CloseStream, CloseUnlists, elemVars
  <1>12. CASE CloseThrows(t)
    BY <1>1, <1>12 DEF CloseThrows
  <1>13. CASE Unbind(t)
    <2>1. /\ at[t] = "unbind"
          /\ at' = [at EXCEPT ![t] = "scan"] \/ at' = [at EXCEPT ![t] = "idle"]
          /\ victim' = [victim EXCEPT ![t] = None]
          /\ element' = [element EXCEPT ![victim[t]] = None]
          /\ conn' = [conn EXCEPT ![victim[t]] = "free"]
      BY <1>13 DEF Unbind, CloseEnds
    <2>2. \A u \in Tokens \ {t} : at[u] \in Closing => victim[u] \in Tokens /\ victim[u] # victim[t]
      BY <1>0, <2>1 DEF Locks
    <2> QED
      BY <1>0, <2>1, <2>2
  <1> QED
    BY <1>2, <1>3, <1>4, <1>5, <1>6, <1>7, <1>8, <1>9, <1>10, <1>11, <1>12, <1>13
       DEF Step, Callback, Command, CheckFileInUse, Close

\* The list does not change under the loop but for what the loop itself takes off.
LEMMA IndexStep ==
  ASSUME FileInv, NEW t \in Tokens, Step(t)
  PROVE  IndexOK'
  <1>0. /\ at \in [Tokens -> Places] /\ index \in [Tokens -> Nat]
        /\ mgr \in Tokens \cup {None} /\ Locks /\ IndexOK
    BY DEF FileInv, ThreadTypes
  <1> USE NoneIsNoElement DEF IndexOK, connVars, callVars
  <1>1. ASSUME UNCHANGED <<list, index>>, mgr' = mgr \/ mgr' = None,
               UNCHANGED at \/ \E p \in Places \ {"wait"} : at' = [at EXCEPT ![t] = p]
        PROVE  IndexOK'
    BY <1>0, <1>1
  <1>2. ASSUME UNCHANGED index, mgr' = mgr, mgr \in {None, t},
               \E p \in Places \ {"wait"} : at' = [at EXCEPT ![t] = p]
        PROVE  IndexOK'
    BY <1>0, <1>2 DEF Locks
  <1>3. ASSUME UNCHANGED list, mgr' = mgr,
               index' = [index EXCEPT ![t] = @ + 1],
               UNCHANGED at \/ \E p \in Places \ {"wait"} : at' = [at EXCEPT ![t] = p],
               at[t] # "wait"
        PROVE  IndexOK'
    BY <1>0, <1>3
  <1> USE DEF Goto, Return, Throw, GoClose, CloseEnds, Places, Closing
  <1>4. CASE Connect(t) \/ SendCompleted(t) \/ ReceiveBytes(t) \/ Disconnected(t)
    BY <1>1, <1>4 DEF Connect, SendCompleted, ReceiveBytes, Disconnected
  <1>5. CASE BuildingSocketInvokeElement(t)
    BY <1>2, <1>5 DEF BuildingSocketInvokeElement
  <1>6. CASE ClearName(t) \/ NameFile(t) \/ OpenFile(t) \/ OpenThrows(t)
    BY <1>1, <1>6 DEF ClearName, NameFile, OpenFile, OpenThrows, FileExists
  <1>7. CASE OtherCommand(t) \/ DoData(t) \/ DoSendResult(t)
    BY <1>1, <1>7 DEF OtherCommand, DoData, DoSendResult
  <1>8. CASE DoEof(t) \/ \E f \in Files : DoUpload(t, f)
    BY <1>1, <1>8 DEF DoEof, DoUpload, StreamClosed, FileExists
  <1>9. CASE IsFileInUse(t) \/ ProbeEnds(t) \/ LockOther(t)
    BY <1>1, <1>9 DEF IsFileInUse, ProbeEnds, LockOther
  <1>10. CASE LockMgr(t) \/ ScanEnds(t)
    <2>1. \/ mgr' = t /\ index' = [index EXCEPT ![t] = 1] /\ at' = [at EXCEPT ![t] = "scan"]
          \/ mgr' = None /\ index' = [index EXCEPT ![t] = 0] /\ \E p \in {"open", "respond"} : at' = [at EXCEPT ![t] = p]
      BY <1>10 DEF LockMgr, ScanEnds
    <2>2. UNCHANGED list
      BY <1>10 DEF LockMgr, ScanEnds
    <2> QED
      BY <1>0, <2>1, <2>2
  <1>11. CASE ScanElement(t)
    <2>1. at[t] = "scan" /\ index[t] <= Len(list) /\ UNCHANGED <<list, mgr>>
      BY <1>11 DEF ScanElement
    <2>2. CASE name[list[index[t]]] = fileName[t]
      BY <1>0, <1>11, <2>1, <2>2 DEF ScanElement
    <2>3. CASE name[list[index[t]]] # fileName[t]
      BY <1>3, <1>11, <2>1, <2>3 DEF ScanElement
    <2> QED
      BY <2>2, <2>3
  <1>12. CASE CloseClientSocket(t)
    <2>1. at[t] = "close" /\ UNCHANGED <<list, mgr>>
      BY <1>12 DEF CloseClientSocket
    <2>2. CASE conn[victim[t]] # "up" /\ mgr = t
      BY <1>3, <1>12, <2>1, <2>2 DEF CloseClientSocket
    <2>3. CASE conn[victim[t]] = "up" \/ mgr # t
      BY <1>1, <1>12, <2>1, <2>3 DEF CloseClientSocket
    <2> QED
      BY <2>2, <2>3
  <1>13. CASE CloseClears(t) \/ CloseStream(t) \/ CloseThrows(t)
    BY <1>1, <1>13 DEF CloseClears, CloseStream, CloseThrows
  <1>14. CASE CloseUnlists(t)
    BY <1>2, <1>14 DEF CloseUnlists
  <1>15. CASE Unbind(t)
    <2>1. at[t] = "unbind" /\ UNCHANGED <<list, mgr>>
      BY <1>15 DEF Unbind
    <2>2. CASE mgr = t
      BY <1>3, <1>15, <2>1, <2>2 DEF Unbind
    <2>3. CASE mgr # t
      BY <1>1, <1>15, <2>1, <2>3 DEF Unbind
    <2> QED
      BY <2>2, <2>3
  <1> QED
    BY <1>4, <1>5, <1>6, <1>7, <1>8, <1>9, <1>10, <1>11, <1>12, <1>13, <1>14, <1>15
       DEF Step, Callback, Command, CheckFileInUse, Close

\* What the threads of other tokens work on is not theirs, so it is enough to look at t.
LEMMA OthersWork ==
  ASSUME FileInv, NEW t \in Tokens,
         ThreadTypes', ElementTypes',
         \A u \in Tokens \ {t} : at'[u] = at[u] /\ this'[u] = this[u] /\ fileName'[u] = fileName[u],
         mgr' \in {mgr, None, t},
         \A e \in Elements :
           \/ name'[e] = name[e] /\ stream'[e] = stream[e]
           \/ name'[e] = name[e] /\ stream'[e] = None
           \/ token[e] = t
           \/ at[token[e]] = "idle" /\ stream'[e] \in {stream[e], None},
         mgr' = t => this'[t] # None /\ fileName'[t] \in Files /\ stream'[this'[t]] = None,
         at'[t] \notin {"idle"} \cup Closing => this'[t] # None,
         at'[t] \in {"check", "probe", "lock", "open", "create"} => fileName'[t] \in Files,
         at'[t] \in {"check", "probe", "lock", "open", "create", "unname"} => stream'[this'[t]] = None,
         at'[t] = "create" => name'[this'[t]] = fileName'[t]
  PROVE  Working'
  <1> SUFFICES ASSUME NEW u \in Tokens
               PROVE  /\ at'[u] \notin {"idle"} \cup Closing \/ mgr' = u => this'[u] # None
                      /\ Uploading(u)' => fileName'[u] \in Files
                      /\ Uploading(u)' \/ at'[u] = "unname" => stream'[this'[u]] = None
                      /\ at'[u] = "create" => name'[this'[u]] = fileName'[u]
    BY DEF Working
  <1>1. CASE u = t
    BY <1>1 DEF Uploading
  <1>2. CASE u # t
    <2>1. /\ at'[u] = at[u] /\ this'[u] = this[u] /\ fileName'[u] = fileName[u]
          /\ mgr' = u => mgr = u
      BY <1>2, NoneIsNoElement
    <2>2. this[u] # None => this[u] \in Elements /\ token[this[u]] = u
      BY DEF FileInv, ThreadTypes, OwnElements
    <2>3. this[u] # None => /\ stream'[this[u]] \in {stream[this[u]], None}
                            /\ at[u] = "create" => name'[this[u]] = name[this[u]]
      BY <1>2, <2>2
    <2> QED
      BY <2>1, <2>3 DEF FileInv, Working, Uploading, Closing
  <1> QED
    BY <1>1, <1>2

LEMMA WorkingStep ==
  ASSUME FileInv, NEW t \in Tokens, Step(t), ThreadTypes', ElementTypes'
  PROVE  Working'
  <1>0. /\ at \in [Tokens -> Places] /\ victim \in [Tokens -> Tokens \cup {None}]
        /\ element \in [Tokens -> Elements \cup {None}]
        /\ this \in [Tokens -> Elements \cup {None}]
        /\ fileName \in [Tokens -> Files \cup {None}]
        /\ name \in [Elements -> Files \cup {None}]
        /\ stream \in [Elements -> Files \cup {None}]
        /\ mgr = t => at[t] \in {"scan", "wait"} \cup Closing
        /\ at[t] \in {"scan", "wait"} => mgr = t
        /\ at[t] \notin {"idle"} \cup Closing \/ mgr = t => this[t] # None /\ token[this[t]] = t
        /\ Uploading(t) => fileName[t] \in Files
        /\ Uploading(t) \/ at[t] = "unname" => stream[this[t]] = None
    BY DEF FileInv, ThreadTypes, ElementTypes, Locks, Working, OwnElements
  <1> USE NoneIsNoElement DEF Uploading, connVars, callVars, elemVars, Closing
  <1>1. CASE Connect(t) \/ SendCompleted(t)
    BY <1>1 DEF Connect, SendCompleted, FileInv, Working
  <1> USE DEF Goto, Return, Throw, GoClose, CloseEnds, Places
  <1>2. CASE ReceiveBytes(t)
    <2>1. /\ at[t] = "idle" /\ mgr # t
          /\ \E p \in {"command", "build"} : at' = [at EXCEPT ![t] = p]
          /\ \E e : e # None /\ this' = [this EXCEPT ![t] = e]
          /\ UNCHANGED <<fileName, name, stream, mgr>>
      <3>1. made + 1 # None
        BY NoneAssumption, BoundsAssumption DEF FileInv, ElementTypes
      <3> QED
        BY <1>0, <1>2, <3>1 DEF ReceiveBytes, Unlocked
    <2> QED
      BY <1>0, <2>1, OthersWork
  <1>3. CASE Disconnected(t)
    BY <1>0, <1>3, OthersWork DEF Disconnected, Unlocked
  <1>4. CASE BuildingSocketInvokeElement(t)
    BY <1>0, <1>4, OthersWork DEF BuildingSocketInvokeElement
  <1>5. CASE OtherCommand(t) \/ DoSendResult(t)
    BY <1>0, <1>5, OthersWork DEF OtherCommand, DoSendResult
  <1>6. CASE DoData(t) \/ OpenThrows(t)
    BY <1>0, <1>6, OthersWork DEF DoData, OpenThrows
  <1>7. CASE DoEof(t)
    BY <1>0, <1>7, OthersWork DEF DoEof, StreamClosed
  <1>8. ASSUME NEW f \in Files, DoUpload(t, f)
        PROVE  Working'
    BY <1>0, <1>8, OthersWork DEF DoUpload, StreamClosed, FileExists
  <1>9. CASE ClearName(t)
    BY <1>0, <1>9, OthersWork DEF ClearName, FileExists
  <1>10. CASE NameFile(t)
    BY <1>0, <1>10, OthersWork DEF NameFile
  <1>11. CASE OpenFile(t)
    BY <1>0, <1>11, OthersWork DEF OpenFile
  <1>12. CASE IsFileInUse(t) \/ ProbeEnds(t) \/ LockMgr(t)
    BY <1>0, <1>12, OthersWork DEF IsFileInUse, ProbeEnds, LockMgr
  <1>13. CASE ScanElement(t) \/ LockOther(t) \/ ScanEnds(t)
    BY <1>0, <1>13, OthersWork DEF ScanElement, LockOther, ScanEnds
  <1>14. CASE CloseClientSocket(t)
    BY <1>0, <1>14, OthersWork DEF CloseClientSocket
  <1>15. CASE CloseClears(t)
    <2>1. /\ at[t] = "clear" /\ at' = [at EXCEPT ![t] = "shut"]
          /\ name' = [name EXCEPT ![element[victim[t]]] = None]
          /\ UNCHANGED <<this, fileName, mgr, stream>>
      BY <1>15 DEF CloseClears
    <2>2. /\ element[victim[t]] \in Elements /\ token[element[victim[t]]] = victim[t]
          /\ victim[t] = t \/ at[victim[t]] = "idle"
      BY <2>1, VictimElement
    <2> QED
      BY <1>0, <2>1, <2>2, OthersWork
  <1>16. CASE CloseStream(t) \/ CloseThrows(t)
    BY <1>0, <1>16, OthersWork DEF CloseStream, CloseThrows
  <1>17. CASE CloseUnlists(t) \/ Unbind(t)
    BY <1>0, <1>17, OthersWork DEF CloseUnlists, Unbind
  <1> QED
    BY <1>1, <1>2, <1>3, <1>4, <1>5, <1>6, <1>7, <1>8, <1>9, <1>10, <1>11, <1>12, <1>13, <1>14,
       <1>15, <1>16, <1>17 DEF Step, Callback, Command, CheckFileInUse, Close

\* The constructor lists an element that is new; Close takes one off.
LEMMA ListStep ==
  ASSUME FileInv, NEW t \in Tokens, Step(t), OwnElements', ElementTypes'
  PROVE  ListOK'
  <1>0. /\ list \in Seq(Made) /\ IsInjective(list)
        /\ at \in [Tokens -> Places] /\ this \in [Tokens -> Elements \cup {None}]
        /\ token \in [Elements -> Tokens \cup {None}] /\ made \in 0..MaxElements
        /\ \A e \in Elements : e > made => token[e] = None
        /\ \A u \in Tokens : at[u] = "build" => ~Contains(list, this[u])
    BY DEF FileInv, ThreadTypes, ElementTypes, ListOK, OwnElements
  <1> USE DEF ListOK, connVars, callVars, elemVars
  <1>1. ASSUME UNCHANGED token,
               list' \in Seq(Made), IsInjective(list'), \A x : Contains(list', x) => Contains(list, x),
               \/ UNCHANGED <<at, this>>
               \/ /\ \E p \in Places \ {"build"} : at' = [at EXCEPT ![t] = p]
                  /\ this' = this \/ this' = [this EXCEPT ![t] = None]
        PROVE  ListOK'
    <2>1. Made' = Made
      BY <1>1 DEF Made
    <2> QED
      BY <1>0, <1>1, <2>1
  <1>2. ASSUME UNCHANGED <<list, token>>,
               \/ UNCHANGED <<at, this>>
               \/ /\ \E p \in Places \ {"build"} : at' = [at EXCEPT ![t] = p]
                  /\ this' = this \/ this' = [this EXCEPT ![t] = None]
        PROVE  ListOK'
    BY <1>0, <1>1, <1>2
  <1> USE DEF Goto, Return, Throw, GoClose, CloseEnds, Places, Closing
  <1>3. CASE Connect(t) \/ SendCompleted(t) \/ Disconnected(t)
    BY <1>2, <1>3 DEF Connect, SendCompleted, Disconnected
  <1>4. CASE ReceiveBytes(t) /\ element[t] # None
    <2>1. /\ at' = [at EXCEPT ![t] = "command"] /\ this' = [this EXCEPT ![t] = element[t]]
          /\ UNCHANGED <<list, token>>
      BY <1>4 DEF ReceiveBytes
    <2> QED
      BY <1>0, <2>1 DEF Made
  <1>5. CASE ReceiveBytes(t) /\ element[t] = None
    <2>1. /\ made < MaxElements /\ UNCHANGED list
          /\ at' = [at EXCEPT ![t] = "build"] /\ this' = [this EXCEPT ![t] = made + 1]
          /\ token' = [token EXCEPT ![made + 1] = t]
      BY <1>5 DEF ReceiveBytes
    <2>2. made + 1 \in Elements /\ made \in Int /\ made + 1 > made
      BY <1>0, <2>1, BoundsAssumption DEF Elements
    <2>3. made + 1 \notin Made
      BY <1>0, <2>2, NoneIsNoElement DEF Made
    <2>4. \A i \in 1..Len(list) : list[i] \in Made
      BY <1>0, ElementOfSeq
    <2>5. ~Contains(list, made + 1)
      BY <2>3, <2>4 DEF Contains
    <2>6. Made \subseteq Made'
      BY <1>0, <2>1, <2>2 DEF Made
    <2>7. list' \in Seq(Made')
      BY <1>0, <2>1, <2>6, SeqMonotonic
    <2> QED
      BY <1>0, <2>1, <2>5, <2>7
  <1>6. CASE BuildingSocketInvokeElement(t)
    <2>1. /\ at[t] = "build" /\ at' = [at EXCEPT ![t] = "command"]
          /\ list' = Append(list, this[t]) /\ UNCHANGED <<this, token>>
      BY <1>6 DEF BuildingSocketInvokeElement
    <2>2. \A u \in Tokens : at[u] = "build" => this[u] \in Elements /\ token[this[u]] = u
      BY <1>0, NoneIsNoElement DEF FileInv, Working, OwnElements
    <2>3. this[t] \in Made /\ ~Contains(list, this[t])
      BY <1>0, <2>1, <2>2 DEF Made
    <2>4. /\ list' \in Seq(Made) /\ IsInjective(list')
          /\ \A x : Contains(list', x) => x = this[t] \/ Contains(list, x)
      BY <1>0, <2>1, <2>3, AppendKeeps
    <2>5. ASSUME NEW u \in Tokens, at'[u] = "build" PROVE ~Contains(list', this'[u])
      <3>1. u # t /\ at[u] = "build"
        BY <1>0, <2>1, <2>5
      <3> QED
        BY <1>0, <2>1, <2>2, <2>4, <3>1
    <2>6. Made' = Made
      BY <2>1 DEF Made
    <2> QED
      BY <2>4, <2>5, <2>6
  <1>7. CASE ClearName(t) \/ NameFile(t) \/ OpenFile(t) \/ OpenThrows(t)
    BY <1>2, <1>7 DEF ClearName, NameFile, OpenFile, OpenThrows, FileExists
  <1>8. CASE OtherCommand(t) \/ DoData(t) \/ DoSendResult(t)
    BY <1>2, <1>8 DEF OtherCommand, DoData, DoSendResult
  <1>9. CASE DoEof(t) \/ \E f \in Files : DoUpload(t, f)
    BY <1>2, <1>9 DEF DoEof, DoUpload, StreamClosed, FileExists
  <1>10. CASE CheckFileInUse(t)
    BY <1>2, <1>10 DEF CheckFileInUse, IsFileInUse, ProbeEnds, LockMgr, ScanElement, LockOther, ScanEnds
  <1>11. CASE CloseClientSocket(t) \/ CloseClears(t) \/ CloseStream(t) \/ CloseThrows(t) \/ Unbind(t)
    BY <1>2, <1>11 DEF CloseClientSocket, CloseClears, CloseStream, CloseThrows, Unbind
  <1>12. CASE CloseUnlists(t)
    <2>1. list' = RemoveFirst(list, element[victim[t]])
      BY <1>12 DEF CloseUnlists
    <2>2. /\ list' \in Seq(Made) /\ IsInjective(list')
          /\ \A x : Contains(list', x) => Contains(list, x)
      BY <1>0, <2>1, RemoveFirstKeeps
    <2> QED
      BY <1>1, <1>12, <2>2 DEF CloseUnlists
  <1> QED
    BY <1>3, <1>4, <1>5, <1>6, <1>7, <1>8, <1>9, <1>10, <1>11, <1>12 DEF Step, Callback, Command, Close

\* m_fileName is set and cleared while nothing is open, or by the Close that goes on to
\* close the file.
LEMMA NamedStep ==
  ASSUME FileInv, NEW t \in Tokens, Step(t), Victims'
  PROVE  OpenIsNamed'
  <1>0. /\ at \in [Tokens -> Places] /\ victim \in [Tokens -> Tokens \cup {None}]
        /\ element \in [Tokens -> Elements \cup {None}]
        /\ this \in [Tokens -> Elements \cup {None}]
        /\ fileName \in [Tokens -> Files \cup {None}]
        /\ name \in [Elements -> Files \cup {None}]
        /\ stream \in [Elements -> Files \cup {None}]
        /\ \A u \in Tokens : at[u] = "shut" => victim[u] \in Tokens /\ (victim[u] = u \/ at[victim[u]] = "idle")
        /\ \A u \in Tokens, v \in Tokens : victim[u] = victim[v] /\ victim[u] # None => u = v
        /\ OpenIsNamed
    BY DEF FileInv, ThreadTypes, ElementTypes, Locks, Closing
  <1> USE NoneIsNoElement DEF connVars, callVars, elemVars
  \* A Close that has cleared the name is still there, unless it is t's own.
  <1>1. ASSUME at[t] # "shut", \A u \in Tokens \ {t} : at'[u] = at[u] /\ victim'[u] = victim[u],
               \A u \in Tokens : at[u] = "shut" => element'[victim[u]] = element[victim[u]],
               NEW e, ClosingAt(e, "shut")
        PROVE  ClosingAt(e, "shut")'
    <2>1. PICK u \in Tokens : at[u] = "shut" /\ element[victim[u]] = e
      BY <1>1 DEF ClosingAt
    <2> QED
      BY <1>1, <2>1 DEF ClosingAt
  <1>2. ASSUME at[t] # "shut", \A u \in Tokens \ {t} : at'[u] = at[u] /\ victim'[u] = victim[u],
               \A u \in Tokens : at[u] = "shut" => element'[victim[u]] = element[victim[u]],
               \A e \in Elements :
                 \/ name'[e] = name[e] /\ stream'[e] \in {stream[e], None}
                 \/ stream'[e] = None
                 \/ ClosingAt(e, "shut")'
        PROVE  OpenIsNamed'
    BY <1>0, <1>1, <1>2 DEF OpenIsNamed
  <1>3. ASSUME element' = element \/ \E u \in Tokens : Unlocked(u) /\ element' = [element EXCEPT ![u] = None]
        PROVE  \A u \in Tokens : at[u] = "shut" => element'[victim[u]] = element[victim[u]]
    BY <1>0, <1>3 DEF Unlocked
  <1>4. CASE SendCompleted(t)
    BY <1>0, <1>2, <1>3, <1>4 DEF SendCompleted, Unlocked
  <1>5. CASE Connect(t)
    <2>1. \A u \in Tokens : at[u] = "shut" => victim[u] # t
      BY <1>5 DEF Connect, FileInv, Victims, Closing
    <2>2. element' = [element EXCEPT ![t] = None] /\ UNCHANGED <<at, victim, name, stream>>
      BY <1>5 DEF Connect
    <2> QED
      BY <1>0, <2>1, <2>2 DEF OpenIsNamed, ClosingAt
  <1> USE DEF Goto, Return, Throw, GoClose, CloseEnds
  <1>6. CASE ReceiveBytes(t) \/ Disconnected(t)
    BY <1>0, <1>2, <1>3, <1>6 DEF ReceiveBytes, Disconnected, Unlocked
  <1>7. CASE BuildingSocketInvokeElement(t)
    <2>1. /\ at[t] = "build" /\ at' = [at EXCEPT ![t] = "command"]
          /\ element' = [element EXCEPT ![t] = this[t]] /\ UNCHANGED <<victim, name, stream>>
      BY <1>7 DEF BuildingSocketInvokeElement
    <2>2. \A u \in Tokens : at[u] = "shut" => victim[u] # t
      BY <1>0, <2>1
    <2> QED
      BY <1>0, <1>2, <2>1, <2>2
  <1>8. CASE OtherCommand(t) \/ DoData(t) \/ DoSendResult(t)
    BY <1>0, <1>2, <1>3, <1>8 DEF OtherCommand, DoData, DoSendResult
  <1>9. CASE DoEof(t) \/ \E f \in Files : DoUpload(t, f)
    BY <1>0, <1>2, <1>3, <1>9 DEF DoEof, DoUpload, StreamClosed
  <1>10. CASE ClearName(t) \/ NameFile(t)
    <2>1. /\ at[t] \in {"unname", "open"}
          /\ \E v : name' = [name EXCEPT ![this[t]] = v]
          /\ \E p : at' = [at EXCEPT ![t] = p]
          /\ UNCHANGED <<element, victim, stream>>
      BY <1>10 DEF ClearName, NameFile
    <2>2. stream[this[t]] = None
      BY <2>1 DEF FileInv, Working, Uploading
    <2> QED
      BY <1>0, <1>2, <1>3, <2>1, <2>2
  <1>11. CASE OpenFile(t)
    <2>1. /\ at[t] = "create" /\ at' = [at EXCEPT ![t] = "respond"]
          /\ stream' = [stream EXCEPT ![this[t]] = fileName[t]]
          /\ UNCHANGED <<element, victim, name>>
      BY <1>11 DEF OpenFile
    <2>2. name[this[t]] = fileName[t]
      BY <2>1 DEF FileInv, Working
    <2>3. \A e \in Elements : ClosingAt(e, "shut") => ClosingAt(e, "shut")'
      BY <1>0, <1>1, <2>1
    <2> QED
      BY <1>0, <2>1, <2>2, <2>3 DEF OpenIsNamed
  <1>12. CASE OpenThrows(t)
    BY <1>0, <1>2, <1>3, <1>12 DEF OpenThrows
  <1>13. CASE CheckFileInUse(t)
    BY <1>0, <1>2, <1>3, <1>13
       DEF CheckFileInUse, IsFileInUse, ProbeEnds, LockMgr, ScanElement, LockOther, ScanEnds
  <1>14. CASE CloseClientSocket(t) \/ CloseUnlists(t)
    BY <1>0, <1>2, <1>3, <1>14 DEF CloseClientSocket, CloseUnlists
  <1>15. CASE CloseClears(t)
    <2>1. /\ at[t] = "clear" /\ at' = [at EXCEPT ![t] = "shut"]
          /\ name' = [name EXCEPT ![element[victim[t]]] = None]
          /\ UNCHANGED <<element, victim, stream>>
      BY <1>15 DEF CloseClears
    <2>2. ClosingAt(element[victim[t]], "shut")'
      BY <1>0, <2>1 DEF ClosingAt
    <2> QED
      BY <1>0, <1>2, <2>1, <2>2
  <1>16. CASE CloseStream(t) \/ CloseThrows(t)
    <2> DEFINE e == element[victim[t]]
    <2>1. /\ at[t] = "shut" /\ \E p : at' = [at EXCEPT ![t] = p]
          /\ victim' = victim \/ victim' = [victim EXCEPT ![t] = None]
          /\ stream' = [stream EXCEPT ![e] = None]
          /\ UNCHANGED <<element, name>>
      BY <1>16 DEF CloseStream, CloseThrows
    <2>2. e \in Elements
      BY <2>1, VictimElement DEF Closing
    <2>3. ASSUME NEW d \in Elements, d # e, ClosingAt(d, "shut") PROVE ClosingAt(d, "shut")'
      <3>1. PICK u \in Tokens : at[u] = "shut" /\ element[victim[u]] = d
        BY <2>3 DEF ClosingAt
      <3>2. u # t
        BY <2>3, <3>1
      <3> QED
        BY <1>0, <2>1, <3>1, <3>2 DEF ClosingAt
    <2> HIDE DEF e
    <2> QED
      BY <1>0, <2>1, <2>2, <2>3 DEF OpenIsNamed
  <1>17. CASE Unbind(t)
    <2>1. /\ at[t] = "unbind" /\ \E p : at' = [at EXCEPT ![t] = p]
          /\ victim' = [victim EXCEPT ![t] = None]
          /\ element' = [element EXCEPT ![victim[t]] = None]
          /\ UNCHANGED <<name, stream>>
      BY <1>17 DEF Unbind
    <2>2. \A u \in Tokens : at[u] = "shut" => victim[u] # victim[t]
      BY <1>0, <2>1
    <2>3. \A u \in Tokens : at[u] = "shut" => element'[victim[u]] = element[victim[u]]
      BY <1>0, <2>1, <2>2
    <2> QED
      BY <1>0, <1>2, <2>1, <2>3
  <1> QED
    BY <1>4, <1>5, <1>6, <1>7, <1>8, <1>9, <1>10, <1>11, <1>12, <1>13, <1>14, <1>15, <1>16, <1>17
       DEF Step, Callback, Command, Close

\* An element is bound when it has been added, and is dropped after it has been taken off.
LEMMA ListedStep ==
  ASSUME FileInv, NEW t \in Tokens, Step(t)
  PROVE  Listed'
  <1>0. /\ at \in [Tokens -> Places] /\ victim \in [Tokens -> Tokens \cup {None}]
        /\ element \in [Tokens -> Elements \cup {None}]
        /\ list \in Seq(Made) /\ Listed
    BY DEF FileInv, ThreadTypes, ElementTypes, ListOK
  <1> USE NoneIsNoElement DEF connVars, callVars, elemVars
  <1>1. ASSUME at[t] # "unbind", UNCHANGED list,
               \A u \in Tokens \ {t} : at'[u] = at[u] /\ victim'[u] = victim[u],
               element' = element \/ element' = [element EXCEPT ![t] = None]
        PROVE  Listed'
    BY <1>0, <1>1 DEF Listed
  <1>2. CASE Connect(t) \/ SendCompleted(t)
    BY <1>0, <1>2 DEF Connect, SendCompleted, Listed
  <1> USE DEF Goto, Return, Throw, GoClose, CloseEnds
  <1>3. CASE ReceiveBytes(t) \/ Disconnected(t)
    BY <1>0, <1>1, <1>3 DEF ReceiveBytes, Disconnected, Unlocked
  <1>4. CASE BuildingSocketInvokeElement(t)
    <2>1. /\ at[t] = "build" /\ at' = [at EXCEPT ![t] = "command"]
          /\ list' = Append(list, this[t]) /\ element' = [element EXCEPT ![t] = this[t]]
          /\ UNCHANGED victim
      BY <1>4 DEF BuildingSocketInvokeElement
    <2>4. this[t] # None
      BY <2>1 DEF FileInv, Working, Closing
    <2>2. this[t] \in Made
      BY <2>4 DEF FileInv, ThreadTypes, OwnElements, Made
    <2>3. Contains(list', this[t]) /\ \A x : Contains(list, x) => Contains(list', x)
      BY <1>0, <2>1, <2>2, AppendKeeps
    <2> QED
      BY <1>0, <2>1, <2>3 DEF Listed
  <1>5. CASE ClearName(t) \/ NameFile(t) \/ OpenFile(t) \/ OpenThrows(t)
    BY <1>0, <1>1, <1>5 DEF ClearName, NameFile, OpenFile, OpenThrows
  <1>6. CASE OtherCommand(t) \/ DoData(t) \/ DoSendResult(t)
    BY <1>0, <1>1, <1>6 DEF OtherCommand, DoData, DoSendResult
  <1>7. CASE DoEof(t) \/ \E f \in Files : DoUpload(t, f)
    BY <1>0, <1>1, <1>7 DEF DoEof, DoUpload, StreamClosed
  <1>8. CASE CheckFileInUse(t)
    BY <1>0, <1>1, <1>8 DEF CheckFileInUse, IsFileInUse, ProbeEnds, LockMgr, ScanElement, LockOther, ScanEnds
  <1>9. CASE CloseClientSocket(t) \/ CloseClears(t) \/ CloseStream(t) \/ CloseThrows(t)
    BY <1>0, <1>1, <1>9 DEF CloseClientSocket, CloseClears, CloseStream, CloseThrows
  <1>10. CASE CloseUnlists(t)
    <2>1. /\ at[t] = "unlist" /\ at' = [at EXCEPT ![t] = "unbind"]
          /\ list' = RemoveFirst(list, element[victim[t]]) /\ UNCHANGED <<element, victim>>
      BY <1>10 DEF CloseUnlists
    <2>2. \A x : x # element[victim[t]] /\ Contains(list, x) => Contains(list', x)
      BY <1>0, <2>1, RemoveFirstKeeps
    <2>3. ASSUME NEW u \in Tokens, element[u] = element[victim[t]], element[u] # None PROVE victim[t] = u
      <3>1. victim[t] \in Tokens
        BY <2>1, VictimElement DEF Closing
      <3> QED
        BY <2>3, <3>1 DEF FileInv, OwnElements
    <2> QED
      BY <1>0, <2>1, <2>2, <2>3 DEF Listed
  <1>11. CASE Unbind(t)
    <2>1. /\ at[t] = "unbind" /\ \E p : at' = [at EXCEPT ![t] = p]
          /\ victim' = [victim EXCEPT ![t] = None]
          /\ element' = [element EXCEPT ![victim[t]] = None] /\ UNCHANGED list
      BY <1>11 DEF Unbind
    <2> QED
      BY <1>0, <2>1 DEF Listed
  <1> QED
    BY <1>2, <1>3, <1>4, <1>5, <1>6, <1>7, <1>8, <1>9, <1>10, <1>11 DEF Step, Callback, Command, Close

-----------------------------------------------------------------------------
\* Every step of every thread preserves the invariant.
THEOREM FileInvStep == FileInv /\ [Next]_vars => FileInv'
  <1> SUFFICES ASSUME FileInv, [Next]_vars PROVE FileInv'
    OBVIOUS
  <1>1. CASE Next
    <2>1. PICK t \in Tokens : Step(t)
      BY <1>1 DEF Next, Step
    <2>2. PlainTypes' /\ ThreadTypes' /\ ElementTypes'
      BY <2>1, PlainTypesStep, ThreadTypesStep, ElementTypesStep
    <2>3. OwnElements' /\ Locks' /\ Victims' /\ IndexOK' /\ Working'
      BY <2>1, <2>2, OwnElementsStep, LocksStep, VictimsStep, IndexStep, WorkingStep
    <2>4. ListOK' /\ OpenIsNamed' /\ Listed'
      BY <2>1, <2>2, <2>3, ListStep, NamedStep, ListedStep
    <2> QED
      BY <2>2, <2>3, <2>4 DEF FileInv
  <1>2. CASE UNCHANGED vars
    <2> USE <1>2 DEF vars, connVars, callVars, elemVars, FileInv
    <2>1. PlainTypes' /\ ThreadTypes' /\ ElementTypes'
      BY DEF PlainTypes, ThreadTypes, ElementTypes
    <2>2. OwnElements' /\ Locks' /\ Victims' /\ IndexOK'
      BY DEF OwnElements, Locks, Victims, IndexOK
    <2>3. Working' /\ ListOK' /\ OpenIsNamed' /\ Listed'
      BY DEF Working, Uploading, ListOK, Made, OpenIsNamed, Listed, ClosingAt
    <2> QED
      BY <2>1, <2>2, <2>3
  <1> QED
    BY <1>1, <1>2

\* Whatever files are taken over, by whom and in what order, on whatever stale name, and
\* wherever Close is interrupted: an open file has the name CheckFileInUse compares, until
\* the Close that holds its token's lock is about to close it.
THEOREM OpenFilesAreNamed == Spec => []OpenIsNamed
  <1>1. FileInv => OpenIsNamed
    BY DEF FileInv
  <1> QED
    BY <1>1, FileInvInit, FileInvStep, PTL DEF Spec

\* Whatever other callbacks take over and close at the same time, the element that a
\* connection has stays on the list in which CheckFileInUse looks for it, until its own
\* Close has taken it off and the setter is about to drop it.
THEOREM ElementsInServiceAreListed == Spec => []BoundIsListed
  <1>1. FileInv => BoundIsListed
    BY DEF FileInv, Listed, BoundIsListed, ClosingAt
  <1> QED
    BY <1>1, FileInvInit, FileInvStep, PTL DEF Spec

\* What a thread closes it closes with the lock of that token: no two threads close one
\* connection at a time, and the connection's own callback rests while another closes it.
TokensAreLocked ==
  /\ \A t, u \in Tokens : victim[t] = victim[u] /\ victim[t] # None => t = u
  /\ \A t \in Tokens : victim[t] \notin {None, t} => at[victim[t]] = "idle"

THEOREM ClosersExclude == Spec => []TokensAreLocked
  <1>1. FileInv => TokensAreLocked
    BY DEF FileInv, ThreadTypes, Locks, TokensAreLocked
  <1> QED
    BY <1>1, FileInvInit, FileInvStep, PTL DEF Spec

\* Each element is at most once on the list, so that a closed one is off it after one
\* Remove; and the rest is typed.
THEOREM FilesTypeOK == Spec => []TypeOK
  <1>1. FileInv => TypeOK
    <2> SUFFICES ASSUME FileInv PROVE TypeOK
      OBVIOUS
    <2>1. list \in Seq(Elements)
      BY SeqMonotonic DEF FileInv, ListOK, Made
    <2> QED
      BY <2>1 DEF FileInv, PlainTypes, ThreadTypes, ElementTypes, ListOK, TypeOK
  <1> QED
    BY <1>1, FileInvInit, FileInvStep, PTL DEF Spec
================================================================================
