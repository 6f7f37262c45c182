-------------------------- MODULE Connections_proofs --------------------------
(***************************************************************************)
(* Proofs about connections at the two ends: the server's, taken from a    *)
(* pool (IocpConnections), for every finite set of tokens, and the         *)
(* browser's (SignalRClient), for any calls, heartbeats and transports     *)
(* that the browser lacks.  At both ends what is hard is the end of a      *)
(* connection: that it gives back, or leaves, exactly what it had.         *)
(***************************************************************************)
EXTENDS IocpConnections, SignalRClient, FiniteSetTheorems, TLAPS

-----------------------------------------------------------------------------
(* IocpConnections.  The inductive invariant is ConnInv; none of its four    *)
(* parts is inductive without the others: that Release cannot overflow the   *)
(* semaphore needs the balance, that BindSocket adds a holder of a permit    *)
(* needs the partition (the popped token holds none), and so on.             *)

ConnInv == TypeOK /\ PermitsBalance /\ PoolPartition /\ OnlineExact

\* The permits held by connections are a finite set, hence countable.
LEMMA HolderCount ==
  /\ IsFiniteSet(HasPermit)
  /\ Cardinality(HasPermit) \in Nat
  /\ numConnections \in Nat \ {0}
<1>1. HasPermit \in SUBSET Tokens
  BY DEF HasPermit
<1>2. IsFiniteSet(HasPermit) /\ Cardinality(HasPermit) \in Nat
  BY <1>1, TokensAssumption, FS_Subset, FS_CardinalityType
<1>3. numConnections \in Nat /\ numConnections # 0
  BY TokensAssumption, FS_CardinalityType, FS_EmptySet DEF numConnections
<1> QED
  BY <1>2, <1>3

\* Only BindSocket gives a token a permit of its own.
LEMMA HolderAdded ==
  ASSUME TypeOK, NEW t \in Tokens, t \notin HasPermit,
         sock' = [sock EXCEPT ![t] = TRUE], UNCHANGED <<closing, lost>>
  PROVE  Cardinality(HasPermit') = Cardinality(HasPermit) + 1
<1>1. HasPermit' = HasPermit \cup {t}
  BY DEF HasPermit, Ended, TypeOK
<1> QED
  BY <1>1, HolderCount, FS_AddElement

\* Only Release takes it away.
LEMMA HolderRemoved ==
  ASSUME TypeOK, NEW t \in Tokens, t \in HasPermit, ~sock[t], sock' = sock,
         closing[t] = "shut", t \notin lost, UNCHANGED lost,
         closing' = [closing EXCEPT ![t] = "released"]
  PROVE  Cardinality(HasPermit') = Cardinality(HasPermit) - 1
<1>1. HasPermit' = HasPermit \ {t}
  BY DEF HasPermit, Ended, TypeOK
<1>2. HasPermit # {}
  OBVIOUS
<1> QED
  BY <1>1, <1>2, HolderCount, FS_RemoveElement, FS_EmptySet

\* The invariant holds when all tokens are on the stack.
LEMMA InitInv == Init => ConnInv
<1> SUFFICES ASSUME Init PROVE ConnInv
  OBVIOUS
<1>1. TypeOK
  BY HolderCount DEF Init, TypeOK, AccStates, CloseStates
<1>2. HasPermit = {}
  BY DEF Init, HasPermit, Ended
<1>3. PermitsBalance
  BY <1>2, FS_EmptySet, HolderCount DEF Init, PermitsBalance, AcceptorHasPermit
<1>4. PoolPartition /\ OnlineExact
  BY TokensAssumption DEF Init, PoolPartition, OnlineExact, InHand, Ended
<1> QED
  BY <1>1, <1>3, <1>4 DEF ConnInv

-----------------------------------------------------------------------------
(* Each group of actions preserves the invariant. *)

\* The accept loop: WaitOne, accept, Pop, Add, BindSocket and the first receive.
LEMMA AcceptingStep == ConnInv /\ Accepting => ConnInv'
<1> SUFFICES ASSUME ConnInv, Accepting PROVE ConnInv'
  OBVIOUS
<1> USE DEF ConnInv, Ended
<1>1. CASE WaitOne \/ Accepted \/ AcceptFailed \/ PopEmpty
  <2> USE <1>1 DEF WaitOne, Accepted, AcceptFailed, PopEmpty, ioVars
  <2>1. TypeOK'
    BY DEF TypeOK, AccStates
  <2>2. HasPermit' = HasPermit
    BY DEF HasPermit
  <2>3. PermitsBalance'
    BY <2>2, HolderCount DEF PermitsBalance, AcceptorHasPermit, TypeOK
  <2>4. PoolPartition' /\ OnlineExact'
    BY DEF PoolPartition, OnlineExact, InHand
  <2> QED
    BY <2>1, <2>3, <2>4
<1>2. CASE PopToken
  <2>1. PICK t \in Tokens : /\ pool[t] > 0
                            /\ pool' = [pool EXCEPT ![t] = @ - 1]
                            /\ hand' = t
    BY <1>2 DEF PopToken
  <2> USE <1>2, <2>1 DEF PopToken, ioVars
  <2>2. TypeOK'
    BY DEF TypeOK, AccStates
  <2>3. HasPermit' = HasPermit
    BY DEF HasPermit
  <2>4. PermitsBalance'
    BY <2>3 DEF PermitsBalance, AcceptorHasPermit
  <2>5. PoolPartition' /\ OnlineExact'
    BY DEF PoolPartition, OnlineExact, InHand, TypeOK
  <2> QED
    BY <2>2, <2>4, <2>5
<1>3. CASE AddOnline
  <2> USE <1>3 DEF AddOnline, ioVars
  <2>1. TypeOK'
    BY DEF TypeOK, AccStates
  <2>2. HasPermit' = HasPermit
    BY DEF HasPermit
  <2>3. PermitsBalance'
    BY <2>2 DEF PermitsBalance, AcceptorHasPermit
  <2>4. PoolPartition' /\ OnlineExact'
    BY DEF PoolPartition, OnlineExact, InHand, TypeOK
  <2> QED
    BY <2>1, <2>3, <2>4
<1>4. CASE BindSocket
  <2> USE <1>4 DEF BindSocket, ioVars
  <2>1. TypeOK' /\ hand \in Tokens
    BY DEF TypeOK, AccStates
  <2>2. hand \notin HasPermit
    BY <2>1 DEF HasPermit, PoolPartition, InHand
  <2>3. Cardinality(HasPermit') = Cardinality(HasPermit) + 1
    BY <2>1, <2>2, HolderAdded
  <2>4. PermitsBalance'
    BY <2>3, HolderCount DEF PermitsBalance, AcceptorHasPermit, TypeOK
  <2>5. PoolPartition' /\ OnlineExact'
    BY <2>1 DEF PoolPartition, OnlineExact, InHand, TypeOK
  <2> QED
    BY <2>1, <2>4, <2>5
<1>5. CASE PostFirstReceive
  <2> USE <1>5 DEF PostFirstReceive
  <2>1. TypeOK'
    BY DEF TypeOK, AccStates, Posted, Ops, Eras
  <2>2. HasPermit' = HasPermit
    BY DEF HasPermit
  <2>3. PermitsBalance'
    BY <2>2 DEF PermitsBalance, AcceptorHasPermit
  <2>4. PoolPartition' /\ OnlineExact'
    BY DEF PoolPartition, OnlineExact, InHand
  <2> QED
    BY <2>1, <2>3, <2>4
<1> QED
  BY <1>1, <1>2, <1>3, <1>4, <1>5 DEF Accepting

\* The permit of a connection is not free.
LEMMA NotFull ==
  ASSUME TypeOK, PermitsBalance, NEW t \in HasPermit
  PROVE  sem < numConnections
<1>1. Cardinality(HasPermit) \in Nat /\ Cardinality(HasPermit) # 0
  BY HolderCount, FS_EmptySet
<1>2. PermitsBalance /\ sem \in Nat
  BY DEF TypeOK
<1> QED
  BY <1>1, <1>2, HolderCount DEF PermitsBalance

\* What one connection gives back, the semaphore has.
LEMMA PermitGiven ==
  ASSUME PermitsBalance, sem \in Nat, sem' = sem + 1, acc' = acc,
         Cardinality(HasPermit') = Cardinality(HasPermit) - 1
  PROVE  PermitsBalance'
<1>1. AcceptorHasPermit' = AcceptorHasPermit
  BY DEF AcceptorHasPermit
<1>2. (IF AcceptorHasPermit THEN 1 ELSE 0) \in Nat /\ Cardinality(HasPermit) \in Nat
  BY HolderCount
<1> QED
  BY <1>1, <1>2, HolderCount DEF PermitsBalance

\* The rest of CloseClientSocket: Close of the element, Release, Push and Remove.
LEMMA ClosingStep ==
  ASSUME ConnInv, NEW t \in Tokens, Closing(t)
  PROVE  ConnInv'
<1> USE DEF ConnInv
<1>1. CASE Release(t)
  <2> USE <1>1 DEF Release, ioVars
  <2>1. t \in HasPermit /\ ~sock[t] /\ t \notin lost
    BY DEF HasPermit, PoolPartition, Ended
  <2>2. sem < numConnections
    BY <2>1, NotFull
  <2>3. Cardinality(HasPermit') = Cardinality(HasPermit) - 1
    BY <2>1, <2>2, HolderRemoved
  <2>4. TypeOK'
    <3>1. sem' \in Nat
      BY <2>2 DEF TypeOK
    <3>2. closing' \in [Tokens -> CloseStates]
      BY <2>2 DEF TypeOK, CloseStates
    <3> QED
      BY <2>2, <3>1, <3>2 DEF TypeOK
  <2>5. PermitsBalance'
    <3>1. PermitsBalance /\ sem \in Nat /\ sem' = sem + 1 /\ acc' = acc
      BY <2>2 DEF TypeOK
    <3> HIDE <1>1 DEF Release, ConnInv
    <3> QED
      BY <2>3, <3>1, PermitGiven
  <2>6. PoolPartition'
    BY <2>1, <2>2 DEF PoolPartition, InHand, Ended, TypeOK
  <2>7. OnlineExact'
    BY <2>1, <2>2 DEF OnlineExact, TypeOK
  <2> QED
    BY <2>4, <2>5, <2>6, <2>7
<1>2. CASE PushToken(t)
  <2> USE <1>2 DEF PushToken, ioVars, Ended
  <2>1. TypeOK'
    <3>1. pool' \in [Tokens -> Nat] /\ closing' \in [Tokens -> CloseStates]
      BY DEF TypeOK, CloseStates
    <3> QED
      BY <3>1 DEF TypeOK
  <2>2. HasPermit' = HasPermit
    BY DEF HasPermit, TypeOK
  <2>3. PermitsBalance'
    BY <2>2 DEF PermitsBalance, AcceptorHasPermit
  <2>4. PoolPartition'
    BY DEF PoolPartition, InHand, TypeOK
  <2>5. OnlineExact'
    BY DEF OnlineExact, TypeOK
  <2> QED
    BY <2>1, <2>3, <2>4, <2>5
<1>3. CASE RemoveOnline(t)
  <2> USE <1>3 DEF RemoveOnline, ioVars, Ended
  <2>1. TypeOK'
    <3>1. (IF online[t] = 0 THEN 0 ELSE online[t] - 1) \in Nat
      <4>1. online[t] \in Nat
        BY DEF TypeOK
      <4>2. CASE online[t] = 0
        BY <4>2
      <4>3. CASE online[t] # 0
        BY <4>1, <4>3
      <4> QED
        BY <4>2, <4>3
    <3>2. online' \in [Tokens -> Nat]
      <4>1. online' = [online EXCEPT ![t] = IF online[t] = 0 THEN 0 ELSE online[t] - 1]
        OBVIOUS
      <4> HIDE <1>3 DEF RemoveOnline
      <4> QED
        BY <3>1, <4>1 DEF TypeOK
    <3>3. closing' \in [Tokens -> CloseStates]
      BY DEF TypeOK, CloseStates
    <3> QED
      BY <3>2, <3>3 DEF TypeOK
  <2>2. HasPermit' = HasPermit
    BY DEF HasPermit, TypeOK
  <2>3. PermitsBalance'
    BY <2>2 DEF PermitsBalance, AcceptorHasPermit
  <2>4. PoolPartition'
    BY DEF PoolPartition, InHand, TypeOK
  <2>5. OnlineExact'
    BY DEF OnlineExact, PoolPartition, TypeOK
  <2> QED
    BY <2>1, <2>3, <2>4, <2>5
<1>4. CASE CloseElement(t)
  <2> USE <1>4 DEF CloseElement, ioVars, Ended
  <2>1. TypeOK'
    BY DEF TypeOK, CloseStates
  <2>2. HasPermit' = HasPermit
    BY DEF HasPermit, TypeOK
  <2>3. PermitsBalance'
    BY <2>2 DEF PermitsBalance, AcceptorHasPermit
  <2>4. PoolPartition' /\ OnlineExact'
    BY DEF PoolPartition, OnlineExact, InHand, TypeOK
  <2> QED
    BY <2>1, <2>3, <2>4
<1>5. CASE ElementThrows(t)
  <2> USE <1>5 DEF ElementThrows, ioVars, Ended
  <2>1. TypeOK'
    BY DEF TypeOK, CloseStates
  <2>2. HasPermit' = HasPermit
    BY DEF HasPermit, TypeOK
  <2>3. PermitsBalance'
    BY <2>2 DEF PermitsBalance, AcceptorHasPermit
  <2>4. PoolPartition'
    BY DEF PoolPartition, InHand, TypeOK
  <2>5. OnlineExact'
    BY DEF OnlineExact, PoolPartition, TypeOK
  <2> QED
    BY <2>1, <2>3, <2>4, <2>5
<1> QED
  BY <1>1, <1>2, <1>3, <1>4, <1>5 DEF Closing

\* Whoever closes, with whatever callbacks left, moves the permit from the socket
\* to the close.
LEMMA BeginCloseStep ==
  ASSUME ConnInv, NEW t \in Tokens, closing[t] = "idle",
         NEW left \in [Ops -> [Eras -> Nat]], BeginClose(t, left),
         UNCHANGED <<sem, pool, online, element, lost, acc, hand>>
  PROVE  ConnInv'
<1> USE DEF ConnInv, BeginClose, Ended
<1>1. TypeOK'
  <2>1. op' \in [Tokens -> [Ops -> Eras \cup {"none"}]]
    BY DEF TypeOK, Eras
  <2>2. cb' \in [Tokens -> [Ops -> [Eras -> Nat]]]
    BY DEF TypeOK, Eras
  <2> QED
    BY <2>1, <2>2 DEF TypeOK, CloseStates
<1>2. HasPermit' = HasPermit
  BY DEF HasPermit, TypeOK
<1>3. PermitsBalance'
  BY <1>2 DEF PermitsBalance, AcceptorHasPermit
<1>4. PoolPartition' /\ OnlineExact'
  BY DEF PoolPartition, OnlineExact, InHand, TypeOK
<1> QED
  BY <1>1, <1>3, <1>4

\* What only touches elements, operations and callbacks disturbs types only.
LEMMA IoStep ==
  ASSUME ConnInv, TypeOK', UNCHANGED <<sem, pool, online, sock, closing, lost, acc, hand>>
  PROVE  ConnInv'
<1> USE DEF Ended
<1>1. HasPermit' = HasPermit
  BY DEF HasPermit
<1> QED
  BY <1>1 DEF ConnInv, PermitsBalance, AcceptorHasPermit, PoolPartition, OnlineExact, InHand

\* Posting an operation, accepted or refused, leaves a table of operations.
LEMMA PostedType ==
  ASSUME NEW f \in [Tokens -> [Ops -> Eras \cup {"none"}]],
         NEW t \in Tokens, NEW o \in Ops
  PROVE  Posted(f, t, o) \in [Tokens -> [Ops -> Eras \cup {"none"}]]
  BY DEF Posted, Eras

\* A completion, and what ProcessReceive and ProcessSend make of it.
LEMMA HandlingStep ==
  ASSUME ConnInv, NEW t \in Tokens, NEW o \in Ops, NEW e \in Eras,
         Handling(t, o, e)
  PROVE  ConnInv'
<1>1. Callback(t, o, e)
  BY DEF Handling, HandleNothing, HandleData, HandleSent, HandleClose
<1>2. Left(t, o, e) \in [Ops -> [Eras -> Nat]]
  BY <1>1 DEF ConnInv, TypeOK, Callback, Left
<1>3. CASE HandleNothing(t, o, e)
  <2>1. TypeOK'
    BY <1>2, <1>3 DEF HandleNothing, ConnInv, TypeOK
  <2> QED
    BY <1>3, <2>1, IoStep DEF HandleNothing
<1>4. CASE o = "Receive" /\ HandleData(t, e)
  <2>1. PICK answered \in {op, Posted(op, t, "Send")} :
           op' = Posted(answered, t, "Receive")
    BY <1>4 DEF HandleData
  <2>2. answered \in [Tokens -> [Ops -> Eras \cup {"none"}]]
    <3>1. op \in [Tokens -> [Ops -> Eras \cup {"none"}]] /\ "Send" \in Ops
      BY DEF ConnInv, TypeOK, Ops
    <3> QED
      BY <2>1, <3>1, PostedType
  <2>3. op' \in [Tokens -> [Ops -> Eras \cup {"none"}]]
    BY <2>1, <2>2, PostedType DEF Ops
  <2>4. TypeOK'
    BY <1>2, <1>4, <2>3 DEF HandleData, ConnInv, TypeOK
  <2> QED
    BY <1>4, <2>4, IoStep DEF HandleData
<1>5. CASE o = "Send" /\ HandleSent(t, e)
  <2>1. op' \in [Tokens -> [Ops -> Eras \cup {"none"}]]
    <3>1. op \in [Tokens -> [Ops -> Eras \cup {"none"}]] /\ "Send" \in Ops
      BY DEF ConnInv, TypeOK, Ops
    <3> QED
      BY <1>5, <3>1, PostedType DEF HandleSent
  <2>2. TypeOK'
    BY <1>2, <1>5, <2>1 DEF HandleSent, ConnInv, TypeOK
  <2> QED
    BY <1>5, <2>2, IoStep DEF HandleSent
<1>6. CASE HandleClose(t, o, e)
  BY <1>1, <1>2, <1>6, BeginCloseStep DEF HandleClose, Callback
<1> QED
  BY <1>3, <1>4, <1>5, <1>6 DEF Handling

\* Every step preserves the invariant.
LEMMA NextStep == ConnInv /\ [Next]_vars => ConnInv'
<1> SUFFICES ASSUME ConnInv, [Next]_vars PROVE ConnInv'
  OBVIOUS
<1>1. CASE Accepting
  BY <1>1, AcceptingStep
<1>2. ASSUME NEW t \in Tokens, Closing(t) PROVE ConnInv'
  BY <1>2, ClosingStep
<1>3. ASSUME NEW t \in Tokens, CloseByOther(t) PROVE ConnInv'
  <2>1. cb[t] \in [Ops -> [Eras -> Nat]]
    BY DEF ConnInv, TypeOK
  <2> QED
    BY <1>3, <2>1, BeginCloseStep DEF CloseByOther
<1>4. ASSUME NEW t \in Tokens, NEW o \in Ops, Complete(t, o) PROVE ConnInv'
  <2>1. op[t][o] \in Eras
    BY <1>4 DEF Complete, ConnInv, TypeOK
  <2>2. TypeOK'
    BY <1>4, <2>1 DEF Complete, ConnInv, TypeOK
  <2> QED
    BY <1>4, <2>2, IoStep DEF Complete
<1>5. ASSUME NEW t \in Tokens, NEW o \in Ops, NEW e \in Eras, Handling(t, o, e)
      PROVE  ConnInv'
  BY <1>5, HandlingStep
<1>6. CASE UNCHANGED vars
  <2>1. TypeOK'
    BY <1>6 DEF vars, ConnInv, TypeOK
  <2> QED
    BY <1>6, <2>1, IoStep DEF vars
<1> QED
  BY <1>1, <1>2, <1>3, <1>4, <1>5, <1>6 DEF Next

-----------------------------------------------------------------------------
\* So it holds in every state of every behaviour.
LEMMA Invariance == Spec => []ConnInv
  BY InitInv, NextStep, PTL DEF Spec

\* Type correctness, and with it that the accept loop has a token in hand exactly
\* between Pop and the return to WaitOne.
THEOREM ConnTypeOK == Spec => []TypeOK
<1>1. ConnInv => TypeOK
  BY DEF ConnInv
<1> QED
  BY <1>1, Invariance, PTL

\* Permits are conserved: Release can never exceed the maximum of the semaphore,
\* whatever the order of closes, late callbacks and accepts.
THEOREM PermitsConserved == Spec => []PermitsBalance
<1>1. ConnInv => PermitsBalance
  BY DEF ConnInv
<1> QED
  BY <1>1, Invariance, PTL

\* No token is in the pool twice or in the pool and in use.
THEOREM PoolNeverShares == Spec => []PoolPartition
<1>1. ConnInv => PoolPartition
  BY DEF ConnInv
<1> QED
  BY <1>1, Invariance, PTL

\* The daemon's list is exact up to the closes in flight.
THEOREM OnlineListIsExact == Spec => []OnlineExact
<1>1. ConnInv => OnlineExact
  BY DEF ConnInv
<1> QED
  BY <1>1, Invariance, PTL
-----------------------------------------------------------------------------
(* Every step is a step of ConnectionPool or changes nothing that it sees. *)

View == [t \in Tokens |-> TokenState(t)]

\* The view of one token changes, and nobody else's.
LEMMA ViewOfOne ==
  ASSUME NEW t \in Tokens, \A u \in Tokens \ {t} : TokenState(u)' = TokenState(u)
  PROVE  View' = [View EXCEPT ![t] = TokenState(t)']
BY DEF View

\* Callbacks, and whatever leaves permits, acceptor and tokens as they are.
LEMMA ViewUnchanged ==
  ASSUME UNCHANGED <<sem, acc, hand, sock, closing, lost>>
  PROVE  UNCHANGED Abstract!vars
BY DEF Abstract!vars, Acceptor, TokenState, InHand, Ended

\* The accept loop takes a permit, takes a token and binds it, or stops.
LEMMA AcceptingRefines ==
  ASSUME ConnInv, Accepting
  PROVE  [Abstract!Next]_(Abstract!vars)
<1> USE DEF Ended
<1>1. CASE WaitOne
  <2>1. UNCHANGED View
    BY <1>1 DEF WaitOne, View, TokenState, InHand
  <2>2. Abstract!TakePermit
    BY <1>1, <2>1 DEF WaitOne, Abstract!TakePermit, Acceptor, View
  <2> QED
    BY <2>2 DEF Abstract!Next
<1>2. CASE Accepted
  <2>1. UNCHANGED View /\ UNCHANGED <<sem, Acceptor>>
    BY <1>2 DEF Accepted, View, TokenState, InHand, Acceptor
  <2> QED
    BY <2>1 DEF View, Abstract!vars
<1>3. CASE AcceptFailed \/ PopEmpty
  <2>1. UNCHANGED View /\ UNCHANGED sem /\ Acceptor = "accepting" /\ Acceptor' = "stopped"
    BY <1>3 DEF AcceptFailed, PopEmpty, View, TokenState, InHand, Acceptor
  <2>2. Abstract!Stop
    BY <2>1 DEF Abstract!Stop, View
  <2> QED
    BY <2>2 DEF Abstract!Next
<1>4. CASE PopToken
  <2>1. PICK t \in Tokens : pool[t] > 0 /\ hand' = t
    BY <1>4 DEF PopToken
  <2>2. ~sock[t] /\ ~Ended(t) /\ closing[t] # "released" /\ ~InHand(t)
    BY <2>1 DEF ConnInv, PoolPartition
  <2>3. TokenState(t) = "free" /\ TokenState(t)' = "taken"
    BY <1>4, <2>1, <2>2 DEF PopToken, TokenState, InHand
  <2>4. \A u \in Tokens \ {t} : TokenState(u)' = TokenState(u)
    BY <1>4, <2>1 DEF PopToken, TokenState, InHand
  <2>5. View' = [View EXCEPT ![t] = "taken"] /\ View[t] = "free"
    BY <2>3, <2>4, ViewOfOne DEF View
  <2>6. UNCHANGED sem /\ Acceptor = "accepting" /\ Acceptor' = "binding"
    BY <1>4 DEF PopToken, Acceptor
  <2>7. Abstract!TakeToken(t)
    BY <2>5, <2>6 DEF Abstract!TakeToken, Abstract!Becomes, View
  <2> QED
    BY <2>7 DEF Abstract!Next
<1>5. CASE AddOnline
  <2>1. UNCHANGED View /\ UNCHANGED <<sem, Acceptor>>
    BY <1>5 DEF AddOnline, View, TokenState, InHand, Acceptor
  <2> QED
    BY <2>1 DEF View, Abstract!vars
<1>6. CASE BindSocket
  <2>1. PICK t \in Tokens : t = hand /\ InHand(t)
    BY <1>6 DEF BindSocket, ConnInv, TypeOK, InHand
  <2>2. ~sock[t] /\ ~Ended(t) /\ closing[t] # "released"
    BY <2>1 DEF ConnInv, PoolPartition
  <2>3. sock' = [sock EXCEPT ![t] = TRUE] /\ sock'[t]
    BY <1>6, <2>1 DEF BindSocket, ConnInv, TypeOK
  <2>4. TokenState(t) = "taken" /\ TokenState(t)' = "serving"
    BY <2>1, <2>2, <2>3 DEF TokenState
  <2>5. \A u \in Tokens \ {t} : TokenState(u)' = TokenState(u)
    BY <1>6, <2>1, <2>3 DEF BindSocket, TokenState, InHand, ConnInv, TypeOK
  <2>6. View' = [View EXCEPT ![t] = "serving"] /\ View[t] = "taken"
    BY <2>4, <2>5, ViewOfOne DEF View
  <2>7. UNCHANGED sem /\ Acceptor = "binding" /\ Acceptor' = "waiting"
    BY <1>6 DEF BindSocket, Acceptor
  <2>8. Abstract!Serve(t)
    BY <2>6, <2>7 DEF Abstract!Serve, Abstract!Becomes, View
  <2> QED
    BY <2>8 DEF Abstract!Next
<1>7. CASE PostFirstReceive
  <2>1. UNCHANGED View /\ UNCHANGED <<sem, Acceptor>>
    BY <1>7 DEF PostFirstReceive, View, TokenState, InHand, Acceptor
  <2> QED
    BY <2>1 DEF View, Abstract!vars
<1> QED
  BY <1>1, <1>2, <1>3, <1>4, <1>5, <1>6, <1>7 DEF Accepting

\* Whoever closes a connection, it ends once.
LEMMA BeginCloseRefines ==
  ASSUME ConnInv, NEW t \in Tokens, closing[t] = "idle", NEW left, BeginClose(t, left),
         UNCHANGED <<sem, lost, acc, hand>>
  PROVE  Abstract!Next
<1> USE DEF Ended
<1>1. sock[t] = TRUE /\ closing[t] = "idle"
  BY DEF BeginClose, ConnInv, TypeOK
<1>2. sock'[t] = FALSE /\ closing'[t] = "unset"
  BY DEF BeginClose, ConnInv, TypeOK
<1>3. TokenState(t) = "serving" /\ TokenState(t)' = "ended"
  BY <1>1, <1>2 DEF TokenState, InHand
<1>4. \A u \in Tokens \ {t} : TokenState(u)' = TokenState(u)
  BY DEF BeginClose, TokenState, InHand, ConnInv, TypeOK
<1>5. View' = [View EXCEPT ![t] = "ended"] /\ View[t] = "serving"
  BY <1>3, <1>4, ViewOfOne DEF View
<1>6. Abstract!End(t)
  BY <1>5 DEF Abstract!End, Abstract!Becomes, View, Acceptor
<1> QED
  BY <1>6 DEF Abstract!Next

\* The end of a connection gives its permit back, then its token.
LEMMA ClosingRefines ==
  ASSUME ConnInv, NEW t \in Tokens, Closing(t)
  PROVE  [Abstract!Next]_(Abstract!vars)
<1> USE DEF Ended
<1>1. \A u \in Tokens \ {t} : TokenState(u)' = TokenState(u)
  BY DEF Closing, CloseElement, ElementThrows, Release, PushToken, RemoveOnline,
         TokenState, InHand, ConnInv, TypeOK
<1>2. CASE Release(t)
  <2>1. ~sock[t] /\ t \in HasPermit /\ t \notin lost
    BY <1>2 DEF Release, ConnInv, PoolPartition, HasPermit
  <2>2. sem < numConnections
    BY <2>1, NotFull DEF ConnInv
  <2>3. sem' = sem + 1 /\ closing'[t] = "released" /\ UNCHANGED <<sock, lost, acc, hand>>
    BY <1>2, <2>2 DEF Release, ConnInv, TypeOK
  <2>4. TokenState(t) = "ended" /\ TokenState(t)' = "returning"
    BY <1>2, <2>1, <2>3 DEF Release, TokenState, InHand
  <2>5. View' = [View EXCEPT ![t] = "returning"] /\ View[t] = "ended"
    BY <1>1, <2>4, ViewOfOne DEF View
  <2>6. Abstract!GivePermit(t)
    BY <2>3, <2>5 DEF Abstract!GivePermit, Abstract!Becomes, View, Acceptor
  <2> QED
    BY <2>6 DEF Abstract!Next
<1>3. CASE PushToken(t)
  <2>1. ~sock[t] /\ ~InHand(t) /\ t \notin lost
    BY <1>3 DEF PushToken, ConnInv, PoolPartition
  <2>2. closing'[t] = "pushed" /\ UNCHANGED <<sem, sock, lost, acc, hand>>
    BY <1>3 DEF PushToken, ConnInv, TypeOK
  <2>3. TokenState(t) = "returning" /\ TokenState(t)' = "free"
    BY <1>3, <2>1, <2>2 DEF PushToken, TokenState, InHand
  <2>4. View' = [View EXCEPT ![t] = "free"] /\ View[t] = "returning"
    BY <1>1, <2>3, ViewOfOne DEF View
  <2>5. Abstract!GiveToken(t)
    BY <2>2, <2>4 DEF Abstract!GiveToken, Abstract!Becomes, View, Acceptor
  <2> QED
    BY <2>5 DEF Abstract!Next
<1>4. CASE RemoveOnline(t)
  <2>1. /\ closing[t] = "pushed" /\ closing'[t] = "idle"
        /\ UNCHANGED <<sem, sock, lost, acc, hand>>
    BY <1>4 DEF RemoveOnline, ConnInv, TypeOK
  <2>2. TokenState(t)' = TokenState(t)
    BY <2>1 DEF TokenState, InHand
  <2>3. UNCHANGED View
    BY <1>1, <2>2 DEF View
  <2> QED
    BY <2>1, <2>3 DEF Abstract!vars, View, Acceptor
<1>5. CASE CloseElement(t) \/ ElementThrows(t)
  <2>1. UNCHANGED <<sem, acc, hand, sock>>
    BY <1>5 DEF CloseElement, ElementThrows
  <2>2. Ended(t) /\ Ended(t)'
    BY <1>5 DEF CloseElement, ElementThrows, ConnInv, TypeOK
  <2>3. TokenState(t)' = TokenState(t)
    BY <2>1, <2>2 DEF TokenState
  <2>4. UNCHANGED View
    BY <1>1, <2>3 DEF View
  <2> QED
    BY <2>1, <2>4 DEF Abstract!vars, View, Acceptor
<1> QED
  BY <1>2, <1>3, <1>4, <1>5 DEF Closing

\* The initial states are those of a pool with nothing in use.
LEMMA InitRefines == Init => Abstract!Init
BY DEF Init, Abstract!Init, Acceptor, TokenState, InHand, Ended

\* Every step.
LEMMA StepRefines ==
  ASSUME ConnInv, [Next]_vars
  PROVE  [Abstract!Next]_(Abstract!vars)
<1>1. CASE Accepting
  BY <1>1, AcceptingRefines
<1>2. ASSUME NEW t \in Tokens, Closing(t) PROVE [Abstract!Next]_(Abstract!vars)
  BY <1>2, ClosingRefines
<1>3. ASSUME NEW t \in Tokens, CloseByOther(t) PROVE [Abstract!Next]_(Abstract!vars)
  BY <1>3, BeginCloseRefines DEF CloseByOther
<1>4. ASSUME NEW t \in Tokens, NEW o \in Ops, Complete(t, o)
      PROVE  [Abstract!Next]_(Abstract!vars)
  BY <1>4, ViewUnchanged DEF Complete
<1>5. ASSUME NEW t \in Tokens, NEW o \in Ops, NEW e \in Eras, Handling(t, o, e)
      PROVE  [Abstract!Next]_(Abstract!vars)
  <2>1. CASE HandleNothing(t, o, e) \/ HandleData(t, e) \/ HandleSent(t, e)
    BY <2>1, ViewUnchanged DEF HandleNothing, HandleData, HandleSent
  <2>2. CASE HandleClose(t, o, e)
    BY <2>2, BeginCloseRefines DEF HandleClose, Callback
  <2> QED
    BY <1>5, <2>1, <2>2 DEF Handling
<1>6. CASE UNCHANGED vars
  BY <1>6, ViewUnchanged DEF vars
<1> QED
  BY <1>1, <1>2, <1>3, <1>4, <1>5, <1>6 DEF Next

\* NETIOCPSvr's connections implement ConnectionPool, for any number of tokens.
THEOREM ConnectionsImplementPool == Spec => ImplementsPool
<1>1. ConnInv /\ [Next]_vars => [Abstract!Next]_(Abstract!vars)
  BY StepRefines
<1> QED
  BY <1>1, InitRefines, Invariance, PTL DEF Spec, ImplementsPool, Abstract!Spec

-----------------------------------------------------------------------------
(* SignalRClient.  The inductive invariant is Sound(conn), a predicate on    *)
(* connections, and every function of the client keeps it: the lemmas are    *)
(* named for the functions, and each action is a composition of them.        *)
(* Where a function is called on a connection that is not sound yet, as stop *)
(* is when the disconnect timeout has fired or the last heartbeat is gone,   *)
(* the weaker Consistent is enough.                                          *)

\* A link, and a timer that makes one again, is of the transport in use; so is what the
\* start of a transport leaves pending, and the negotiate request precedes them all.
OneTransport(c) ==
  /\ c.socket # "none" => c.transport = "webSockets"
  /\ c.eventSource # "none" => c.transport = "serverSentEvents"
  /\ c.poll # "none" => c.transport = "longPolling"
  /\ c.reconnectTimer => c.transport \in {"webSockets", "serverSentEvents"}
  /\ c.attemptTimer => c.transport = "serverSentEvents"
  /\ c.reconnectedTimer => c.transport = "longPolling"
  /\ c.monitoring => c.startCompleted /\ c.transport \in {"webSockets", "serverSentEvents"}
  /\ c.negotiateRequest # "none" => c.transport = "none"
  /\ c.startRequest \/ c.transportTimeout # "none" => c.transport # "none"

\* A session needs the page, and a connection without one has no transport.
SessionFits(c) ==
  /\ c.state # "disconnected" => c.pageLoaded
  /\ c.state = "disconnected" =>
       c.transport = "none" /\ c.negotiateRequest = "none" /\ ~c.pingTimer
  /\ ~c.pageLoaded /\ c.deferredStartHandler => c.deferredStarts > 0

\* Whoever waits for the result of a call has a callback, and waits in a session.
WaitersHaveCallbacks(c) ==
  \A v \in Calls : c.calls[v] = "waiting" =>
    c.state # "disconnected" /\ \E callback \in c.invocationCallbacks : callback.call = v

\* What stop needs to end everything, and the two other halves of TimersFitState.
Consistent(c) ==
  /\ c \in Connections
  /\ OneTransport(c) /\ SessionFits(c) /\ WaitersHaveCallbacks(c)
  /\ c.disconnectTimer => c.state = "reconnecting"
Clocked(c) == c.state = "reconnecting" => c.disconnectTimer
Beating(c) == c.state \in {"connected", "reconnecting"} => c.beats # {}

Sound(c) == Consistent(c) /\ Clocked(c) /\ Beating(c)

\* The connection has no link and nothing that would make one.
Unlinked(c) ==
  /\ c.socket = "none" /\ c.eventSource = "none" /\ c.poll = "none"
  /\ ~c.reconnectTimer /\ ~c.attemptTimer /\ ~c.reconnectedTimer

\* Nothing of what the invariant speaks of differs, the links apart.
SameSession(c, d) ==
  /\ d.state = c.state /\ d.pageLoaded = c.pageLoaded
  /\ d.deferredStarts = c.deferredStarts /\ d.deferredStartHandler = c.deferredStartHandler
  /\ d.transport = c.transport /\ d.negotiateRequest = c.negotiateRequest
  /\ d.startRequested = c.startRequested /\ d.startCompleted = c.startCompleted
  /\ d.startRequest = c.startRequest /\ d.transportTimeout = c.transportTimeout
  /\ d.failCalled = c.failCalled /\ d.index = c.index
  /\ d.disconnectTimer = c.disconnectTimer /\ d.monitoring = c.monitoring
  /\ d.beats = c.beats /\ d.beatHandle = c.beatHandle /\ d.pingTimer = c.pingTimer
  /\ d.invocationCallbacks = c.invocationCallbacks /\ d.calls = c.calls
SameLinks(c, d) ==
  /\ d.transport = c.transport
  /\ d.socket = c.socket /\ d.eventSource = c.eventSource /\ d.poll = c.poll
  /\ d.reconnectTimer = c.reconnectTimer /\ d.attemptTimer = c.attemptTimer
  /\ d.reconnectedTimer = c.reconnectedTimer

LEMMA TransportNames ==
  /\ Names = {"webSockets", "serverSentEvents", "foreverFrame", "longPolling"}
  /\ \A i \in 1..4 : Transports[i] \in Names
  /\ "none" \notin Names
  BY DEF Names, Transports

\* An assignment to a field of a value of the field's type.
LEMMA Updated ==
  ASSUME NEW c \in Connections
  PROVE  /\ \A s \in States :
              /\ [c EXCEPT !.state = s] \in Connections
         /\ \A b \in BOOLEAN :
              /\ [c EXCEPT !.pageLoaded = b] \in Connections
              /\ [c EXCEPT !.deferredStartHandler = b] \in Connections
              /\ [c EXCEPT !.startRequested = b] \in Connections
              /\ [c EXCEPT !.startCompleted = b] \in Connections
              /\ [c EXCEPT !.failCalled = b] \in Connections
              /\ [c EXCEPT !.startRequest = b] \in Connections
              /\ [c EXCEPT !.initial = b] \in Connections
              /\ [c EXCEPT !.messageId = b] \in Connections
              /\ [c EXCEPT !.raise = b] \in Connections
              /\ [c EXCEPT !.reconnectedTimer = b] \in Connections
              /\ [c EXCEPT !.attemptTimer = b] \in Connections
              /\ [c EXCEPT !.reconnectTimer = b] \in Connections
              /\ [c EXCEPT !.disconnectTimer = b] \in Connections
              /\ [c EXCEPT !.activated = b] \in Connections
              /\ [c EXCEPT !.monitoring = b] \in Connections
              /\ [c EXCEPT !.pingTimer = b] \in Connections
         /\ \A n \in Nat :
              /\ [c EXCEPT !.deferredStarts = n] \in Connections
              /\ [c EXCEPT !.invocationCallbackId = n] \in Connections
         /\ \A r \in {"none", "pending", "incompatible"} :
              /\ [c EXCEPT !.negotiateRequest = r] \in Connections
         /\ \A i \in 1..4 :
              /\ [c EXCEPT !.index = i] \in Connections
         /\ \A t \in Names \cup {"none"} :
              /\ [c EXCEPT !.transport = t] \in Connections
         /\ \A h \in {"none", "held", "lost"} :
              /\ [c EXCEPT !.transportTimeout = h] \in Connections
         /\ \A l \in Links :
              /\ [c EXCEPT !.socket = l] \in Connections
              /\ [c EXCEPT !.eventSource = l] \in Connections
         /\ \A p \in {"none", "delay", "request"} :
              /\ [c EXCEPT !.poll = p] \in Connections
         /\ \A a \in Times :
              /\ [c EXCEPT !.lastMessageAt = a] \in Connections
              /\ [c EXCEPT !.lastActiveAt = a] \in Connections
         /\ \A B \in SUBSET Beats :
              /\ [c EXCEPT !.beats = B] \in Connections
         /\ \A k \in Beats \cup {NoBeat} :
              /\ [c EXCEPT !.beatHandle = k] \in Connections
         /\ \A S \in SUBSET Sends :
              /\ [c EXCEPT !.invocationCallbacks = S] \in Connections
              /\ [c EXCEPT !.asked = S] \in Connections
         /\ \A v \in [Calls -> Results] :
              /\ [c EXCEPT !.calls = v] \in Connections
  <1>1. ASSUME NEW s \in States
        PROVE  /\ [c EXCEPT !.state = s] \in Connections
    BY DEF Connections
  <1>2. ASSUME NEW b \in BOOLEAN
        PROVE  /\ [c EXCEPT !.pageLoaded = b] \in Connections
               /\ [c EXCEPT !.deferredStartHandler = b] \in Connections
               /\ [c EXCEPT !.startRequested = b] \in Connections
               /\ [c EXCEPT !.startCompleted = b] \in Connections
               /\ [c EXCEPT !.failCalled = b] \in Connections
               /\ [c EXCEPT !.startRequest = b] \in Connections
               /\ [c EXCEPT !.initial = b] \in Connections
               /\ [c EXCEPT !.messageId = b] \in Connections
               /\ [c EXCEPT !.raise = b] \in Connections
               /\ [c EXCEPT !.reconnectedTimer = b] \in Connections
               /\ [c EXCEPT !.attemptTimer = b] \in Connections
               /\ [c EXCEPT !.reconnectTimer = b] \in Connections
               /\ [c EXCEPT !.disconnectTimer = b] \in Connections
               /\ [c EXCEPT !.activated = b] \in Connections
               /\ [c EXCEPT !.monitoring = b] \in Connections
               /\ [c EXCEPT !.pingTimer = b] \in Connections
    <2>1. [c EXCEPT !.pageLoaded = b] \in Connections
      BY DEF Connections
    <2>2. [c EXCEPT !.deferredStartHandler = b] \in Connections
      BY DEF Connections
    <2>3. [c EXCEPT !.startRequested = b] \in Connections
      BY DEF Connections
    <2>4. [c EXCEPT !.startCompleted = b] \in Connections
      BY DEF Connections
    <2>5. [c EXCEPT !.failCalled = b] \in Connections
      BY DEF Connections
    <2>6. [c EXCEPT !.startRequest = b] \in Connections
      BY DEF Connections
    <2>7. [c EXCEPT !.initial = b] \in Connections
      BY DEF Connections
    <2>8. [c EXCEPT !.messageId = b] \in Connections
      BY DEF Connections
    <2>9. [c EXCEPT !.raise = b] \in Connections
      BY DEF Connections
    <2>10. [c EXCEPT !.reconnectedTimer = b] \in Connections
      BY DEF Connections
    <2>11. [c EXCEPT !.attemptTimer = b] \in Connections
      BY DEF Connections
    <2>12. [c EXCEPT !.reconnectTimer = b] \in Connections
      BY DEF Connections
    <2>13. [c EXCEPT !.disconnectTimer = b] \in Connections
      BY DEF Connections
    <2>14. [c EXCEPT !.activated = b] \in Connections
      BY DEF Connections
    <2>15. [c EXCEPT !.monitoring = b] \in Connections
      BY DEF Connections
    <2>16. [c EXCEPT !.pingTimer = b] \in Connections
      BY DEF Connections
    <2> QED
      BY <2>1, <2>2, <2>3, <2>4, <2>5, <2>6, <2>7, <2>8, <2>9, <2>10, <2>11, <2>12, <2>13, <2>14, <2>15, <2>16
  <1>3. ASSUME NEW n \in Nat
        PROVE  /\ [c EXCEPT !.deferredStarts = n] \in Connections
               /\ [c EXCEPT !.invocationCallbackId = n] \in Connections
    BY DEF Connections
  <1>4. ASSUME NEW r \in {"none", "pending", "incompatible"}
        PROVE  /\ [c EXCEPT !.negotiateRequest = r] \in Connections
    BY DEF Connections
  <1>5. ASSUME NEW i \in 1..4
        PROVE  /\ [c EXCEPT !.index = i] \in Connections
    BY DEF Connections
  <1>6. ASSUME NEW t \in Names \cup {"none"}
        PROVE  /\ [c EXCEPT !.transport = t] \in Connections
    BY DEF Connections
  <1>7. ASSUME NEW h \in {"none", "held", "lost"}
        PROVE  /\ [c EXCEPT !.transportTimeout = h] \in Connections
    BY DEF Connections
  <1>8. ASSUME NEW l \in Links
        PROVE  /\ [c EXCEPT !.socket = l] \in Connections
               /\ [c EXCEPT !.eventSource = l] \in Connections
    BY DEF Connections
  <1>9. ASSUME NEW p \in {"none", "delay", "request"}
        PROVE  /\ [c EXCEPT !.poll = p] \in Connections
    BY DEF Connections
  <1>10. ASSUME NEW a \in Times
        PROVE  /\ [c EXCEPT !.lastMessageAt = a] \in Connections
               /\ [c EXCEPT !.lastActiveAt = a] \in Connections
    BY DEF Connections
  <1>11. ASSUME NEW B \in SUBSET Beats
        PROVE  /\ [c EXCEPT !.beats = B] \in Connections
    BY DEF Connections
  <1>12. ASSUME NEW k \in Beats \cup {NoBeat}
        PROVE  /\ [c EXCEPT !.beatHandle = k] \in Connections
    BY DEF Connections
  <1>13. ASSUME NEW S \in SUBSET Sends
        PROVE  /\ [c EXCEPT !.invocationCallbacks = S] \in Connections
               /\ [c EXCEPT !.asked = S] \in Connections
    BY DEF Connections
  <1>14. ASSUME NEW v \in [Calls -> Results]
        PROVE  /\ [c EXCEPT !.calls = v] \in Connections
    BY DEF Connections
  <1> QED
    BY <1>1, <1>2, <1>3, <1>4, <1>5, <1>6, <1>7, <1>8, <1>9, <1>10, <1>11, <1>12, <1>13, <1>14

LEMMA SameSessionSound ==
  ASSUME NEW c, NEW d \in Connections, Consistent(c), SameSession(c, d), OneTransport(d)
  PROVE  /\ Consistent(d)
         /\ Clocked(c) => Clocked(d)
         /\ Beating(c) => Beating(d)
  BY DEF Consistent, SameSession, SessionFits, WaitersHaveCallbacks, Clocked, Beating

-----------------------------------------------------------------------------
LEMMA ClearConsistent ==
  ASSUME NEW c \in Connections,
         \A v \in Calls : c.calls[v] = "waiting" =>
           \E callback \in c.invocationCallbacks : callback.call = v
  PROVE  LET d == clearInvocationCallbacks(c)
         IN  /\ d \in Connections
             /\ \A v \in Calls : d.calls[v] # "waiting"
  <1> DEFINE new == [v \in Calls |->
                 IF /\ c.calls[v] = "waiting"
                    /\ \E callback \in c.invocationCallbacks : callback.call = v
                 THEN "rejected" ELSE c.calls[v]]
             d == [c EXCEPT !.invocationCallbackId = 0, !.invocationCallbacks = {}, !.calls = new]
  <1>1. c.calls \in [Calls -> Results]
    BY DEF Connections
  <1>2. new \in [Calls -> Results] /\ \A v \in Calls : new[v] # "waiting"
    BY <1>1 DEF Results
  <1> HIDE DEF new
  <1>3. d \in Connections
    BY <1>2, Updated
  <1>4. d.calls = new
    BY DEF Connections
  <1>5. clearInvocationCallbacks(c) = d
    BY DEF clearInvocationCallbacks, new
  <1> QED
    BY <1>2, <1>3, <1>4, <1>5

LEMMA TransportStops ==
  ASSUME NEW c, Consistent(c)
  PROVE  LET d == transportStop(c)
         IN  /\ d \in Connections
             /\ SameSession(c, d)
             /\ Unlinked(d)
             /\ OneTransport(d)
  <1>0. c \in Connections /\ OneTransport(c)
    BY DEF Consistent
  <1> DEFINE ws == [c EXCEPT !.reconnectTimer = FALSE, !.socket = "none", !.asked = {}]
             sse == [c EXCEPT !.attemptTimer = FALSE, !.reconnectTimer = FALSE,
                              !.eventSource = "none"]
             lp == [c EXCEPT !.poll = "none", !.reconnectedTimer = FALSE]
  <1>1. CASE c.transport = "webSockets"
    <2>1. transportStop(c) = ws
      BY <1>1 DEF transportStop, webSocketsStop
    <2>2. ws \in Connections
      BY <1>0, Updated DEF Links
    <2>3. SameSession(c, ws) /\ Unlinked(ws)
      BY <1>0, <1>1 DEF Connections, SameSession, OneTransport, Unlinked
    <2>4. OneTransport(ws)
      BY <1>0, <2>3 DEF SameSession, Unlinked, OneTransport
    <2> QED
      BY <2>1, <2>2, <2>3, <2>4
  <1>2. CASE c.transport = "serverSentEvents"
    <2>1. transportStop(c) = sse
      BY <1>2 DEF transportStop, serverSentEventsStop
    <2>2. sse \in Connections
      BY <1>0, Updated DEF Links
    <2>3. SameSession(c, sse) /\ Unlinked(sse)
      BY <1>0, <1>2 DEF Connections, SameSession, OneTransport, Unlinked
    <2>4. OneTransport(sse)
      BY <1>0, <2>3 DEF SameSession, Unlinked, OneTransport
    <2> QED
      BY <2>1, <2>2, <2>3, <2>4
  <1>3. CASE c.transport = "longPolling"
    <2>1. transportStop(c) = lp
      BY <1>3 DEF transportStop, longPollingStop
    <2>2. lp \in Connections
      BY <1>0, Updated DEF Links
    <2>3. SameSession(c, lp) /\ Unlinked(lp)
      BY <1>0, <1>3 DEF Connections, SameSession, OneTransport, Unlinked
    <2>4. OneTransport(lp)
      BY <1>0, <2>3 DEF SameSession, Unlinked, OneTransport
    <2> QED
      BY <2>1, <2>2, <2>3, <2>4
  <1>4. CASE c.transport \notin {"webSockets", "serverSentEvents", "longPolling"}
    <2>1. transportStop(c) = c
      BY <1>4 DEF transportStop
    <2> QED
      BY <2>1, <1>0, <1>4 DEF Connections, SameSession, OneTransport, Unlinked
  <1> QED
    BY <1>1, <1>2, <1>3, <1>4

LEMMA StopSessionSound ==
  ASSUME NEW c, Consistent(c)
  PROVE  LET d == stopSession(c)
         IN  Sound(d) /\ d.state = "disconnected"
  <1> DEFINE b == transportStop(c)
             active == b.activated /\ ~c.monitoring
             left == b.beats \ {c.beatHandle}
             e1 == [b EXCEPT !.deferredStartHandler = FALSE, !.beats = left,
                             !.pingTimer = FALSE, !.activated = active]
             e2 == [e1 EXCEPT !.monitoring = FALSE, !.transport = "none",
                              !.negotiateRequest = "none", !.startRequest = FALSE]
             e3 == [e2 EXCEPT !.transportTimeout = "none", !.messageId = FALSE,
                              !.lastMessageAt = "undefined", !.lastActiveAt = "undefined"]
             e == changeState(e3, e3.state, "disconnected")
             d == clearInvocationCallbacks(e)
  <1>1. /\ b \in Connections
        /\ SameSession(c, b) /\ Unlinked(b)
    BY TransportStops
  <1> HIDE DEF b
  <1>2. active \in BOOLEAN /\ left \in SUBSET Beats
    BY <1>1 DEF Connections
  <1> HIDE DEF active, left
  <1>3. e1 \in Connections
    BY <1>1, <1>2, Updated
  <1>4. /\ Unlinked(e1)
        /\ e1.state = c.state /\ e1.pageLoaded = c.pageLoaded /\ ~e1.deferredStartHandler
        /\ ~e1.pingTimer /\ e1.disconnectTimer = c.disconnectTimer
        /\ e1.invocationCallbacks = c.invocationCallbacks /\ e1.calls = c.calls
    BY <1>1 DEF Unlinked, SameSession, Connections
  <1> HIDE DEF e1
  <1>5. e2 \in Connections
    BY <1>3, Updated
  <1>6. /\ Unlinked(e2)
        /\ e2.state = c.state /\ e2.pageLoaded = c.pageLoaded /\ ~e2.deferredStartHandler
        /\ ~e2.pingTimer /\ e2.disconnectTimer = c.disconnectTimer
        /\ e2.invocationCallbacks = c.invocationCallbacks /\ e2.calls = c.calls
        /\ ~e2.monitoring /\ e2.transport = "none" /\ e2.negotiateRequest = "none"
        /\ ~e2.startRequest
    BY <1>3, <1>4 DEF Unlinked, Connections
  <1> HIDE DEF e2
  <1>7. e3 \in Connections
    BY <1>5, Updated DEF Times
  <1>8. /\ Unlinked(e3)
        /\ e3.state = c.state /\ e3.pageLoaded = c.pageLoaded /\ ~e3.deferredStartHandler
        /\ ~e3.pingTimer /\ e3.disconnectTimer = c.disconnectTimer
        /\ e3.invocationCallbacks = c.invocationCallbacks /\ e3.calls = c.calls
        /\ ~e3.monitoring /\ e3.transport = "none" /\ e3.negotiateRequest = "none"
        /\ ~e3.startRequest
        /\ e3.transportTimeout = "none"
    BY <1>5, <1>6 DEF Unlinked, Connections
  <1>9. stopSession(c) = clearInvocationCallbacks(changeState(e3, e3.state, "disconnected"))
    BY DEF stopSession, e2, e1, left, active, b
  <1> HIDE DEF e3
  <1>10. e = [e3 EXCEPT !.state = "disconnected",
                        !.disconnectTimer = e3.disconnectTimer /\ e3.state # "reconnecting"]
    BY DEF changeState
  <1>11. c.disconnectTimer \in BOOLEAN /\ ~(e3.disconnectTimer /\ e3.state # "reconnecting")
    BY <1>8 DEF Consistent, Connections
  <1>12. e = [e3 EXCEPT !.state = "disconnected", !.disconnectTimer = FALSE]
    BY <1>10, <1>11
  <1> HIDE DEF e
  <1>13. e \in Connections
    <2>1. [e3 EXCEPT !.state = "disconnected", !.disconnectTimer = FALSE] \in Connections
      BY <1>7, Updated DEF States
    <2> QED
      BY <2>1, <1>12
  <1>14. /\ Unlinked(e)
         /\ e.state = "disconnected" /\ ~e.deferredStartHandler
         /\ ~e.pingTimer /\ ~e.disconnectTimer
         /\ e.invocationCallbacks = c.invocationCallbacks /\ e.calls = c.calls
         /\ ~e.monitoring /\ e.transport = "none" /\ e.negotiateRequest = "none" /\ ~e.startRequest
         /\ e.transportTimeout = "none"
    BY <1>7, <1>8, <1>12 DEF Unlinked, Connections
  <1>15. \A v \in Calls : e.calls[v] = "waiting" =>
           \E callback \in e.invocationCallbacks : callback.call = v
    BY <1>14 DEF Consistent, WaitersHaveCallbacks
  <1>16. d \in Connections /\ \A v \in Calls : d.calls[v] # "waiting"
    BY <1>13, <1>15, ClearConsistent
  <1>17. /\ Unlinked(d)
         /\ d.state = "disconnected" /\ ~d.deferredStartHandler
         /\ ~d.pingTimer /\ ~d.disconnectTimer
         /\ ~d.monitoring /\ d.transport = "none" /\ d.negotiateRequest = "none" /\ ~d.startRequest
         /\ d.transportTimeout = "none"
    BY <1>13, <1>14 DEF clearInvocationCallbacks, Unlinked, Connections
  <1> HIDE DEF d
  <1>18. Sound(d)
    BY <1>16, <1>17 DEF Sound, Consistent, Clocked, Beating, OneTransport, Unlinked,
                        SessionFits, WaitersHaveCallbacks
  <1> QED
    BY <1>9, <1>17, <1>18 DEF d, e

\* stop ends the session, whatever state it finds, and leaves a sound connection.
LEMMA StopSound ==
  ASSUME NEW c, Consistent(c)
  PROVE  LET d == stop(c)
         IN  Sound(d) /\ d.state = "disconnected"
  <1>0. c \in Connections /\ OneTransport(c) /\ SessionFits(c) /\ WaitersHaveCallbacks(c)
    BY DEF Consistent
  <1>1. CASE ~c.pageLoaded
    <2> DEFINE left == IF c.deferredStartHandler THEN c.deferredStarts - 1 ELSE c.deferredStarts
               d == [c EXCEPT !.deferredStarts = left, !.deferredStartHandler = FALSE]
    <2>1. left \in Nat
      BY <1>0, <1>1 DEF Connections, SessionFits
    <2>2. stop(c) = d
      BY <1>1 DEF stop, stopBeforeLoad
    <2> HIDE DEF left
    <2>3. d \in Connections
      BY <1>0, <2>1, Updated
    <2>4. /\ SameLinks(c, d) /\ d.state = "disconnected" /\ c.state = "disconnected"
          /\ ~d.deferredStartHandler /\ d.pageLoaded = c.pageLoaded /\ d.pingTimer = c.pingTimer
          /\ d.negotiateRequest = c.negotiateRequest /\ d.startRequest = c.startRequest
          /\ d.transportTimeout = c.transportTimeout /\ d.monitoring = c.monitoring
          /\ d.startCompleted = c.startCompleted /\ d.disconnectTimer = c.disconnectTimer
          /\ d.calls = c.calls /\ d.invocationCallbacks = c.invocationCallbacks
      BY <1>0, <1>1 DEF Connections, SameLinks, SessionFits
    <2> HIDE DEF d
    <2>5. Sound(d)
      BY <1>0, <2>3, <2>4 DEF Sound, Consistent, OneTransport, SessionFits, SameLinks,
                              WaitersHaveCallbacks, Clocked, Beating
    <2> QED
      BY <2>2, <2>4, <2>5
  <1>2. CASE c.pageLoaded /\ c.state = "disconnected"
    <2> DEFINE d == [c EXCEPT !.deferredStartHandler = FALSE]
    <2>2. stop(c) = d
      BY <1>2 DEF stop
    <2>3. d \in Connections
      BY <1>0, Updated
    <2>4. /\ SameLinks(c, d) /\ d.state = "disconnected"
          /\ ~d.deferredStartHandler /\ d.pageLoaded = c.pageLoaded /\ d.pingTimer = c.pingTimer
          /\ d.negotiateRequest = c.negotiateRequest /\ d.startRequest = c.startRequest
          /\ d.transportTimeout = c.transportTimeout /\ d.monitoring = c.monitoring
          /\ d.startCompleted = c.startCompleted /\ d.disconnectTimer = c.disconnectTimer
          /\ d.calls = c.calls /\ d.invocationCallbacks = c.invocationCallbacks
      BY <1>0, <1>2 DEF Connections, SameLinks
    <2> HIDE DEF d
    <2>5. Sound(d)
      BY <1>0, <1>2, <2>3, <2>4 DEF Sound, Consistent, OneTransport, SessionFits, SameLinks,
                              WaitersHaveCallbacks, Clocked, Beating
    <2> QED
      BY <2>2, <2>4, <2>5
  <1>3. CASE c.pageLoaded /\ c.state # "disconnected"
    BY <1>3, StopSessionSound DEF stop
  <1> QED
    BY <1>1, <1>2, <1>3

\* A transport that starts finds no link, so that the guards in its start are idle.
LEMMA TransportStarts ==
  ASSUME NEW c, Consistent(c), Unlinked(c), c.transport # "none", NEW reconnecting \in BOOLEAN
  PROVE  LET d == transportStart(c, reconnecting)
         IN  /\ SameSession(c, d)
             /\ Consistent(d)
             /\ Clocked(c) => Clocked(d)
             /\ Beating(c) => Beating(d)
  <1>0. c \in Connections /\ OneTransport(c)
    BY DEF Consistent
  <1> DEFINE first == ~reconnecting
             ws == [c EXCEPT !.socket = "opening", !.initial = first]
             sse == [c EXCEPT !.eventSource = "opening", !.initial = first,
                              !.attemptTimer = reconnecting]
             lp1 == [c EXCEPT !.poll = "delay", !.initial = TRUE, !.messageId = FALSE]
             lp == [lp1 EXCEPT !.raise = FALSE, !.reconnectedTimer = FALSE]
  <1>f. first \in BOOLEAN
    OBVIOUS
  <1> HIDE DEF first
  <1>1. CASE c.transport = "webSockets"
    <2>1. transportStart(c, reconnecting) = ws
      BY <1>1 DEF transportStart, Unlinked, first
    <2>2. ws \in Connections
      BY <1>0, <1>f, Updated DEF Links
    <2>3. SameSession(c, ws)
      BY <1>0 DEF Connections, SameSession
    <2>4. OneTransport(ws)
      BY <1>0, <1>1 DEF Connections, OneTransport
    <2> HIDE DEF ws
    <2> QED
      BY <2>1, <2>2, <2>3, <2>4, SameSessionSound
  <1>2. CASE c.transport = "serverSentEvents"
    <2>1. transportStart(c, reconnecting) = sse
      BY <1>2 DEF transportStart, Unlinked, first
    <2>2. sse \in Connections
      BY <1>0, <1>f, Updated DEF Links
    <2>3. SameSession(c, sse)
      BY <1>0 DEF Connections, SameSession
    <2>4. OneTransport(sse)
      BY <1>0, <1>2 DEF Connections, OneTransport
    <2> HIDE DEF sse
    <2> QED
      BY <2>1, <2>2, <2>3, <2>4, SameSessionSound
  <1>3. CASE c.transport = "longPolling"
    <2>1. transportStart(c, reconnecting) = lp
      BY <1>3 DEF transportStart, Unlinked
    <2>2. lp1 \in Connections
      BY <1>0, Updated
    <2>3. lp1.poll = "delay" /\ SameSession(c, lp1) /\ OneTransport(lp1)
      BY <1>0, <1>3 DEF Connections, SameSession, OneTransport
    <2> HIDE DEF lp1
    <2>4. lp \in Connections
      BY <2>2, Updated
    <2>5. SameSession(c, lp) /\ OneTransport(lp)
      BY <2>2, <2>3 DEF Connections, SameSession, OneTransport
    <2> HIDE DEF lp
    <2> QED
      BY <2>1, <2>4, <2>5, SameSessionSound
  <1>4. CASE c.transport \notin {"webSockets", "serverSentEvents", "longPolling"}
    <2>1. transportStart(c, reconnecting) = c
      BY <1>4 DEF transportStart
    <2> QED
      BY <2>1 DEF SameSession
  <1> QED
    BY <1>1, <1>2, <1>3, <1>4

LEMMA LeastUsable ==
  ASSUME NEW i \in 1..5, Usable(i) # {}
  PROVE  FirstUsable(i) \in 1..4
  <1>1. Usable(i) \subseteq 1..4
    BY DEF Usable
  <1>2. \E j \in Usable(i) : \A k \in Usable(i) : j <= k
    <2>1. \A j \in Usable(i) : j \in {1, 2, 3, 4}
      BY <1>1
    <2> QED
      BY <2>1
  <1> QED
    BY <1>1, <1>2 DEF FirstUsable

\* The next transport starts when the one before has been stopped.
LEMMA InitializeSound ==
  ASSUME NEW c, Sound(c), Unlinked(c), ~c.monitoring, c.negotiateRequest = "none",
         NEW i \in 1..5
  PROVE  Sound(initialize(c, i))
  <1>0. c \in Connections /\ Consistent(c) /\ OneTransport(c)
    BY DEF Sound, Consistent
  <1>1. CASE Usable(i) = {}
    BY <1>0, <1>1, StopSound DEF initialize
  <1>2. CASE Usable(i) # {} /\ c.state = "disconnected"
    BY <1>2 DEF initialize
  <1>3. CASE Usable(i) # {} /\ c.state # "disconnected"
    <2> DEFINE j == FirstUsable(i)
               timer == IF i = j THEN "held" ELSE "lost"
               name == Transports[j]
               d == [c EXCEPT !.index = j, !.transport = name,
                              !.failCalled = FALSE, !.transportTimeout = timer]
    <2>1. j \in 1..4
      BY <1>3, LeastUsable
    <2>2. name \in Names /\ name # "none"
      BY <2>1, TransportNames
    <2>3. initialize(c, i) = transportStart(d, FALSE)
      BY <1>3 DEF initialize
    <2>4. timer \in {"held", "lost"}
      OBVIOUS
    <2> HIDE DEF timer, j, name
    <2>5. d \in Connections
      BY <1>0, <2>1, <2>2, <2>4, Updated
    <2>6. /\ Unlinked(d) /\ d.transport # "none"
          /\ d.negotiateRequest = "none" /\ ~d.monitoring
          /\ d.state = c.state /\ d.pageLoaded = c.pageLoaded /\ d.deferredStarts = c.deferredStarts
          /\ d.deferredStartHandler = c.deferredStartHandler
          /\ d.disconnectTimer = c.disconnectTimer /\ d.beats = c.beats
          /\ d.invocationCallbacks = c.invocationCallbacks /\ d.calls = c.calls
      BY <1>0, <2>2 DEF Connections, Unlinked
    <2> HIDE DEF d
    <2>7. OneTransport(d) /\ SessionFits(d) /\ WaitersHaveCallbacks(d)
      BY <1>0, <1>3, <2>6 DEF Consistent, OneTransport, Unlinked, SessionFits, WaitersHaveCallbacks
    <2>8. Sound(d)
      BY <1>0, <2>5, <2>6, <2>7 DEF Sound, Consistent, Clocked, Beating
    <2> QED
      BY <2>3, <2>6, <2>8, TransportStarts DEF Sound
  <1> QED
    BY <1>1, <1>2, <1>3

\* onFailed and the timeout of the transport, on a connection that has one.
LEMMA TransportFailedSound ==
  ASSUME NEW c, Sound(c), c.transport # "none"
  PROVE  LET d == transportFailed(c)
         IN  /\ Sound(d)
             /\ c.startCompleted =>
                  SameSession([c EXCEPT !.failCalled = TRUE], d) /\ SameLinks(c, d)
  <1>0. c \in Connections /\ Consistent(c) /\ OneTransport(c)
    BY DEF Sound, Consistent
  <1>1. CASE c.failCalled \/ c.startCompleted
    <2> DEFINE d == [c EXCEPT !.failCalled = TRUE]
    <2>1. transportFailed(c) = d
      BY <1>1 DEF transportFailed
    <2>2. d \in Connections
      BY <1>0, Updated
    <2>3. /\ SameLinks(c, d)
          /\ d.negotiateRequest = c.negotiateRequest
          /\ d.state = c.state /\ d.pageLoaded = c.pageLoaded /\ d.deferredStarts = c.deferredStarts
          /\ d.deferredStartHandler = c.deferredStartHandler
          /\ d.startRequest = c.startRequest /\ d.transportTimeout = c.transportTimeout
          /\ d.pingTimer = c.pingTimer /\ d.startCompleted = c.startCompleted
          /\ d.disconnectTimer = c.disconnectTimer /\ d.monitoring = c.monitoring
          /\ d.beats = c.beats
          /\ d.invocationCallbacks = c.invocationCallbacks /\ d.calls = c.calls
      BY <1>0 DEF Connections, SameLinks
    <2>4. SameSession(d, d)
      BY DEF SameSession
    <2> HIDE DEF d
    <2>5. OneTransport(d) /\ SessionFits(d) /\ WaitersHaveCallbacks(d)
      BY <1>0, <2>3 DEF Consistent, OneTransport, SameLinks, SessionFits, WaitersHaveCallbacks
    <2>6. Sound(d)
      BY <1>0, <2>2, <2>3, <2>5 DEF Sound, Consistent, Clocked, Beating
    <2> QED
      BY <2>1, <2>3, <2>4, <2>6 DEF d
  <1>2. CASE ~c.failCalled /\ ~c.startCompleted /\ c.startRequested
    <2>1. transportFailed(c) = stop(c)
      BY <1>2 DEF transportFailed
    <2> QED
      BY <1>0, <1>2, <2>1, StopSound
  <1>3. CASE ~c.failCalled /\ ~c.startCompleted /\ ~c.startRequested
    <2> DEFINE e == [c EXCEPT !.failCalled = TRUE, !.transportTimeout = "none"]
               d == transportStop(e)
    <2>1. e \in Connections
      BY <1>0, Updated
    <2>2. /\ SameLinks(c, e)
          /\ e.negotiateRequest = c.negotiateRequest
          /\ e.state = c.state /\ e.pageLoaded = c.pageLoaded /\ e.deferredStarts = c.deferredStarts
          /\ e.deferredStartHandler = c.deferredStartHandler
          /\ e.startRequest = c.startRequest /\ e.transportTimeout = "none"
          /\ e.pingTimer = c.pingTimer /\ e.startCompleted = c.startCompleted
          /\ e.disconnectTimer = c.disconnectTimer /\ e.monitoring = c.monitoring
          /\ e.beats = c.beats /\ e.index = c.index
          /\ e.invocationCallbacks = c.invocationCallbacks /\ e.calls = c.calls
      BY <1>0 DEF Connections, SameLinks
    <2> HIDE DEF e
    <2>3. OneTransport(e) /\ SessionFits(e) /\ WaitersHaveCallbacks(e)
      BY <1>0, <2>2 DEF Consistent, OneTransport, SameLinks, SessionFits, WaitersHaveCallbacks
    <2>4. Sound(e)
      BY <1>0, <2>1, <2>2, <2>3 DEF Sound, Consistent, Clocked, Beating
    <2>5. Consistent(e)
      BY <2>4 DEF Sound
    <2>6. d \in Connections /\ SameSession(e, d) /\ Unlinked(d) /\ OneTransport(d)
      BY <2>5, TransportStops
    <2> HIDE DEF d
    <2>7. Sound(d)
      BY <2>4, <2>5, <2>6, SameSessionSound DEF Sound
    <2>8. c.index + 1 \in 1..5
      BY <1>0 DEF Connections
    <2>9. ~d.monitoring /\ d.negotiateRequest = "none"
      BY <1>0, <1>3, <2>2, <2>6 DEF OneTransport, SameSession
    <2>10. transportFailed(c) = initialize(d, c.index + 1)
      BY <1>3 DEF transportFailed, d, e
    <2> QED
      BY <1>3, <2>6, <2>7, <2>8, <2>9, <2>10, InitializeSound
  <1> QED
    BY <1>1, <1>2, <1>3

\* The same session with the same links, or the same less the transport's timeout: the
\* invariant passes from one connection to the other.
Kept(c, d) ==
  /\ SameLinks(c, d)
  /\ d.state = c.state /\ d.pageLoaded = c.pageLoaded
  /\ d.deferredStarts = c.deferredStarts /\ d.deferredStartHandler = c.deferredStartHandler
  /\ d.negotiateRequest = c.negotiateRequest
  /\ d.startCompleted = c.startCompleted /\ d.startRequest = c.startRequest
  /\ d.disconnectTimer = c.disconnectTimer
  /\ d.monitoring = c.monitoring /\ d.pingTimer = c.pingTimer
  /\ d.transportTimeout \in {c.transportTimeout, "none"}
  /\ d.invocationCallbacks = c.invocationCallbacks /\ d.calls = c.calls

LEMMA KeptSound ==
  ASSUME NEW c, NEW d \in Connections, Consistent(c), Kept(c, d)
  PROVE  /\ Consistent(d)
         /\ Clocked(c) => Clocked(d)
         /\ Beating(c) /\ d.beats = c.beats => Beating(d)
  <1>1. OneTransport(d)
    BY DEF Consistent, OneTransport, Kept, SameLinks
  <1>2. SessionFits(d)
    BY DEF Consistent, SessionFits, Kept, SameLinks
  <1> QED
    BY <1>1, <1>2 DEF Consistent, WaitersHaveCallbacks, Kept, Clocked, Beating

\* reconnect is called of a link that can be made again.
LEMMA ReconnectSound ==
  ASSUME NEW c, Consistent(c),
         c.state \in {"connected", "reconnecting"} =>
           c.transport \in {"webSockets", "serverSentEvents"}
  PROVE  LET d == reconnect(c)
         IN  /\ Consistent(d)
             /\ Clocked(c) => Clocked(d)
             /\ Beating(c) => Beating(d)
  <1>0. c \in Connections /\ OneTransport(c)
    BY DEF Consistent
  <1> DEFINE d == [c EXCEPT !.reconnectTimer = TRUE]
  <1>1. CASE c.state \notin {"connected", "reconnecting"} \/ c.reconnectTimer
    BY <1>1 DEF reconnect
  <1>2. CASE ~(c.state \notin {"connected", "reconnecting"} \/ c.reconnectTimer) /\ Inactive(c)
    BY <1>2, StopSound DEF reconnect, Sound
  <1>3. CASE ~(c.state \notin {"connected", "reconnecting"} \/ c.reconnectTimer) /\ ~Inactive(c)
    <2>1. reconnect(c) = d
      BY <1>3 DEF reconnect
    <2>2. d \in Connections /\ SameSession(c, d)
      <3>1. d \in Connections
        BY <1>0, Updated
      <3>2. SameSession(c, d)
        BY <1>0 DEF Connections, SameSession
      <3> QED
        BY <3>1, <3>2
    <2>3. OneTransport(d)
      BY <1>0, <1>3 DEF Connections, OneTransport
    <2> HIDE DEF d
    <2> QED
      BY <2>1, <2>2, <2>3, SameSessionSound
  <1> QED
    BY <1>1, <1>2, <1>3

\* The reconnecting state begins with the disconnect timeout; the links stay as they are
\* unless the application stops the connection.
LEMMA EnsureReconnectingSound ==
  ASSUME NEW c, Sound(c), NEW appStops \in BOOLEAN
  PROVE  LET d == ensureReconnectingState(c, appStops)
         IN  /\ Sound(d)
             /\ d.state # "disconnected" => SameLinks(c, d)
  <1>0. c \in Connections /\ Consistent(c) /\ OneTransport(c) /\ SessionFits(c)
    BY DEF Sound, Consistent
  <1> DEFINE d == [c EXCEPT !.state = "reconnecting", !.disconnectTimer = TRUE]
             e == IF c.transport = "webSockets" THEN clearInvocationCallbacks(d) ELSE d
  <1>1. CASE c.state # "connected"
    BY <1>1 DEF ensureReconnectingState, SameLinks
  <1>2. CASE c.state = "connected"
    <2>1. [changeState(c, "connected", "reconnecting") EXCEPT !.disconnectTimer = TRUE] = d
      BY <1>0, <1>2 DEF changeState, Connections
    <2>2. d.transport = c.transport
      BY <1>0 DEF Connections
    <2>3. ensureReconnectingState(c, appStops) = IF appStops THEN stop(e) ELSE e
      BY <1>2, <2>1, <2>2 DEF ensureReconnectingState
    <2>4. d \in Connections
      BY <1>0, Updated DEF States
    <2>5. /\ SameLinks(c, d) /\ d.state = "reconnecting" /\ d.disconnectTimer
          /\ d.pageLoaded = c.pageLoaded /\ d.deferredStarts = c.deferredStarts
          /\ d.deferredStartHandler = c.deferredStartHandler
          /\ d.negotiateRequest = c.negotiateRequest
          /\ d.startRequest = c.startRequest /\ d.transportTimeout = c.transportTimeout
          /\ d.startCompleted = c.startCompleted /\ d.monitoring = c.monitoring
          /\ d.beats = c.beats
          /\ d.invocationCallbacks = c.invocationCallbacks /\ d.calls = c.calls
      BY <1>0 DEF Connections, SameLinks
    <2> HIDE DEF d
    <2>6. OneTransport(d) /\ SessionFits(d) /\ WaitersHaveCallbacks(d)
      BY <1>0, <1>2, <2>5 DEF Consistent, OneTransport, SameLinks, SessionFits, WaitersHaveCallbacks
    <2>7. Sound(d)
      BY <1>0, <1>2, <2>4, <2>5, <2>6 DEF Sound, Consistent, Clocked, Beating
    <2>8. Sound(e) /\ SameLinks(c, e)
      <3>1. CASE c.transport = "webSockets"
        <4> DEFINE f == clearInvocationCallbacks(d)
        <4>1. f \in Connections /\ \A v \in Calls : f.calls[v] # "waiting"
          BY <2>4, <2>6, ClearConsistent DEF WaitersHaveCallbacks
        <4>2. /\ SameLinks(d, f) /\ f.state = d.state /\ f.disconnectTimer = d.disconnectTimer
              /\ f.pageLoaded = d.pageLoaded /\ f.deferredStarts = d.deferredStarts
              /\ f.deferredStartHandler = d.deferredStartHandler
              /\ f.negotiateRequest = d.negotiateRequest /\ f.pingTimer = d.pingTimer
              /\ f.startRequest = d.startRequest /\ f.transportTimeout = d.transportTimeout
              /\ f.startCompleted = d.startCompleted /\ f.monitoring = d.monitoring
              /\ f.beats = d.beats
          BY <2>4 DEF clearInvocationCallbacks, Connections, SameLinks
        <4> HIDE DEF f
        <4>3. OneTransport(f)
          BY <2>6, <4>2 DEF OneTransport, SameLinks
        <4>4. SessionFits(f) /\ WaitersHaveCallbacks(f)
          BY <2>6, <4>1, <4>2 DEF SessionFits, SameLinks, WaitersHaveCallbacks
        <4>5. Sound(f)
          BY <2>7, <4>1, <4>2, <4>3, <4>4 DEF Sound, Consistent, Clocked, Beating
        <4>6. SameLinks(c, f)
          BY <2>5, <4>2 DEF SameLinks
        <4> QED
          BY <3>1, <4>5, <4>6 DEF f
      <3>2. CASE c.transport # "webSockets"
        BY <3>2, <2>7, <2>5
      <3> QED
        BY <3>1, <3>2
    <2> HIDE DEF e
    <2>9. CASE appStops
      BY <2>3, <2>8, <2>9, StopSound DEF Sound
    <2>10. CASE ~appStops
      BY <2>3, <2>8, <2>10
    <2> QED
      BY <2>9, <2>10
  <1> QED
    BY <1>1, <1>2

\* The link is open: the session goes on where it was.
LEMMA ReopenedSound ==
  ASSUME NEW c, Sound(c)
  PROVE  LET d == Reopened(c)
         IN  /\ Sound(d)
             /\ d.transport = c.transport /\ d.poll = c.poll
             /\ d.state = "disconnected" <=> c.state = "disconnected"
  <1>0. c \in Connections /\ Consistent(c) /\ OneTransport(c) /\ SessionFits(c)
    BY DEF Sound, Consistent
  <1> DEFINE b == [c EXCEPT !.reconnectTimer = FALSE, !.attemptTimer = FALSE]
             d == changeState(b, "reconnecting", "connected")
             e == [d EXCEPT !.lastMessageAt = "recent"]
  <1>1. b \in Connections /\ SameSession(c, b) /\ b.poll = c.poll
    <2>1. b \in Connections
      BY <1>0, Updated
    <2>2. SameSession(c, b) /\ b.poll = c.poll
      BY <1>0 DEF Connections, SameSession
    <2> QED
      BY <2>1, <2>2
  <1>2. OneTransport(b)
    BY <1>0 DEF Connections, OneTransport
  <1> HIDE DEF b
  <1>3. Sound(b)
    BY <1>0, <1>1, <1>2, SameSessionSound DEF Sound
  <1>4. /\ Sound(d)
        /\ d.transport = c.transport /\ d.poll = c.poll
        /\ d.state = "disconnected" <=> c.state = "disconnected"
    <2>1. CASE b.state # "reconnecting"
      BY <1>1, <1>3, <2>1 DEF changeState, SameSession
    <2>2. CASE b.state = "reconnecting"
      <3> DEFINE f == [b EXCEPT !.state = "connected", !.disconnectTimer = FALSE]
      <3>1. d = f
        <4>1. (b.disconnectTimer /\ "reconnecting" # "reconnecting") = FALSE
          OBVIOUS
        <4> QED
          BY <2>2, <4>1 DEF changeState
      <3>2. f \in Connections
        BY <1>1, Updated DEF States
      <3>3. /\ SameLinks(b, f) /\ f.state = "connected" /\ ~f.disconnectTimer
            /\ f.pageLoaded = b.pageLoaded /\ f.deferredStarts = b.deferredStarts
            /\ f.deferredStartHandler = b.deferredStartHandler
            /\ f.negotiateRequest = b.negotiateRequest
            /\ f.startRequest = b.startRequest /\ f.transportTimeout = b.transportTimeout
            /\ f.startCompleted = b.startCompleted /\ f.monitoring = b.monitoring
            /\ f.beats = b.beats
            /\ f.invocationCallbacks = b.invocationCallbacks /\ f.calls = b.calls
        BY <1>1 DEF Connections, SameLinks
      <3> HIDE DEF f, d
      <3>4. OneTransport(f) /\ SessionFits(f) /\ WaitersHaveCallbacks(f)
        BY <1>3, <2>2, <3>3 DEF Sound, Consistent, OneTransport, SameLinks, SessionFits,
                                WaitersHaveCallbacks
      <3>5. Sound(f)
        BY <1>3, <2>2, <3>2, <3>3, <3>4 DEF Sound, Consistent, Clocked, Beating
      <3> QED
        BY <1>1, <2>2, <3>1, <3>3, <3>5 DEF SameLinks, SameSession
    <2> QED
      BY <2>1, <2>2
  <1>5. Reopened(c) = IF d.state # c.state /\ d.monitoring THEN e ELSE d
    BY DEF Reopened, b
  <1> HIDE DEF d
  <1>6. d \in Connections /\ Consistent(d)
    BY <1>4 DEF Sound, Consistent
  <1>7. e \in Connections
    BY <1>6, Updated DEF Times
  <1>8. SameSession(d, e) /\ SameLinks(d, e)
    BY <1>6 DEF Connections, SameSession, SameLinks
  <1> HIDE DEF e
  <1>9. OneTransport(e)
    BY <1>6, <1>8 DEF Consistent, OneTransport, SameLinks, SameSession
  <1>10. Sound(e)
    BY <1>4, <1>6, <1>7, <1>8, <1>9, SameSessionSound DEF Sound
  <1> QED
    BY <1>4, <1>5, <1>8, <1>10 DEF SameSession, SameLinks

\* The init message asks for the start request, once, on the transport in use.
LEMMA InitReceivedSound ==
  ASSUME NEW c, Sound(c), c.transport # "none"
  PROVE  LET d == initReceived(c)
         IN  /\ Sound(d)
             /\ SameLinks(c, d) /\ d.state = c.state
  <1>0. c \in Connections /\ Consistent(c) /\ OneTransport(c) /\ SessionFits(c)
    BY DEF Sound, Consistent
  <1> DEFINE timer == IF c.transportTimeout = "held" THEN "none" ELSE c.transportTimeout
             d == [c EXCEPT !.startRequested = TRUE, !.startRequest = TRUE,
                            !.transportTimeout = timer]
  <1>1. CASE ~c.initial \/ c.failCalled \/ c.startRequested
    BY <1>1 DEF initReceived, SameLinks
  <1>2. CASE ~(~c.initial \/ c.failCalled \/ c.startRequested)
    <2>1. initReceived(c) = d
      BY <1>2 DEF initReceived
    <2>2. timer \in {"none", "held", "lost"}
      BY <1>0 DEF Connections
    <2> HIDE DEF timer
    <2>3. d \in Connections
      BY <1>0, <2>2, Updated
    <2>4. /\ SameLinks(c, d) /\ d.state = c.state /\ d.disconnectTimer = c.disconnectTimer
          /\ d.pageLoaded = c.pageLoaded /\ d.deferredStarts = c.deferredStarts
          /\ d.deferredStartHandler = c.deferredStartHandler
          /\ d.negotiateRequest = c.negotiateRequest /\ d.pingTimer = c.pingTimer
          /\ d.startCompleted = c.startCompleted /\ d.monitoring = c.monitoring
          /\ d.beats = c.beats
          /\ d.invocationCallbacks = c.invocationCallbacks /\ d.calls = c.calls
      BY <1>0 DEF Connections, SameLinks
    <2> HIDE DEF d
    <2>5. OneTransport(d) /\ SessionFits(d) /\ WaitersHaveCallbacks(d)
      BY <1>0, <2>4 DEF Consistent, OneTransport, SameLinks, SessionFits, WaitersHaveCallbacks
    <2>6. Sound(d)
      BY <1>0, <2>3, <2>4, <2>5 DEF Sound, Consistent, Clocked, Beating
    <2> QED
      BY <2>1, <2>4, <2>6
  <1> QED
    BY <1>1, <1>2

\* The start request ends the start: the session gets its heartbeat as it is connected.
LEMMA ConnectedSound ==
  ASSUME NEW c, Sound(c), c.startRequest, NEW b \in Beats
  PROVE  Sound(connected(c, b))
  <1>0. c \in Connections /\ Consistent(c) /\ OneTransport(c) /\ SessionFits(c)
    BY DEF Sound, Consistent
  <1> DEFINE keep == supportsKeepAlive(c)
             watched == c.monitoring \/ keep
             heard == IF keep /\ ~c.monitoring THEN "recent" ELSE c.lastMessageAt
             timers == c.beats \cup {b}
             d1 == [c EXCEPT !.startCompleted = TRUE, !.startRequest = FALSE,
                             !.monitoring = watched, !.lastMessageAt = heard]
             d == [d1 EXCEPT !.lastActiveAt = "recent", !.beats = timers,
                             !.beatHandle = b, !.pingTimer = TRUE]
             e == [d EXCEPT !.state = "connected", !.disconnectTimer = c.disconnectTimer]
  <1>1. connected(c, b) = changeState(d, "connecting", "connected")
    BY DEF connected
  <1>2. watched \in BOOLEAN /\ heard \in Times
    BY <1>0 DEF Connections, Times
  <1>3. watched => c.transport \in {"webSockets", "serverSentEvents"}
    BY <1>0 DEF OneTransport, supportsKeepAlive
  <1>4. timers \in SUBSET Beats /\ timers # {}
    BY <1>0 DEF Connections
  <1>5. c.transport # "none" /\ c.state # "disconnected" /\ c.negotiateRequest = "none"
    BY <1>0 DEF OneTransport, SessionFits
  <1> HIDE DEF watched, heard, timers
  <1>6. d1 \in Connections
    BY <1>0, <1>2, Updated
  <1>7. /\ SameLinks(c, d1) /\ d1.startCompleted /\ ~d1.startRequest /\ d1.monitoring = watched
        /\ d1.state = c.state /\ d1.disconnectTimer = c.disconnectTimer
        /\ d1.pageLoaded = c.pageLoaded
        /\ d1.negotiateRequest = c.negotiateRequest /\ d1.transportTimeout = c.transportTimeout
        /\ d1.invocationCallbacks = c.invocationCallbacks /\ d1.calls = c.calls
    BY <1>0 DEF Connections, SameLinks
  <1> HIDE DEF d1
  <1>8. d \in Connections
    BY <1>6, <1>4, Updated DEF Times
  <1>9. /\ SameLinks(c, d) /\ d.startCompleted /\ ~d.startRequest /\ d.monitoring = watched
        /\ d.beats = timers
        /\ d.state = c.state /\ d.disconnectTimer = c.disconnectTimer
        /\ d.pageLoaded = c.pageLoaded
        /\ d.negotiateRequest = c.negotiateRequest /\ d.transportTimeout = c.transportTimeout
        /\ d.invocationCallbacks = c.invocationCallbacks /\ d.calls = c.calls
    BY <1>6, <1>7 DEF Connections, SameLinks
  <1> HIDE DEF d
  <1>10. /\ OneTransport(d) /\ SessionFits(d) /\ WaitersHaveCallbacks(d)
    BY <1>0, <1>3, <1>5, <1>9 DEF Consistent, OneTransport, SameLinks, SessionFits,
                                  WaitersHaveCallbacks
  <1>11. Sound(d)
    BY <1>0, <1>4, <1>8, <1>9, <1>10 DEF Sound, Consistent, Clocked, Beating
  <1>12. CASE d.state # "connecting"
    BY <1>1, <1>11, <1>12 DEF changeState
  <1>13. CASE d.state = "connecting"
    <2> DEFINE f == [d EXCEPT !.state = "connected", !.disconnectTimer = FALSE]
    <2>1. (d.disconnectTimer /\ "connecting" # "reconnecting") = FALSE
      BY <1>8, <1>11, <1>13 DEF Sound, Consistent, Connections
    <2>2. connected(c, b) = f
      BY <1>1, <1>13, <2>1 DEF changeState
    <2>3. f \in Connections
      BY <1>8, Updated DEF States
    <2>4. /\ SameLinks(d, f) /\ f.state = "connected" /\ ~f.disconnectTimer
          /\ f.pageLoaded = d.pageLoaded
          /\ f.negotiateRequest = d.negotiateRequest
          /\ f.startRequest = d.startRequest /\ f.transportTimeout = d.transportTimeout
          /\ f.startCompleted = d.startCompleted /\ f.monitoring = d.monitoring
          /\ f.beats = d.beats
          /\ f.invocationCallbacks = d.invocationCallbacks /\ f.calls = d.calls
      BY <1>8 DEF Connections, SameLinks
    <2> HIDE DEF f
    <2>5. OneTransport(f) /\ SessionFits(f) /\ WaitersHaveCallbacks(f)
      BY <1>5, <1>9, <1>10, <2>4 DEF OneTransport, SameLinks, SessionFits, WaitersHaveCallbacks
    <2>6. Sound(f)
      BY <1>4, <1>9, <2>3, <2>4, <2>5 DEF Sound, Consistent, Clocked, Beating
    <2> QED
      BY <2>2, <2>6
  <1> QED
    BY <1>12, <1>13

\* An answer settles whoever waits with its id, and only those lose their callback.
LEMMA SettleSound ==
  ASSUME NEW c, Sound(c), NEW id, NEW result \in {"resolved", "rejected"}
  PROVE  LET d == Settle(c, id, result)
         IN  Sound(d)
  <1>0. c \in Connections /\ Consistent(c) /\ OneTransport(c) /\ SessionFits(c)
        /\ WaitersHaveCallbacks(c)
    BY DEF Sound, Consistent
  <1> DEFINE cbs == {callback \in c.invocationCallbacks : callback.id = id}
             left == c.invocationCallbacks \ cbs
             new == [v \in Calls |->
                       IF c.calls[v] = "waiting" /\ (\E callback \in cbs : callback.call = v)
                       THEN result ELSE c.calls[v]]
             d == [c EXCEPT !.invocationCallbacks = left, !.calls = new]
  <1>1. c.calls \in [Calls -> Results] /\ c.invocationCallbacks \in SUBSET Sends
    BY <1>0 DEF Connections
  <1>2. new \in [Calls -> Results] /\ left \in SUBSET Sends
    BY <1>1 DEF Results
  <1>3. \A v \in Calls : new[v] = "waiting" =>
          c.calls[v] = "waiting" /\ ~\E callback \in cbs : callback.call = v
    BY <1>1 DEF Results
  <1>4. \A v \in Calls : new[v] = "waiting" =>
          c.state # "disconnected" /\ \E callback \in left : callback.call = v
    BY <1>0, <1>3 DEF WaitersHaveCallbacks
  <1>5. Settle(c, id, result) = d
    BY DEF Settle
  <1> HIDE DEF new, left, cbs
  <1>6. d \in Connections
    BY <1>0, <1>2, Updated
  <1>7. /\ SameLinks(c, d) /\ d.state = c.state /\ d.disconnectTimer = c.disconnectTimer
        /\ d.pageLoaded = c.pageLoaded /\ d.deferredStarts = c.deferredStarts
        /\ d.deferredStartHandler = c.deferredStartHandler
        /\ d.negotiateRequest = c.negotiateRequest /\ d.pingTimer = c.pingTimer
        /\ d.startRequest = c.startRequest /\ d.transportTimeout = c.transportTimeout
        /\ d.startCompleted = c.startCompleted /\ d.monitoring = c.monitoring
        /\ d.beats = c.beats
        /\ d.invocationCallbacks = left /\ d.calls = new
    BY <1>0 DEF Connections, SameLinks
  <1> HIDE DEF d
  <1>8. OneTransport(d) /\ SessionFits(d)
    BY <1>0, <1>7 DEF OneTransport, SameLinks, SessionFits
  <1>9. WaitersHaveCallbacks(d)
    BY <1>4, <1>7 DEF WaitersHaveCallbacks
  <1>10. Sound(d)
    BY <1>0, <1>6, <1>7, <1>8, <1>9 DEF Sound, Consistent, Clocked, Beating
  <1> QED
    BY <1>5, <1>10

\* One round of the heartbeat keeps a session's heartbeat or ends the session.
LEMMA BeatSound ==
  ASSUME NEW c, Sound(c), NEW b \in Beats, NEW slowStops \in BOOLEAN
  PROVE  Sound(beat(c, b, slowStops))
  <1>0. c \in Connections /\ Consistent(c) /\ OneTransport(c) /\ Clocked(c)
    BY DEF Sound, Consistent
  <1> DEFINE left == c.beats \ {b}
             d == [c EXCEPT !.beats = left]
             e == checkIfAlive(d, slowStops)
             timers == e.beats \cup {b}
             f == [e EXCEPT !.lastActiveAt = "recent", !.beats = timers, !.beatHandle = b]
  <1>1. left \in SUBSET Beats
    BY <1>0 DEF Connections
  <1> HIDE DEF left
  <1>2. d \in Connections
    BY <1>0, <1>1, Updated
  <1>3. Kept(c, d)
    BY <1>0 DEF Connections, Kept, SameLinks
  <1>4. beat(c, b, slowStops) = IF Inactive(e) THEN stop(e) ELSE f
    BY DEF beat, left
  <1> HIDE DEF d
  <1>5. Consistent(d) /\ Clocked(d)
    BY <1>0, <1>2, <1>3, KeptSound
  <1>6. d.monitoring => d.transport \in {"webSockets", "serverSentEvents"}
    BY <1>5 DEF Consistent, OneTransport
  <1>7. Consistent(e) /\ Clocked(e)
    <2>1. d.monitoring => Consistent(reconnect(d)) /\ Clocked(reconnect(d))
      BY <1>5, <1>6, ReconnectSound
    <2>2. Consistent(stop(d)) /\ Clocked(stop(d))
      BY <1>5, StopSound DEF Sound
    <2> QED
      BY <1>5, <2>1, <2>2 DEF checkIfAlive
  <1>8. e \in Connections
    BY <1>7 DEF Consistent
  <1> HIDE DEF e
  <1>9. timers \in SUBSET Beats /\ timers # {}
    BY <1>8 DEF Connections
  <1> HIDE DEF timers
  <1>10. f \in Connections
    BY <1>8, <1>9, Updated DEF Times
  <1>11. Kept(e, f) /\ f.beats # {}
    BY <1>8, <1>9 DEF Connections, Kept, SameLinks
  <1> HIDE DEF f
  <1>12. Sound(f)
    BY <1>7, <1>10, <1>11, KeptSound DEF Sound, Beating
  <1>13. Sound(stop(e))
    BY <1>7, StopSound
  <1> QED
    BY <1>4, <1>12, <1>13

LEMMA LinkLostSound ==
  ASSUME NEW c, Sound(c), c.transport \in {"webSockets", "serverSentEvents"}
  PROVE  Sound(LinkLost(c))
  <1>1. Consistent(c) /\ c.transport # "none"
    BY DEF Sound
  <1>2. CASE c.initial /\ shouldStop(c)
    BY <1>1, <1>2, TransportFailedSound DEF LinkLost
  <1>3. CASE c.initial /\ ~shouldStop(c)
    <2> DEFINE d == transportFailed(c)
    <2>1. Sound(d) /\ SameLinks(c, d)
      BY <1>1, <1>3, TransportFailedSound DEF shouldStop
    <2>2. LinkLost(c) = reconnect(d)
      BY <1>3 DEF LinkLost
    <2> HIDE DEF d
    <2> QED
      BY <2>1, <2>2, ReconnectSound DEF Sound, SameLinks
  <1>4. CASE ~c.initial
    BY <1>1, <1>4, ReconnectSound DEF LinkLost, Sound
  <1> QED
    BY <1>2, <1>3, <1>4

LEMMA ParseFailureSound ==
  ASSUME NEW c, Sound(c), c.transport # "none"
  PROVE  Sound(parseFailure(c))
  <1>1. CASE c.initial /\ shouldStop(c)
    BY <1>1, TransportFailedSound DEF parseFailure
  <1>2. CASE ~(c.initial /\ shouldStop(c))
    BY <1>2, StopSound DEF parseFailure, Sound
  <1> QED
    BY <1>1, <1>2

\* A poll may be set aside at any time, and begun while the transport is long polling.
LEMMA PollSound ==
  ASSUME NEW c, Sound(c), NEW poll \in {"none", "delay", "request"}, NEW raise \in BOOLEAN,
         NEW timer \in BOOLEAN,
         poll = "none" \/ c.transport = "longPolling",
         ~timer \/ c.reconnectedTimer \/ c.transport = "longPolling"
  PROVE  /\ Sound([c EXCEPT !.poll = poll])
         /\ Sound([c EXCEPT !.poll = poll, !.reconnectedTimer = timer])
         /\ Sound([c EXCEPT !.poll = poll, !.raise = raise])
         /\ Sound([c EXCEPT !.poll = poll, !.raise = raise, !.reconnectedTimer = timer])
  <1>0. c \in Connections /\ Consistent(c) /\ OneTransport(c)
    BY DEF Sound, Consistent
  <1>1. ASSUME NEW d \in Connections, SameSession(c, d),
               d.socket = c.socket, d.eventSource = c.eventSource, d.poll = poll,
               d.reconnectTimer = c.reconnectTimer, d.attemptTimer = c.attemptTimer,
               d.reconnectedTimer = c.reconnectedTimer \/ d.reconnectedTimer = timer
        PROVE  Sound(d)
    <2>1. OneTransport(d)
      BY <1>0, <1>1 DEF OneTransport, SameSession
    <2> QED
      BY <1>0, <1>1, <2>1, SameSessionSound DEF Sound
  <1> DEFINE d1 == [c EXCEPT !.poll = poll]
             d2 == [c EXCEPT !.poll = poll, !.reconnectedTimer = timer]
             d3 == [c EXCEPT !.poll = poll, !.raise = raise]
             d4 == [c EXCEPT !.poll = poll, !.raise = raise, !.reconnectedTimer = timer]
  <1>2. Sound(d1)
    <2>1. d1 \in Connections
      BY <1>0, Updated
    <2>2. /\ SameSession(c, d1) /\ d1.socket = c.socket /\ d1.eventSource = c.eventSource
          /\ d1.poll = poll /\ d1.reconnectTimer = c.reconnectTimer
          /\ d1.attemptTimer = c.attemptTimer /\ d1.reconnectedTimer = c.reconnectedTimer
      BY <1>0 DEF Connections, SameSession
    <2> QED
      BY <1>1, <2>1, <2>2
  <1>3. Sound(d2)
    <2>1. d2 \in Connections
      BY <1>0, Updated
    <2>2. /\ SameSession(c, d2) /\ d2.socket = c.socket /\ d2.eventSource = c.eventSource
          /\ d2.poll = poll /\ d2.reconnectTimer = c.reconnectTimer
          /\ d2.attemptTimer = c.attemptTimer /\ d2.reconnectedTimer = timer
      BY <1>0 DEF Connections, SameSession
    <2> QED
      BY <1>1, <2>1, <2>2
  <1>4. Sound(d3)
    <2>1. d3 \in Connections
      BY <1>0, Updated
    <2>2. /\ SameSession(c, d3) /\ d3.socket = c.socket /\ d3.eventSource = c.eventSource
          /\ d3.poll = poll /\ d3.reconnectTimer = c.reconnectTimer
          /\ d3.attemptTimer = c.attemptTimer /\ d3.reconnectedTimer = c.reconnectedTimer
      BY <1>0 DEF Connections, SameSession
    <2> QED
      BY <1>1, <2>1, <2>2
  <1>5. Sound(d4)
    <2>1. d4 \in Connections
      BY <1>0, Updated
    <2>2. /\ SameSession(c, d4) /\ d4.socket = c.socket /\ d4.eventSource = c.eventSource
          /\ d4.poll = poll /\ d4.reconnectTimer = c.reconnectTimer
          /\ d4.attemptTimer = c.attemptTimer /\ d4.reconnectedTimer = timer
      BY <1>0 DEF Connections, SameSession
    <2> QED
      BY <1>1, <2>1, <2>2
  <1> QED
    BY <1>2, <1>3, <1>4, <1>5

LEMMA PolledSound ==
  ASSUME NEW c, Sound(c), c.state # "disconnected" => c.transport = "longPolling",
         NEW raiseReconnect \in BOOLEAN
  PROVE  Sound(polled(c, raiseReconnect))
  <1>1. CASE c.state = "disconnected"
    BY <1>1, PollSound DEF polled
  <1>2. CASE c.state # "disconnected"
    <2> DEFINE timer == c.reconnectedTimer \/ (c.messageId /\ raiseReconnect)
    <2>1. timer \in BOOLEAN
      OBVIOUS
    <2>2. polled(c, raiseReconnect)
            = [c EXCEPT !.poll = "request", !.raise = raiseReconnect, !.reconnectedTimer = timer]
      BY <1>2 DEF polled
    <2> HIDE DEF timer
    <2>3. c.transport = "longPolling"
      BY <1>2
    <2>4. Sound([c EXCEPT !.poll = "request", !.raise = raiseReconnect, !.reconnectedTimer = timer])
      BY <2>1, <2>3, PollSound
    <2> QED
      BY <2>2, <2>4
  <1> QED
    BY <1>1, <1>2

LEMMA FireReconnectedSound ==
  ASSUME NEW c, Sound(c)
  PROVE  LET d == fireReconnected(c)
         IN  /\ Sound(d)
             /\ d.transport = c.transport /\ d.poll = c.poll
             /\ d.state = "disconnected" <=> c.state = "disconnected"
  <1>0. c \in Connections /\ Consistent(c) /\ OneTransport(c)
    BY DEF Sound, Consistent
  <1> DEFINE b == [c EXCEPT !.reconnectedTimer = FALSE]
  <1>1. b \in Connections /\ SameSession(c, b) /\ b.poll = c.poll
    <2>1. b \in Connections
      BY <1>0, Updated
    <2>2. SameSession(c, b) /\ b.poll = c.poll
      BY <1>0 DEF Connections, SameSession
    <2> QED
      BY <2>1, <2>2
  <1>2. OneTransport(b)
    BY <1>0 DEF Connections, OneTransport
  <1>3. fireReconnected(c) = Reopened(b)
    BY DEF fireReconnected
  <1> HIDE DEF b
  <1>4. Sound(b)
    BY <1>0, <1>1, <1>2, SameSessionSound DEF Sound
  <1> QED
    BY <1>1, <1>3, <1>4, ReopenedSound DEF SameSession

-----------------------------------------------------------------------------
\* The inductive invariant: a sound connection, and ajax sends of known calls.
ClientInv == Sound(conn) /\ sends \subseteq Sends /\ pings \in BOOLEAN

LEMMA NewConnectionSound == Sound(NewConnection)
  <1> DEFINE c == NewConnection
  <1>1. c \in Connections
    BY BeatsAssumption DEF NewConnection, Connections, States, Links, Times, Results
  <1>2. /\ Unlinked(c) /\ c.state = "disconnected" /\ c.transport = "none"
        /\ c.negotiateRequest = "none" /\ ~c.pingTimer /\ ~c.deferredStartHandler
        /\ ~c.monitoring /\ ~c.startRequest /\ c.transportTimeout = "none" /\ ~c.disconnectTimer
        /\ \A v \in Calls : c.calls[v] = "new"
    BY DEF NewConnection, Unlinked
  <1> HIDE DEF c
  <1>3. OneTransport(c) /\ SessionFits(c) /\ WaitersHaveCallbacks(c)
    BY <1>2 DEF OneTransport, Unlinked, SessionFits, WaitersHaveCallbacks
  <1>4. Sound(c)
    BY <1>1, <1>2, <1>3 DEF Sound, Consistent, Clocked, Beating
  <1> QED
    BY <1>4 DEF c

LEMMA StartedSound ==
  ASSUME NEW c, Sound(c), c.state = "disconnected", c.pageLoaded
  PROVE  Sound(Started(c))
  <1>0. c \in Connections /\ Consistent(c) /\ OneTransport(c) /\ SessionFits(c)
        /\ WaitersHaveCallbacks(c)
    BY DEF Sound, Consistent
  <1> DEFINE d == [c EXCEPT !.state = "connecting", !.negotiateRequest = "pending",
                            !.startRequested = FALSE, !.startCompleted = FALSE]
  <1>1. d \in Connections
    BY <1>0, Updated DEF States
  <1>2. /\ SameLinks(c, d) /\ d.state = "connecting" /\ d.pageLoaded
        /\ ~d.startCompleted /\ d.startRequest = c.startRequest
        /\ d.transportTimeout = c.transportTimeout /\ d.monitoring = c.monitoring
        /\ d.disconnectTimer = c.disconnectTimer
        /\ d.calls = c.calls /\ d.invocationCallbacks = c.invocationCallbacks
    BY <1>0 DEF Connections, SameLinks
  <1> HIDE DEF d
  <1>3. OneTransport(d) /\ SessionFits(d) /\ WaitersHaveCallbacks(d)
    BY <1>0, <1>2 DEF OneTransport, SameLinks, SessionFits, WaitersHaveCallbacks
  <1>4. Sound(d)
    BY <1>0, <1>1, <1>2, <1>3 DEF Sound, Consistent, Clocked, Beating
  <1> QED
    BY <1>4 DEF Started, d

\* The application and the page.
LEMMA ApplicationStep ==
  ASSUME Sound(conn), AppStart \/ AppStop \/ PageLoads \/ Sleep \/ Silence
  PROVE  Sound(conn')
  <1>0. conn \in Connections /\ Consistent(conn) /\ OneTransport(conn) /\ SessionFits(conn)
        /\ WaitersHaveCallbacks(conn)
    BY DEF Sound, Consistent
  <1>1. CASE AppStart
    <2>1. CASE conn.pageLoaded /\ conn' = Started(conn)
      BY <1>1, <2>1, StartedSound DEF AppStart
    <2>2. CASE ~conn.pageLoaded /\ conn' = [conn EXCEPT !.deferredStarts = @ + 1,
                                                        !.deferredStartHandler = TRUE]
      <3> DEFINE starts == conn.deferredStarts + 1
                 d == [conn EXCEPT !.deferredStarts = starts, !.deferredStartHandler = TRUE]
      <3>0. starts \in Nat /\ starts > 0
        BY <1>0 DEF Connections
      <3> HIDE DEF starts
      <3>1. d \in Connections
        BY <1>0, <3>0, Updated
      <3>2. /\ SameLinks(conn, d) /\ d.state = conn.state /\ d.deferredStarts > 0
            /\ d.pageLoaded = conn.pageLoaded /\ d.negotiateRequest = conn.negotiateRequest
            /\ d.startCompleted = conn.startCompleted /\ d.startRequest = conn.startRequest
            /\ d.transportTimeout = conn.transportTimeout /\ d.monitoring = conn.monitoring
            /\ d.disconnectTimer = conn.disconnectTimer /\ d.pingTimer = conn.pingTimer
            /\ d.beats = conn.beats
            /\ d.calls = conn.calls /\ d.invocationCallbacks = conn.invocationCallbacks
        BY <1>0, <3>0 DEF Connections, SameLinks
      <3> HIDE DEF d
      <3>3. OneTransport(d) /\ SessionFits(d) /\ WaitersHaveCallbacks(d)
        BY <1>0, <3>2 DEF OneTransport, SameLinks, SessionFits, WaitersHaveCallbacks
      <3>4. Sound(d)
        BY <1>0, <3>1, <3>2, <3>3 DEF Sound, Consistent, Clocked, Beating
      <3> QED
        BY <2>2, <3>4 DEF d, starts
    <2> QED
      BY <1>1, <2>1, <2>2 DEF AppStart
  <1>2. CASE AppStop
    BY <1>0, <1>2, StopSound DEF AppStop
  <1>3. CASE PageLoads
    <2> DEFINE c == [conn EXCEPT !.pageLoaded = TRUE, !.deferredStarts = 0]
    <2>1. c \in Connections
      BY <1>0, Updated
    <2>2. /\ SameLinks(conn, c) /\ c.state = conn.state /\ c.pageLoaded
          /\ c.negotiateRequest = conn.negotiateRequest
          /\ c.startCompleted = conn.startCompleted /\ c.startRequest = conn.startRequest
          /\ c.transportTimeout = conn.transportTimeout /\ c.monitoring = conn.monitoring
          /\ c.disconnectTimer = conn.disconnectTimer /\ c.pingTimer = conn.pingTimer
          /\ c.beats = conn.beats
          /\ c.calls = conn.calls /\ c.invocationCallbacks = conn.invocationCallbacks
      BY <1>0 DEF Connections, SameLinks
    <2>3. conn' = IF conn.deferredStarts > 0 THEN Started(c) ELSE c
      BY <1>3 DEF PageLoads
    <2> HIDE DEF c
    <2>4. OneTransport(c) /\ SessionFits(c) /\ WaitersHaveCallbacks(c)
      BY <1>0, <2>2 DEF OneTransport, SameLinks, SessionFits, WaitersHaveCallbacks
    <2>5. Sound(c)
      BY <1>0, <2>1, <2>2, <2>4 DEF Sound, Consistent, Clocked, Beating
    <2>6. c.state = "disconnected"
      BY <1>0, <1>3, <2>2 DEF SessionFits, PageLoads
    <2> QED
      BY <2>2, <2>3, <2>5, <2>6, StartedSound
  <1>4. CASE Sleep
    <2> DEFINE heard == IF conn.lastMessageAt = "recent" THEN "old" ELSE conn.lastMessageAt
               d == [conn EXCEPT !.lastActiveAt = "old", !.lastMessageAt = heard]
    <2>1. heard \in Times
      BY <1>0 DEF Connections, Times
    <2>2. conn' = d
      BY <1>4 DEF Sleep
    <2> HIDE DEF heard
    <2>3. d \in Connections
      BY <1>0, <2>1, Updated DEF Times
    <2>4. Kept(conn, d) /\ d.beats = conn.beats
      BY <1>0 DEF Connections, Kept, SameLinks
    <2> HIDE DEF d
    <2> QED
      BY <1>0, <2>2, <2>3, <2>4, KeptSound DEF Sound
  <1>5. CASE Silence
    <2> DEFINE d == [conn EXCEPT !.lastMessageAt = "old"]
    <2>1. d \in Connections
      BY <1>0, Updated DEF Times
    <2>2. Kept(conn, d) /\ d.beats = conn.beats
      BY <1>0 DEF Connections, Kept, SameLinks
    <2>3. conn' = d
      BY <1>5 DEF Silence
    <2> HIDE DEF d
    <2> QED
      BY <1>0, <2>1, <2>2, <2>3, KeptSound DEF Sound
  <1> QED
    BY <1>1, <1>2, <1>3, <1>4, <1>5

\* Negotiate, start request, transport timeout.
LEMMA StartStep ==
  ASSUME Sound(conn),
         \/ NegotiateAnswered \/ NegotiateIncompatible \/ NegotiateFailed
         \/ TransportTimeout \/ StartAnswered \/ StartFailed
  PROVE  Sound(conn')
  <1>0. conn \in Connections /\ Consistent(conn) /\ OneTransport(conn) /\ SessionFits(conn)
        /\ WaitersHaveCallbacks(conn)
    BY DEF Sound, Consistent
  <1>1. CASE NegotiateAnswered
    <2>1. PICK tryWebSockets, keepAlive \in BOOLEAN :
            conn' = initialize([conn EXCEPT !.negotiateRequest = "none", !.activated = keepAlive],
                               IF tryWebSockets THEN 1 ELSE 2)
      BY <1>1 DEF NegotiateAnswered
    <2> DEFINE c == [conn EXCEPT !.negotiateRequest = "none", !.activated = keepAlive]
               i == IF tryWebSockets THEN 1 ELSE 2
    <2>2. c \in Connections
      BY <1>0, Updated
    <2>3. /\ SameLinks(conn, c) /\ c.state = conn.state /\ c.negotiateRequest = "none"
          /\ c.pageLoaded = conn.pageLoaded /\ c.deferredStarts = conn.deferredStarts
          /\ c.deferredStartHandler = conn.deferredStartHandler
          /\ c.startCompleted = conn.startCompleted /\ c.startRequest = conn.startRequest
          /\ c.transportTimeout = conn.transportTimeout /\ c.monitoring = conn.monitoring
          /\ c.disconnectTimer = conn.disconnectTimer /\ c.pingTimer = conn.pingTimer
          /\ c.beats = conn.beats
          /\ c.calls = conn.calls /\ c.invocationCallbacks = conn.invocationCallbacks
      BY <1>0 DEF Connections, SameLinks
    <2>4. i \in 1..5
      OBVIOUS
    <2> HIDE DEF c, i
    <2>5. OneTransport(c) /\ SessionFits(c) /\ WaitersHaveCallbacks(c)
      BY <1>0, <2>3 DEF OneTransport, SameLinks, SessionFits, WaitersHaveCallbacks
    <2>6. Sound(c)
      BY <1>0, <2>2, <2>3, <2>5 DEF Sound, Consistent, Clocked, Beating
    <2>7. conn.transport = "none"
      BY <1>0, <1>1 DEF NegotiateAnswered, OneTransport
    <2>8. Unlinked(c) /\ ~c.monitoring
      BY <2>3, <2>5, <2>7 DEF OneTransport, SameLinks, Unlinked
    <2>9. Sound(initialize(c, i))
      BY <2>3, <2>4, <2>6, <2>8, InitializeSound
    <2> QED
      BY <2>1, <2>9 DEF c, i
  <1>2. CASE NegotiateIncompatible
    <2> DEFINE d == [conn EXCEPT !.negotiateRequest = "incompatible"]
    <2>1. d \in Connections
      BY <1>0, Updated
    <2>2. /\ SameLinks(conn, d) /\ d.state = conn.state
          /\ d.pageLoaded = conn.pageLoaded /\ d.deferredStarts = conn.deferredStarts
          /\ d.deferredStartHandler = conn.deferredStartHandler
          /\ d.startCompleted = conn.startCompleted /\ d.startRequest = conn.startRequest
          /\ d.transportTimeout = conn.transportTimeout /\ d.monitoring = conn.monitoring
          /\ d.disconnectTimer = conn.disconnectTimer /\ d.pingTimer = conn.pingTimer
          /\ d.beats = conn.beats
          /\ d.calls = conn.calls /\ d.invocationCallbacks = conn.invocationCallbacks
      BY <1>0 DEF Connections, SameLinks
    <2>3. conn.negotiateRequest = "pending" /\ conn' = d
      BY <1>2 DEF NegotiateIncompatible
    <2> HIDE DEF d
    <2>4. OneTransport(d) /\ SessionFits(d) /\ WaitersHaveCallbacks(d)
      BY <1>0, <2>2, <2>3 DEF OneTransport, SameLinks, SessionFits, WaitersHaveCallbacks
    <2> QED
      BY <1>0, <2>1, <2>2, <2>3, <2>4 DEF Sound, Consistent, Clocked, Beating
  <1>3. CASE NegotiateFailed
    BY <1>0, <1>3, StopSound DEF NegotiateFailed
  <1>4. CASE TransportTimeout
    <2> DEFINE c == [conn EXCEPT !.transportTimeout = "none"]
    <2>1. c \in Connections
      BY <1>0, Updated
    <2>2. Kept(conn, c) /\ c.beats = conn.beats
      BY <1>0 DEF Connections, Kept, SameLinks
    <2>3. conn' = IF c.failCalled THEN c ELSE transportFailed(c)
      BY <1>4 DEF TransportTimeout
    <2>4. conn.transport # "none"
      BY <1>0, <1>4 DEF TransportTimeout, OneTransport
    <2> HIDE DEF c
    <2>5. Sound(c) /\ c.transport # "none"
      BY <1>0, <2>1, <2>2, <2>4, KeptSound DEF Sound, Kept, SameLinks
    <2> QED
      BY <2>3, <2>5, TransportFailedSound
  <1>5. CASE StartAnswered
    BY <1>5, ConnectedSound DEF StartAnswered
  <1>6. CASE StartFailed
    <2> DEFINE c == [conn EXCEPT !.startRequest = FALSE]
    <2>1. c \in Connections
      BY <1>0, Updated
    <2>2. /\ SameLinks(conn, c) /\ c.state = conn.state /\ ~c.startRequest
          /\ c.pageLoaded = conn.pageLoaded /\ c.deferredStarts = conn.deferredStarts
          /\ c.deferredStartHandler = conn.deferredStartHandler
          /\ c.negotiateRequest = conn.negotiateRequest
          /\ c.startCompleted = conn.startCompleted
          /\ c.transportTimeout = conn.transportTimeout /\ c.monitoring = conn.monitoring
          /\ c.disconnectTimer = conn.disconnectTimer /\ c.pingTimer = conn.pingTimer
          /\ c.calls = conn.calls /\ c.invocationCallbacks = conn.invocationCallbacks
      BY <1>0 DEF Connections, SameLinks
    <2>3. conn' = stop(c)
      BY <1>6 DEF StartFailed
    <2> HIDE DEF c
    <2>4. OneTransport(c) /\ SessionFits(c) /\ WaitersHaveCallbacks(c)
      BY <1>0, <2>2 DEF OneTransport, SameLinks, SessionFits, WaitersHaveCallbacks
    <2>5. Consistent(c)
      BY <1>0, <2>1, <2>2, <2>4 DEF Consistent
    <2> QED
      BY <2>3, <2>5, StopSound
  <1> QED
    BY <1>1, <1>2, <1>3, <1>4, <1>5, <1>6

\* A link that opens, closes or begins again is of the transport it was.
LEMMA LinkSound ==
  ASSUME NEW c, Sound(c), NEW link \in Links
  PROVE  /\ c.socket # "none" => Sound([c EXCEPT !.socket = link])
         /\ c.eventSource # "none" => Sound([c EXCEPT !.eventSource = link])
  <1>0. c \in Connections /\ Consistent(c) /\ OneTransport(c)
    BY DEF Sound, Consistent
  <1> DEFINE d == [c EXCEPT !.socket = link]
             e == [c EXCEPT !.eventSource = link]
  <1>1. d \in Connections /\ SameSession(c, d)
    <2>1. d \in Connections
      BY <1>0, Updated
    <2>2. SameSession(c, d)
      BY <1>0 DEF Connections, SameSession
    <2> QED
      BY <2>1, <2>2
  <1>2. e \in Connections /\ SameSession(c, e)
    <2>1. e \in Connections
      BY <1>0, Updated
    <2>2. SameSession(c, e)
      BY <1>0 DEF Connections, SameSession
    <2> QED
      BY <2>1, <2>2
  <1>3. c.socket # "none" => OneTransport(d)
    BY <1>0 DEF OneTransport, Connections
  <1>4. c.eventSource # "none" => OneTransport(e)
    BY <1>0 DEF OneTransport, Connections
  <1> HIDE DEF d, e
  <1>5. c.socket # "none" => Sound(d)
    BY <1>0, <1>1, <1>3, SameSessionSound DEF Sound
  <1>6. c.eventSource # "none" => Sound(e)
    BY <1>0, <1>2, <1>4, SameSessionSound DEF Sound
  <1> QED
    BY <1>5, <1>6 DEF d, e

\* The new socket or event source has its transport.
LEMMA LinkTransport ==
  ASSUME NEW c, Sound(c), NEW link \in Links
  PROVE  LET d == [c EXCEPT !.socket = link]
             e == [c EXCEPT !.eventSource = link]
         IN  /\ c.socket # "none" => d.transport = "webSockets"
             /\ c.eventSource # "none" => e.transport = "serverSentEvents"
  BY DEF Sound, Consistent, OneTransport, Connections

\* Web sockets and server-sent events: what happens to the link.
LEMMA LinkStep ==
  ASSUME Sound(conn),
         SocketOpens \/ SocketCloses \/ SourceOpens \/ SourceErrors \/ LinkMessage \/ LinkUnparsable
  PROVE  Sound(conn')
  <1>0. conn \in Connections /\ Consistent(conn) /\ OneTransport(conn)
    BY DEF Sound, Consistent
  <1>k. {"opening", "open", "closed"} \subseteq Links
    BY DEF Links
  <1>1. CASE SocketOpens
    <2>1. Sound([conn EXCEPT !.socket = "open"])
      BY <1>1, <1>k, LinkSound DEF SocketOpens
    <2> QED
      BY <1>1, <2>1, ReopenedSound DEF SocketOpens
  <1>2. CASE SocketCloses
    <2> DEFINE c == [conn EXCEPT !.socket = "closed"]
    <2>1. conn.socket # "none" /\ conn' = LinkLost(c)
      BY <1>2 DEF SocketCloses
    <2>2. Sound(c) /\ c.transport = "webSockets"
      BY <2>1, <1>k, LinkSound, LinkTransport
    <2> HIDE DEF c
    <2> QED
      BY <2>1, <2>2, LinkLostSound
  <1>3. CASE SourceOpens
    <2>1. Sound([conn EXCEPT !.eventSource = "open"])
      BY <1>3, <1>k, LinkSound DEF SourceOpens
    <2> QED
      BY <1>3, <2>1, ReopenedSound DEF SourceOpens
  <1>4. CASE SourceErrors
    <2> DEFINE c == [conn EXCEPT !.eventSource = "closed"]
               d == [conn EXCEPT !.eventSource = "opening"]
    <2>1. conn.eventSource # "none"
      BY <1>4 DEF SourceErrors
    <2>2. conn' = LinkLost(c) \/ conn' = IF d.initial THEN transportFailed(d) ELSE d
      BY <1>4 DEF SourceErrors
    <2>3. Sound(c) /\ c.transport = "serverSentEvents"
      BY <2>1, <1>k, LinkSound, LinkTransport
    <2>4. Sound(d) /\ d.transport = "serverSentEvents"
      BY <2>1, <1>k, LinkSound, LinkTransport
    <2> HIDE DEF c, d
    <2>5. Sound(LinkLost(c)) /\ Sound(transportFailed(d))
      BY <2>3, <2>4, LinkLostSound, TransportFailedSound
    <2> QED
      BY <2>2, <2>4, <2>5
  <1>5. CASE LinkMessage
    <2> DEFINE c == [conn EXCEPT !.lastMessageAt = "recent"]
    <2>1. c \in Connections
      BY <1>0, Updated DEF Times
    <2>2. Kept(conn, c) /\ c.beats = conn.beats
      BY <1>0 DEF Connections, Kept, SameLinks
    <2>3. conn' = c \/ conn' = initReceived(c)
      BY <1>5 DEF LinkMessage
    <2>4. conn.transport # "none"
      BY <1>0, <1>5 DEF LinkMessage, OneTransport
    <2> HIDE DEF c
    <2>5. Sound(c) /\ c.transport # "none"
      BY <1>0, <2>1, <2>2, <2>4, KeptSound DEF Sound, Kept, SameLinks
    <2> QED
      BY <2>3, <2>5, InitReceivedSound
  <1>6. CASE LinkUnparsable
    <2>1. conn.transport # "none"
      BY <1>0, <1>6 DEF LinkUnparsable, OneTransport
    <2> QED
      BY <1>6, <2>1, ParseFailureSound DEF LinkUnparsable
  <1> QED
    BY <1>1, <1>2, <1>3, <1>4, <1>5, <1>6

\* The timers of a session.
LEMMA TimerStep ==
  ASSUME Sound(conn), AttemptTimeout \/ ReconnectTimeout \/ DisconnectTimeout \/ Beat
  PROVE  Sound(conn')
  <1>0. conn \in Connections /\ Consistent(conn) /\ OneTransport(conn) /\ SessionFits(conn)
        /\ WaitersHaveCallbacks(conn)
    BY DEF Sound, Consistent
  <1>1. CASE AttemptTimeout
    <2> DEFINE c == [conn EXCEPT !.attemptTimer = FALSE]
    <2>1. c \in Connections /\ SameSession(conn, c)
      <3>1. c \in Connections
        BY <1>0, Updated
      <3>2. SameSession(conn, c)
        BY <1>0 DEF Connections, SameSession
      <3> QED
        BY <3>1, <3>2
    <2>2. OneTransport(c)
      BY <1>0 DEF Connections, OneTransport
    <2>3. conn' = (IF c.eventSource # "open" THEN reconnect(c) ELSE c)
          /\ conn.transport = "serverSentEvents"
      BY <1>0, <1>1 DEF AttemptTimeout, OneTransport
    <2> HIDE DEF c
    <2>4. Sound(c) /\ c.transport = "serverSentEvents"
      BY <1>0, <2>1, <2>2, <2>3, SameSessionSound DEF Sound, SameSession
    <2>5. Sound(reconnect(c))
      BY <2>4, ReconnectSound DEF Sound
    <2> QED
      BY <2>3, <2>4, <2>5
  <1>2. CASE ReconnectTimeout
    <2>1. PICK appStops, throws, errorStops \in BOOLEAN :
            conn' = IF Inactive(conn) THEN stop(conn)
                    ELSE LET c == ensureReconnectingState(transportStop(conn), appStops)
                         IN  IF c.state # "reconnecting" THEN c
                             ELSE IF throws /\ c.transport = "serverSentEvents"
                                  THEN eventSourceThrows(c, errorStops)
                             ELSE transportStart(c, TRUE)
      BY <1>2 DEF ReconnectTimeout
    <2> DEFINE b == transportStop(conn)
               c == ensureReconnectingState(b, appStops)
    <2>2. b \in Connections /\ SameSession(conn, b) /\ Unlinked(b) /\ OneTransport(b)
      BY <1>0, TransportStops
    <2>3. conn.transport # "none"
      BY <1>0, <1>2 DEF ReconnectTimeout, OneTransport
    <2>4. conn' = IF Inactive(conn) THEN stop(conn)
                  ELSE IF c.state # "reconnecting" THEN c
                  ELSE IF throws /\ c.transport = "serverSentEvents"
                       THEN eventSourceThrows(c, errorStops)
                  ELSE transportStart(c, TRUE)
      BY <2>1
    <2> HIDE DEF b
    <2>5. Sound(b)
      BY <1>0, <2>2, SameSessionSound DEF Sound
    <2>6. Sound(c) /\ (c.state # "disconnected" => SameLinks(b, c))
      BY <2>5, EnsureReconnectingSound
    <2> HIDE DEF c
    <2>7. ASSUME c.state = "reconnecting"
          PROVE  Sound(transportStart(c, TRUE))
      <3>1. Consistent(c) /\ Unlinked(c) /\ c.transport # "none"
        BY <2>2, <2>3, <2>6, <2>7 DEF Sound, SameLinks, Unlinked, SameSession
      <3> QED
        BY <2>6, <3>1, TransportStarts DEF Sound
    <2>8. Sound(stop(conn))
      BY <1>0, StopSound
    <2>9. ASSUME c.state = "reconnecting", c.transport = "serverSentEvents"
          PROVE  Sound(eventSourceThrows(c, errorStops))
      <3>1. Sound(reconnect(c))
        BY <2>6, <2>9, ReconnectSound DEF Sound
      <3>2. Sound(stop(c)) /\ stop(c).state = "disconnected"
        BY <2>6, StopSound DEF Sound
      <3>3. reconnect(stop(c)) = stop(c)
        BY <3>2 DEF reconnect
      <3> QED
        BY <3>1, <3>2, <3>3 DEF eventSourceThrows
    <2> QED
      BY <2>4, <2>6, <2>7, <2>8, <2>9
  <1>3. CASE DisconnectTimeout
    <2> DEFINE c == [conn EXCEPT !.disconnectTimer = FALSE]
    <2>1. c \in Connections
      BY <1>0, Updated
    <2>2. /\ SameLinks(conn, c) /\ c.state = conn.state /\ ~c.disconnectTimer
          /\ c.startRequest = conn.startRequest
          /\ c.pageLoaded = conn.pageLoaded /\ c.deferredStarts = conn.deferredStarts
          /\ c.deferredStartHandler = conn.deferredStartHandler
          /\ c.negotiateRequest = conn.negotiateRequest
          /\ c.startCompleted = conn.startCompleted
          /\ c.transportTimeout = conn.transportTimeout /\ c.monitoring = conn.monitoring
          /\ c.pingTimer = conn.pingTimer
          /\ c.calls = conn.calls /\ c.invocationCallbacks = conn.invocationCallbacks
      BY <1>0 DEF Connections, SameLinks
    <2>3. conn' = stop(c)
      BY <1>3 DEF DisconnectTimeout
    <2> HIDE DEF c
    <2>4. OneTransport(c) /\ SessionFits(c) /\ WaitersHaveCallbacks(c)
      BY <1>0, <2>2 DEF OneTransport, SameLinks, SessionFits, WaitersHaveCallbacks
    <2>5. Consistent(c)
      BY <2>1, <2>2, <2>4 DEF Consistent
    <2> QED
      BY <2>3, <2>5, StopSound
  <1>4. CASE Beat
    <2>1. \E b \in Beats, slowStops \in BOOLEAN : conn' = beat(conn, b, slowStops)
      BY <1>0, <1>4 DEF Beat, Connections
    <2> QED
      BY <2>1, BeatSound
  <1> QED
    BY <1>1, <1>2, <1>3, <1>4

\* A poll that is answered, in the order of its handler.
LEMMA PollAnsweredSound ==
  ASSUME Sound(conn), PollAnswered
  PROVE  Sound(conn')
  <1>p. PICK id, init, shouldReconnect, delay \in BOOLEAN, appStops \in {"no", "message", "event"} :
          LET c == IF conn.reconnectedTimer THEN fireReconnected(conn) ELSE conn
              d == [c EXCEPT !.lastMessageAt = "recent", !.messageId = @ \/ id]
              e == IF init THEN initReceived(d) ELSE d
              f == IF appStops = "message" THEN stop(e) ELSE e
              g == IF shouldReconnect THEN ensureReconnectingState(f, appStops = "event") ELSE f
          IN  conn' = IF \/ f.state = "disconnected"
                         \/ shouldReconnect /\ g.state # "reconnecting"
                      THEN [g EXCEPT !.poll = "none"]
                      ELSE IF delay THEN [g EXCEPT !.poll = "delay", !.raise = shouldReconnect]
                      ELSE polled(g, shouldReconnect)
    BY DEF PollAnswered
  <1>0. conn \in Connections /\ Consistent(conn) /\ OneTransport(conn)
    BY DEF Sound, Consistent
  <1> DEFINE c == IF conn.reconnectedTimer THEN fireReconnected(conn) ELSE conn
             known == c.messageId \/ id
             d == [c EXCEPT !.lastMessageAt = "recent", !.messageId = known]
             e == IF init THEN initReceived(d) ELSE d
             f == IF appStops = "message" THEN stop(e) ELSE e
             g == IF shouldReconnect THEN ensureReconnectingState(f, appStops = "event") ELSE f
  <1>r. conn' = IF \/ f.state = "disconnected"
                   \/ shouldReconnect /\ g.state # "reconnecting"
                THEN [g EXCEPT !.poll = "none"]
                ELSE IF delay THEN [g EXCEPT !.poll = "delay", !.raise = shouldReconnect]
                ELSE polled(g, shouldReconnect)
    BY <1>p
  <1>1. Sound(c) /\ c.transport = "longPolling"
    BY <1>0, FireReconnectedSound DEF OneTransport, PollAnswered
  <1> HIDE DEF c
  <1>2. c \in Connections /\ Consistent(c) /\ known \in BOOLEAN
    BY <1>1 DEF Sound, Consistent
  <1> HIDE DEF known
  <1>3. d \in Connections
    BY <1>2, Updated DEF Times
  <1>4. Kept(c, d) /\ d.beats = c.beats
    BY <1>2 DEF Connections, Kept, SameLinks
  <1> HIDE DEF d
  <1>5. Sound(d) /\ d.transport = "longPolling"
    BY <1>1, <1>2, <1>3, <1>4, KeptSound DEF Sound, Kept, SameLinks
  <1>6. Sound(e) /\ e.transport = "longPolling"
    BY <1>5, InitReceivedSound DEF SameLinks
  <1> HIDE DEF e
  <1>7. Sound(f) /\ (f.state # "disconnected" => f.transport = "longPolling")
    BY <1>6, StopSound DEF Sound
  <1> HIDE DEF f
  <1>8. Sound(g) /\ (g.state # "disconnected" => g.transport = f.transport)
    BY <1>7, EnsureReconnectingSound DEF SameLinks
  <1>9. ~shouldReconnect => g = f
    OBVIOUS
  <1> HIDE DEF g
  <1>10. Sound([g EXCEPT !.poll = "none"])
    BY <1>8, PollSound
  <1>11. ASSUME ~(f.state = "disconnected" \/ (shouldReconnect /\ g.state # "reconnecting"))
         PROVE  /\ Sound([g EXCEPT !.poll = "delay", !.raise = shouldReconnect])
                /\ Sound(polled(g, shouldReconnect))
    <2>1. g.transport = "longPolling"
      BY <1>7, <1>8, <1>9, <1>11
    <2>2. Sound([g EXCEPT !.poll = "delay", !.raise = shouldReconnect])
      BY <1>8, <2>1, PollSound
    <2>3. Sound(polled(g, shouldReconnect))
      BY <1>8, <2>1, PolledSound
    <2> QED
      BY <2>2, <2>3
  <1> QED
    BY <1>r, <1>10, <1>11

LEMMA PollStep ==
  ASSUME Sound(conn), Poll \/ PollAnswered \/ PollUnparsable \/ PollFails \/ ReconnectedTimeout
  PROVE  Sound(conn')
  <1>0. conn \in Connections /\ Consistent(conn) /\ OneTransport(conn)
    BY DEF Sound, Consistent
  <1>1. CASE Poll
    <2>1. conn.transport = "longPolling" /\ conn.raise \in BOOLEAN
          /\ conn' = polled(conn, conn.raise)
      BY <1>0, <1>1 DEF Poll, OneTransport, Connections
    <2> QED
      BY <2>1, PolledSound
  <1>2. CASE PollAnswered
    BY <1>2, PollAnsweredSound
  <1>3. CASE PollUnparsable
    <2> DEFINE c == [conn EXCEPT !.poll = "none"]
    <2>1. conn' = parseFailure(c) /\ conn.transport = "longPolling"
      BY <1>0, <1>3 DEF PollUnparsable, OneTransport
    <2>2. Sound(c)
      BY PollSound
    <2>3. c.transport = conn.transport
      BY <1>0 DEF Connections
    <2> HIDE DEF c
    <2> QED
      BY <2>1, <2>2, <2>3, ParseFailureSound
  <1>4. CASE PollFails
    <2> DEFINE c == [conn EXCEPT !.poll = "none", !.reconnectedTimer = FALSE]
               d == transportFailed(c)
               e(appStops) == ensureReconnectingState(d, appStops)
    <2>1. PICK appStops \in BOOLEAN :
            conn' = IF shouldStop(c) THEN d
                    ELSE IF d.state \in {"connected", "reconnecting"} /\ Inactive(d) THEN stop(d)
                    ELSE IF e(appStops).state # "reconnecting" THEN e(appStops)
                    ELSE [e(appStops) EXCEPT !.poll = "delay", !.raise = TRUE]
      BY <1>4 DEF PollFails
    <2>2. Sound(c)
      BY PollSound
    <2>3. c.transport = "longPolling"
      BY <1>0, <1>4 DEF PollFails, OneTransport, Connections
    <2> HIDE DEF c
    <2>4. Sound(d) /\ (~shouldStop(c) => d.transport = "longPolling")
      BY <2>2, <2>3, TransportFailedSound DEF shouldStop, SameLinks
    <2> HIDE DEF d
    <2>5. Sound(e(appStops)) /\ (e(appStops).state # "disconnected" => SameLinks(d, e(appStops)))
      BY <2>4, EnsureReconnectingSound
    <2>6. Sound(stop(d))
      BY <2>4, StopSound DEF Sound
    <2> HIDE DEF e
    <2>7. ASSUME ~shouldStop(c), e(appStops).state = "reconnecting"
          PROVE  Sound([e(appStops) EXCEPT !.poll = "delay", !.raise = TRUE])
      <3>1. e(appStops).transport = "longPolling"
        BY <2>4, <2>5, <2>7 DEF SameLinks
      <3> QED
        BY <2>5, <3>1, PollSound
    <2> QED
      BY <2>1, <2>4, <2>5, <2>6, <2>7
  <1>5. CASE ReconnectedTimeout
    BY <1>5, FireReconnectedSound DEF ReconnectedTimeout
  <1> QED
    BY <1>1, <1>2, <1>3, <1>4, <1>5

\* hub.invoke: the caller waits exactly when there is a session and its callback is kept.
LEMMA InvokeStep ==
  ASSUME ClientInv, NEW v \in Calls, Invoke(v)
  PROVE  ClientInv'
  <1>0. conn \in Connections /\ Consistent(conn) /\ OneTransport(conn) /\ SessionFits(conn)
        /\ WaitersHaveCallbacks(conn)
    BY DEF ClientInv, Sound, Consistent
  <1> DEFINE s == [id |-> conn.invocationCallbackId, call |-> v]
             stored == conn.invocationCallbacks \cup {s}
             next == conn.invocationCallbackId + 1
             results(r) == [conn.calls EXCEPT ![v] = r]
             d(r) == [conn EXCEPT !.invocationCallbacks = stored,
                                  !.invocationCallbackId = next,
                                  !.calls = results(r)]
             c == d("waiting")
             asks == c.asked \cup {s}
             a == [c EXCEPT !.asked = asks]
  <1>1. /\ s \in Sends /\ s.call = v /\ next \in Nat
        /\ conn.calls \in [Calls -> Results] /\ conn.invocationCallbacks \in SUBSET Sends
    BY <1>0 DEF Connections, Sends
  <1>2. stored \in SUBSET Sends /\ s \in stored /\ conn.invocationCallbacks \subseteq stored
    BY <1>1
  <1>3. ASSUME NEW r \in {"waiting", "threw"}
        PROVE  /\ results(r) \in [Calls -> Results]
               /\ results(r)[v] = r
               /\ \A w \in Calls : w # v => results(r)[w] = conn.calls[w]
    BY <1>1 DEF Results
  <1> HIDE DEF stored, next, results
  <1>4. ASSUME NEW r \in {"waiting", "threw"}, r = "waiting" => conn.state # "disconnected"
        PROVE  Sound(d(r)) /\ d(r) \in Connections /\ d(r).calls[v] = r
    <2> DEFINE e == d(r)
    <2>1. e \in Connections
      BY <1>0, <1>1, <1>2, <1>3, Updated
    <2>2. /\ SameLinks(conn, e) /\ e.state = conn.state
          /\ e.startRequest = conn.startRequest
          /\ e.pageLoaded = conn.pageLoaded /\ e.deferredStarts = conn.deferredStarts
          /\ e.deferredStartHandler = conn.deferredStartHandler
          /\ e.negotiateRequest = conn.negotiateRequest
          /\ e.startCompleted = conn.startCompleted
          /\ e.transportTimeout = conn.transportTimeout /\ e.monitoring = conn.monitoring
          /\ e.pingTimer = conn.pingTimer /\ e.disconnectTimer = conn.disconnectTimer
          /\ e.beats = conn.beats
          /\ e.calls = results(r) /\ e.invocationCallbacks = stored
      BY <1>0 DEF Connections, SameLinks
    <2> HIDE DEF d
    <2>3. OneTransport(e) /\ SessionFits(e)
      BY <1>0, <2>2 DEF OneTransport, SameLinks, SessionFits
    <2>4. WaitersHaveCallbacks(e)
      BY <1>0, <1>1, <1>2, <1>3, <1>4, <2>2 DEF WaitersHaveCallbacks
    <2>5. Sound(e)
      BY <1>0, <2>1, <2>2, <2>3, <2>4 DEF ClientInv, Sound, Consistent, Clocked, Beating
    <2> QED
      BY <1>3, <2>1, <2>2, <2>5
  <1>5. [c EXCEPT !.calls[v] = "threw"] = d("threw")
    BY <1>0, <1>1 DEF Connections, results
  <1>6. conn.state \in {"connected", "reconnecting"} => Sound(c) /\ c \in Connections
    BY <1>4
  <1>7. CASE /\ conn.state \in {"disconnected", "connecting"}
             /\ conn' = [c EXCEPT !.calls[v] = "threw"]
             /\ UNCHANGED <<sends, pings>>
    BY <1>4, <1>5, <1>7 DEF ClientInv
  <1>8. CASE /\ conn.state \in {"connected", "reconnecting"}
             /\ conn' = CASE c.socket = "open" -> a
                          [] c.socket = "closed" -> c
                          [] OTHER -> Settle(c, s.id, "rejected")
             /\ UNCHANGED <<sends, pings>>
    <2> HIDE DEF c
    <2>1. asks \in SUBSET Sends
      BY <1>1, <1>6, <1>8 DEF Connections
    <2> HIDE DEF asks
    <2>2. a \in Connections
      BY <1>6, <1>8, <2>1, Updated
    <2>3. Kept(c, a) /\ a.beats = c.beats
      BY <1>6, <1>8 DEF Connections, Kept, SameLinks
    <2> HIDE DEF a
    <2>4. Sound(a)
      BY <1>6, <1>8, <2>2, <2>3, KeptSound DEF Sound
    <2>5. Sound(Settle(c, s.id, "rejected"))
      BY <1>6, <1>8, SettleSound
    <2>6. conn' \in {a, c, Settle(c, s.id, "rejected")}
      BY <1>8
    <2> QED
      BY <1>6, <1>8, <2>4, <2>5, <2>6 DEF ClientInv
  <1>9. CASE /\ conn.state \in {"connected", "reconnecting"}
             /\ conn' = c /\ sends' = sends \cup {s} /\ UNCHANGED pings
    BY <1>1, <1>6, <1>9 DEF ClientInv
  <1>10. c = [conn EXCEPT !.invocationCallbacks = @ \cup {s},
                          !.invocationCallbackId = @ + 1,
                          !.calls[v] = "waiting"]
    BY DEF stored, next, results
  <1> QED
    BY <1>7, <1>8, <1>9, <1>10 DEF Invoke

\* Pings and the answers of calls.
LEMMA AnswerStep ==
  ASSUME ClientInv, Ping \/ PingAnswered \/ SocketResult \/ \E s \in sends : SendAnswered(s)
  PROVE  ClientInv'
  <1>0. conn \in Connections /\ Consistent(conn) /\ Sound(conn)
    BY DEF ClientInv, Sound, Consistent
  <1>1. CASE Ping
    BY <1>1 DEF Ping, ClientInv
  <1>2. CASE PingAnswered
    BY <1>0, <1>2, StopSound DEF PingAnswered, ClientInv
  <1>3. CASE SocketResult
    <2>1. PICK s \in conn.asked :
            conn' = Settle([conn EXCEPT !.asked = @ \ {s}], s.id, "resolved")
      BY <1>3 DEF SocketResult
    <2> DEFINE left == conn.asked \ {s}
               c == [conn EXCEPT !.asked = left]
    <2>2. left \in SUBSET Sends
      BY <1>0 DEF Connections
    <2>3. conn' = Settle(c, s.id, "resolved")
      BY <2>1
    <2> HIDE DEF left
    <2>4. c \in Connections
      BY <1>0, <2>2, Updated
    <2>5. Kept(conn, c) /\ c.beats = conn.beats
      BY <1>0 DEF Connections, Kept, SameLinks
    <2> HIDE DEF c
    <2>6. Sound(c)
      BY <1>0, <2>4, <2>5, KeptSound DEF Sound
    <2> QED
      BY <1>3, <2>3, <2>6, SettleSound DEF SocketResult, Rest, ClientInv
  <1>4. ASSUME NEW s \in sends, SendAnswered(s)
        PROVE  ClientInv'
    <2>1. /\ Sound(Settle(conn, s.id, "resolved")) /\ Sound(Settle(conn, s.id, "rejected"))
          /\ Sound(stop(Settle(conn, s.id, "rejected")))
      BY <1>0, SettleSound, StopSound DEF Sound
    <2>2. sends' \subseteq Sends /\ pings' \in BOOLEAN
      BY <1>4 DEF SendAnswered, ClientInv
    <2>3. Sound(conn')
      BY <1>0, <1>4, <2>1 DEF SendAnswered
    <2> QED
      BY <2>2, <2>3 DEF ClientInv
  <1> QED
    BY <1>1, <1>2, <1>3, <1>4

LEMMA ClientStep == ClientInv /\ [ClientNext]_clientVars => ClientInv'
  <1> SUFFICES ASSUME ClientInv, [ClientNext]_clientVars PROVE ClientInv'
    OBVIOUS
  <1>0. Sound(conn) /\ sends \subseteq Sends /\ pings \in BOOLEAN
    BY DEF ClientInv
  <1>1. CASE AppStart \/ AppStop \/ PageLoads \/ Sleep \/ Silence
    BY <1>0, <1>1, ApplicationStep
       DEF ClientInv, Rest, AppStart, AppStop, PageLoads, Sleep, Silence
  <1>2. CASE \/ NegotiateAnswered \/ NegotiateIncompatible \/ NegotiateFailed
             \/ TransportTimeout \/ StartAnswered \/ StartFailed
    BY <1>0, <1>2, StartStep
       DEF ClientInv, Rest, NegotiateAnswered, NegotiateIncompatible, NegotiateFailed,
           TransportTimeout, StartAnswered, StartFailed
  <1>3. CASE \/ SocketOpens \/ SocketCloses \/ SourceOpens \/ SourceErrors
             \/ LinkMessage \/ LinkUnparsable
    BY <1>0, <1>3, LinkStep
       DEF ClientInv, Rest, SocketOpens, SocketCloses, SourceOpens, SourceErrors, LinkMessage,
           LinkUnparsable
  <1>4. CASE AttemptTimeout \/ ReconnectTimeout \/ DisconnectTimeout \/ Beat
    BY <1>0, <1>4, TimerStep
       DEF ClientInv, Rest, AttemptTimeout, ReconnectTimeout, DisconnectTimeout, Beat
  <1>5. CASE Poll \/ PollAnswered \/ PollUnparsable \/ PollFails \/ ReconnectedTimeout
    BY <1>0, <1>5, PollStep
       DEF ClientInv, Rest, Poll, PollAnswered, PollUnparsable, PollFails, ReconnectedTimeout
  <1>6. CASE \E v \in Calls : Invoke(v)
    BY <1>6, InvokeStep
  <1>7. CASE Ping \/ PingAnswered \/ SocketResult \/ \E s \in sends : SendAnswered(s)
    BY <1>7, AnswerStep
  <1>8. CASE UNCHANGED clientVars
    BY <1>0, <1>8 DEF clientVars, ClientInv
  <1> QED
    BY <1>1, <1>2, <1>3, <1>4, <1>5, <1>6, <1>7, <1>8 DEF ClientNext

LEMMA ClientInvariance == ClientSpec => []ClientInv
  <1>1. ClientInit => ClientInv
    BY NewConnectionSound DEF ClientInit, ClientInv
  <1> QED
    BY <1>1, ClientStep, PTL DEF ClientSpec

\* The connection object keeps its type, for any calls and heartbeats.
THEOREM ClientIsTyped == ClientSpec => []ClientTypeOK
  <1>1. ClientInv => ClientTypeOK
    BY DEF ClientInv, Sound, Consistent, ClientTypeOK
  <1> QED
    BY <1>1, ClientInvariance, PTL

\* A connection that is disconnected has nothing left that could open it again.
THEOREM StopLeavesNothing == ClientSpec => []QuietWhenDisconnected
  <1>1. ClientInv => QuietWhenDisconnected
    BY DEF ClientInv, Sound, Consistent, OneTransport, SessionFits, QuietWhenDisconnected
  <1> QED
    BY <1>1, ClientInvariance, PTL

\* Through fallback and reconnecting there is at most one link.
THEOREM OneLinkAtATime == ClientSpec => []OneLink
  <1>1. ClientInv => OneLink
    <2> SUFFICES ASSUME ClientInv PROVE OneLink
      OBVIOUS
    <2> DEFINE links == {l \in {1, 2, 3} : \/ l = 1 /\ conn.socket # "none"
                                           \/ l = 2 /\ conn.eventSource # "none"
                                           \/ l = 3 /\ conn.poll # "none"}
    <2>1. OneTransport(conn)
      BY DEF ClientInv, Sound, Consistent
    <2>2. links = {} \/ links = {1} \/ links = {2} \/ links = {3}
      BY <2>1 DEF OneTransport
    <2> HIDE DEF links
    <2>3. /\ Cardinality({}) = 0
          /\ Cardinality({1}) = 1 /\ Cardinality({2}) = 1 /\ Cardinality({3}) = 1
      BY FS_EmptySet, FS_Singleton
    <2>4. Cardinality(links) <= 1
      BY <2>2, <2>3
    <2> QED
      BY <2>4 DEF OneLink, links
  <1> QED
    BY <1>1, ClientInvariance, PTL

\* The disconnect timeout runs exactly while the connection is reconnecting, and a session
\* keeps a heartbeat.
THEOREM ClientTimersFit == ClientSpec => []TimersFitState
  <1>1. ClientInv => TimersFitState
    BY DEF ClientInv, Sound, Consistent, Clocked, Beating, TimersFitState
  <1> QED
    BY <1>1, ClientInvariance, PTL

\* No call of the hub waits without a session.
THEOREM DisconnectSettlesCalls == ClientSpec => []CallsSettled
  <1>1. ClientInv => CallsSettled
    BY DEF ClientInv, Sound, Consistent, WaitersHaveCallbacks, CallsSettled
  <1> QED
    BY <1>1, ClientInvariance, PTL
===============================================================================
