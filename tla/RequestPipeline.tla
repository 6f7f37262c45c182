---------------------------- MODULE RequestPipeline ----------------------------
(***************************************************************************)
(* One connection of NETIOCPSvr between BindSocket and CloseClientSocket   *)
(* (IocpConnections), whose client speaks the download protocol: how the   *)
(* bytes it sends become requests, and how responses and the packets of a  *)
(* file leave through AsyncSendBufferManager.                              *)
(*                                                                         *)
(* The byte stream is cut into symbols: the protocol flag, and the pieces  *)
(* of each request, the first of which holds its length.  TCP hands them   *)
(* to the server in order, in chunks of any size.  A byte taken for a flag *)
(* or a length although it is none can have any value.                     *)
(*                                                                         *)
(* Both completions are handled under lock(userToken) and run from start   *)
(* to end in one step; what interleaves is when they get the lock, the     *)
(* transmission by the system and the client.  SendAsync and ReceiveAsync  *)
(* return false only when the call fails (the .NET Framework reports every *)
(* success through the completion), which is ConnectionLost.               *)
(* Each download is of a file of its own.                                  *)
(*                                                                         *)
(* A definition named X_Bug is X with a plausible mistake in it; no action *)
(* uses it, it serves to see that a property notices the mistake.          *)
(***************************************************************************)
EXTENDS Integers, Sequences, FiniteSets, SequencesExt, FiniteSetsExt

CONSTANTS
  Kinds,       \* kind of each request the client sends, in order
  Faults,      \* of each request: "none", a "parameter" is missing, or an "other": what
               \* it names is not there (password, directory, file) or in use
  Pieces,      \* symbols of a request
  Parts,       \* packets of a file: its header and its data
  Clients      \* clients: when they send the flag (once, with each request, with those
               \* they send when every answer to the ones before has arrived, with
               \* any), and whether they wait for the response to each request

\* Login and Active are answered to anyone, Dir and Download to who has logged in.
ASSUME KindsAssumption == Kinds \in Seq({"login", "active", "dir", "download"})
ASSUME FaultsAssumption == Faults \in [DOMAIN Kinds -> {"none", "parameter", "other"}]
ASSUME SizesAssumption == Pieces \in Nat \ {0} /\ Parts \in Nat \ {0}
ASSUME ClientsAssumption ==
  Clients \subseteq [flags : {"once", "each", "answered", "any"}, waits : BOOLEAN]

Requests == 1..Len(Kinds)
Flag == [req |-> 0, piece |-> 0]
Symbols == {Flag} \cup [req : Requests, piece : 1..Pieces]
\* Part 0 is the response itself; it says whether the request was granted.
Packets == [req : Requests, part : 0..Parts, ok : BOOLEAN]
Idle == [req |-> 0, part |-> 0, ok |-> FALSE]

VARIABLES
  client,     \* the client of the connection
  next,       \* the request the client sends next
  inflight,   \* symbols sent and not received
  chunk,      \* symbols of a completed receive that waits for lock(userToken)
  buffer,     \* ReceiveBuffer
  bound,      \* AsyncSocketInvokeElement # null
  logined,    \* its m_logined
  sendAsync,  \* its m_sendAsync
  stream,     \* next part of the file its m_fileStream has open, or Idle
  packets,    \* packets in SendBuffer
  sending,    \* the packet SendEventArgs is transmitting, or Idle
  sendDone,   \* completions of sends that wait for lock(userToken)
  status,     \* "open"; "stuck": an exception left it without a receive; "closed"
  handled,    \* history: requests ProcessCommand has been called for
  wire        \* history: packets transmitted

clientVars  == <<client, next>>
receiveVars == <<chunk, buffer, handled>>
elementVars == <<bound, logined, sendAsync, stream>>
sendVars    == <<packets, sending, sendDone, wire>>
vars == <<clientVars, inflight, receiveVars, elementVars, sendVars, status>>

TypeOK ==
  /\ client \in Clients
  /\ next \in 1..(Len(Kinds) + 1)
  /\ inflight \in Seq(Symbols) /\ chunk \in Seq(Symbols) /\ buffer \in Seq(Symbols)
  /\ bound \in BOOLEAN /\ logined \in BOOLEAN /\ sendAsync \in BOOLEAN
  /\ stream \in Packets \cup {Idle}
  /\ packets \in Seq(Packets)
  /\ sending \in Packets \cup {Idle}
  /\ sendDone \in Nat
  /\ status \in {"open", "stuck", "closed"}
  /\ handled \in Seq(Requests)
  /\ wire \in Seq(Packets)

Init ==
  /\ client \in Clients
  /\ next = 1
  /\ inflight = <<>> /\ chunk = <<>> /\ buffer = <<>>
  /\ bound = FALSE /\ logined = FALSE /\ sendAsync = FALSE /\ stream = Idle
  /\ packets = <<>> /\ sending = Idle /\ sendDone = 0
  /\ status = "open"
  /\ handled = <<>> /\ wire = <<>>

(***************************************************************************)
(* The client and the system.                                              *)
(***************************************************************************)
Part(r, i) == [req |-> r, part |-> i, ok |-> TRUE]

\* What the client waits for: a response, and the file if it says that one follows.
Answered(r) ==
  \E p \in Range(wire) :
    /\ p.req = r /\ p.part = 0
    /\ p.ok /\ Kinds[r] = "download" => \A i \in 1..Parts : Contains(wire, Part(r, i))

ClientSends ==
  /\ status # "closed"
  /\ next \in Requests
  /\ LET answered == \A r \in 1..(next - 1) : Answered(r)
         flagged == next = 1 \/ client.flags = "each" \/ (client.flags = "answered" /\ answered)
     IN  /\ client.waits => answered
         /\ \E withFlag \in IF client.flags = "any" THEN BOOLEAN ELSE {flagged} :
              inflight' = inflight \o (IF withFlag THEN <<Flag>> ELSE <<>>)
                                   \o [i \in 1..Pieces |-> [req |-> next, piece |-> i]]
  /\ next' = next + 1
  /\ UNCHANGED <<client, receiveVars, elementVars, sendVars, status>>

\* ReceiveAsync completes with some of what is in flight.
ReceiveCompletes ==
  /\ status = "open"
  /\ chunk = <<>>
  /\ \E n \in 1..Len(inflight) : /\ chunk' = SubSeq(inflight, 1, n)
                                 /\ inflight' = SubSeq(inflight, n + 1, Len(inflight))
  /\ UNCHANGED <<clientVars, buffer, handled, elementVars, sendVars, status>>

\* SendAsync completes; SendEventArgs can be used again.
SendCompletes ==
  /\ status # "closed"
  /\ sending # Idle
  /\ wire' = Append(wire, sending)
  /\ sending' = Idle
  /\ sendDone' = sendDone + 1
  /\ UNCHANGED <<clientVars, inflight, receiveVars, elementVars, packets, status>>

(***************************************************************************)
(* ProcessReceive.                                                         *)
(***************************************************************************)

\* Whole requests at the front of b.
Whole(b) ==
  LET Fits(k) == \A i \in 0..(k - 1), p \in 1..Pieces :
                   b[i * Pieces + p] = [req |-> b[i * Pieces + 1].req, piece |-> p]
  IN  Max({k \in 0..Len(b) : k * Pieces <= Len(b) /\ Fits(k)})

RequestsAt(b) == [k \in 1..Whole(b) |-> b[k * Pieces].req]

\* The packet loop clears every packet it has processed.
Rest_Bug(b) == b
Rest(b) == SubSeq(b, Whole(b) * Pieces + 1, Len(b))

\* What is left is the beginning of a request; if not, its first bytes are taken
\* for a length although they are none.
Beginning(b) ==
  Len(b) < Pieces /\ \A i \in DOMAIN b : b[i] = [req |-> b[1].req, piece |-> i]

\* DoLogin sets m_logined; a login that fails leaves it as it is.
LogsIn(r) == Kinds[r] = "login" /\ Faults[r] = "none"

\* CheckLogined.
Permitted_Bug(requests, i) ==
  \/ Kinds[requests[i]] \in {"login", "active"}
  \/ bound /\ logined
  \/ \E j \in 1..(i - 1) : Kinds[requests[j]] = "login"
Permitted(requests, i) ==
  \/ Kinds[requests[i]] \in {"login", "active"}
  \/ bound /\ logined
  \/ \E j \in 1..(i - 1) : LogsIn(requests[j])

\* ProcessCommand: success or failure of the response.
Granted(requests, i) ==
  /\ Permitted(requests, i)
  /\ Kinds[requests[i]] = "active" \/ Faults[requests[i]] = "none"

Answers(requests) ==
  [i \in DOMAIN requests |-> [req |-> requests[i], part |-> 0, ok |-> Granted(requests, i)]]

\* DoDownload, unless a parameter is missing, closes the file of a download before; it
\* opens its own if that is there and not in use.
Opened(requests) ==
  LET downloads == {i \in DOMAIN requests :
                      /\ Kinds[requests[i]] = "download" /\ Permitted(requests, i)
                      /\ Faults[requests[i]] # "parameter"}
  IN  IF downloads = {} THEN (IF bound THEN stream ELSE Idle)
      ELSE IF Granted(requests, Max(downloads)) THEN Part(requests[Max(downloads)], 1)
      ELSE Idle

LoginsAfter(requests) ==
  (bound /\ logined) \/ \E i \in DOMAIN requests : LogsIn(requests[i])

\* GetFirstPacket.
FirstPacket(list) == Head(list)

\* The buffer after the chunk has been written to it: the first byte of a chunk that
\* finds no element is the flag.
Received == buffer \o (IF bound THEN chunk ELSE Tail(chunk))

\* Of the responses just written the first starts a send, unless m_sendAsync says that
\* one is in progress: a new element does not know of its predecessor's.
MustSend_Bug == RequestsAt(Received) # <<>> /\ ~bound
MustSend == RequestsAt(Received) # <<>> /\ ~(bound /\ sendAsync)

HandleRequests ==
  /\ status = "open"
  /\ chunk # <<>>
  /\ MustSend => sending = Idle
  /\ LET requests == RequestsAt(Received)
         list == packets \o Answers(requests)
     IN  /\ handled' = handled \o requests
         /\ packets' = list
         /\ sending' = IF MustSend THEN FirstPacket(list) ELSE sending
         /\ stream' = Opened(requests)
         /\ logined' = LoginsAfter(requests)
  /\ sendAsync' = (MustSend \/ (bound /\ sendAsync))
  /\ buffer' = Rest(Received)
  /\ bound' = TRUE
  /\ chunk' = <<>>
  /\ status' \in IF Beginning(buffer') THEN {"open"} ELSE {"open", "stuck"}
  /\ UNCHANGED <<clientVars, inflight, sendDone, wire>>

\* SendEventArgs is in use: SetBuffer throws out of ProcessCommand of the first request,
\* IO_Completed logs the exception and no receive is posted.
SendRefused ==
  /\ status = "open"
  /\ chunk # <<>>
  /\ MustSend /\ sending # Idle
  /\ LET first == SubSeq(RequestsAt(Received), 1, 1)
     IN  /\ handled' = handled \o first
         /\ packets' = packets \o Answers(first)
         /\ stream' = Opened(first)
         /\ logined' = LoginsAfter(first)
  /\ sendAsync' = TRUE
  /\ buffer' = Received
  /\ bound' = TRUE
  /\ chunk' = <<>>
  /\ status' = "stuck"
  /\ UNCHANGED <<clientVars, inflight, sending, sendDone, wire>>

\* CloseClientSocket: the client is gone, a call fails, the flag is not a protocol's,
\* or the bytes taken for a request are refused.
ConnectionLost ==
  /\ status # "closed"
  /\ status' = "closed"
  /\ chunk' = <<>> /\ buffer' = <<>> /\ packets' = <<>>
  /\ bound' = FALSE /\ logined' = FALSE /\ sendAsync' = FALSE /\ stream' = Idle
  /\ sending' = Idle /\ sendDone' = 0
  /\ UNCHANGED <<clientVars, inflight, handled, wire>>

(***************************************************************************)
(* ProcessSend and SendCompleted.                                          *)
(***************************************************************************)

\* Without an element the completion is ignored: its packet stays in SendBuffer.
IgnoreSent ==
  /\ status # "closed"
  /\ sendDone > 0
  /\ ~bound
  /\ sendDone' = sendDone - 1
  /\ UNCHANGED <<clientVars, inflight, receiveVars, elementVars, packets, sending, wire, status>>

\* ClearFirstPacket; then SendCallback, which a download uses to send the next part.
Cleared_Bug == packets
Cleared == IF packets = <<>> THEN <<>> ELSE Tail(packets)
Remaining == IF Cleared = <<>> /\ stream # Idle THEN <<stream>> ELSE Cleared

\* The next packet is sent, or there is none: SendCompleted returns true in both
\* cases, and ProcessSend drops the element and what it knows.
HandleSent ==
  /\ status # "closed"
  /\ sendDone > 0
  /\ bound
  /\ Remaining # <<>> => sending = Idle
  /\ packets' = Remaining
  /\ sending' = IF Remaining = <<>> THEN sending ELSE FirstPacket(Remaining)
  /\ bound' = FALSE /\ logined' = FALSE /\ sendAsync' = FALSE /\ stream' = Idle
  /\ sendDone' = sendDone - 1
  /\ UNCHANGED <<clientVars, inflight, receiveVars, wire, status>>

\* SetBuffer throws: the element stays, and so does its m_sendAsync.  SendCallback has
\* moved on in the file, but m_sendFile, which asks for the header, is not reset.
HandleSentRefused ==
  /\ status # "closed"
  /\ sendDone > 0
  /\ bound
  /\ Remaining # <<>> /\ sending # Idle
  /\ packets' = Remaining
  /\ stream' = CASE Cleared # <<>> \/ stream.part = 1 -> stream
               [] OTHER -> IF stream.part < Parts THEN Part(stream.req, stream.part + 1) ELSE Idle
  /\ sendAsync' = TRUE
  /\ sendDone' = sendDone - 1
  /\ UNCHANGED <<clientVars, inflight, receiveVars, bound, logined, sending, wire, status>>

Server == HandleRequests \/ SendRefused \/ IgnoreSent \/ HandleSent \/ HandleSentRefused
Next == ClientSends \/ ReceiveCompletes \/ SendCompletes \/ Server \/ ConnectionLost

\* Callbacks get the lock, and what is sent arrives; the client need not send.
Fairness == WF_vars(Server) /\ WF_vars(ReceiveCompletes) /\ WF_vars(SendCompletes)

Spec == Init /\ [][Next]_vars
FairSpec == Spec /\ Fairness

(***************************************************************************)
(* Properties.                                                             *)
(***************************************************************************)

\* However the bytes are cut and whatever element is bound, ProcessCommand sees each
\* request at most once and in the order of the client (ReceiveBuffer, ProcessReceive).
RequestsOnceInOrder == \A i, j \in DOMAIN handled : i < j => handled[i] < handled[j]

\* What the client gets: packets leave in the order in which they were put into
\* SendBuffer (one may leave twice, but never after a later one), and a request that
\* needs a login is granted only after one that was not refused was handled on the
\* connection.
InOrder ==
  \A i, j \in DOMAIN wire : i < j =>
     \/ wire[i].req < wire[j].req
     \/ wire[i].req = wire[j].req /\ wire[i].part <= wire[j].part

GrantedAfterLogin ==
  \A i \in DOMAIN wire : wire[i].ok /\ Kinds[wire[i].req] \in {"dir", "download"} =>
     \E j, k \in DOMAIN handled : j < k /\ handled[k] = wire[i].req /\ LogsIn(handled[j])
Responses == InOrder /\ GrantedAfterLogin

\* Clients that send the flag once and wait for each response, as those of the repository
\* do, or that send the flag with each request.
Regular == client.flags = "each" \/ (client.flags = "once" /\ client.waits)

\* One send at a time: the bytes that SendAsync reads stay where they are, since Clear
\* moves packets to the front of SendBuffer only when none is being transmitted, and no
\* packet is transmitted twice.  (For regular clients: when a flag comes at the right
\* moment, or when requests are sent ahead until one of them begins where a flag is
\* expected, a new element sends while its predecessor's send goes on.)
SentBytesStay == sending # Idle => packets # <<>> /\ Head(packets) = sending
OneSend == Regular => SentBytesStay /\ IsInjective(wire)

\* A request that was handled for a client that waits for its responses (and has a rule
\* for its flags) is answered, as long as the connection lives: SendCompleted sends what
\* waits in SendBuffer.
HandledIsAnswered ==
  \A r \in Requests :
    client.waits /\ client.flags # "any" /\ Contains(handled, r)
      ~> status # "open" \/ \E p \in Range(wire) : p.req = r

\* Does not hold, and no run checks it: after a response the server waits for the next
\* request (AsyncSocketServer.cs:316); what it receives from a
\* client that waited for that response is read as flag and request.
NextRequestUnderstood == status = "open" => Beginning(buffer)

\* Does not hold, and no run checks it: a download that was granted sends its file to the
\* end (SendCallback, AsyncSocketInvokeElement.cs:152).
DownloadsComplete ==
  \A r \in Requests :
    Kinds[r] = "download" /\ (\E p \in Range(wire) : p.req = r /\ p.ok) ~>
      status # "open" \/ Contains(wire, Part(r, Parts))
================================================================================
