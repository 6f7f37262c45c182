# A verification project for mytestArea

TLA+ specifications, TLC configurations and TLAPS proofs for the parts of the
repository that have concurrent logic of their own. Paths are relative to the
root of the repository; `SVR/` stands for
`src/IOCPDemo_NET_V4/NET_Source/NETIOCPSvr/` and `NET/` for
`src/ZZNetFrame-master/Netframe/`, `SIG` for
`src/SignalRDemo/SignalRDemo/Scripts/jquery.signalR-2.2.2.js`.

Contents: 1 the system, 2 the plan, 3 the modules, 4 what the runs check, 5 what
is proved, 6 disagreements between the code and what it says, 7 what was seen and
given no run, 8 what is not modelled and why.

## 1. The system

The repository is a collection of programs, most of them about servers and
sockets. Some are somebody else's frameworks (SuperSocket and a port of it to
.NET Core, PetaPoco), some are samples of frameworks (SignalR, WCF, MVC, a Windows
service), some are a few lines that start a server (mainserver). Those that
carry logic of their own are listed here. They do not talk to each other: each
has its own processes.

### NETIOCPSvr and NETUploadClient (C#)

A TCP server on completion ports. It has

| part | state | operations | threads |
|---|---|---|---|
| accept loop, `AsyncSocketServer.StartAccept`, `ProcessAccept` | semaphore `m_maxNumberAcceptedClients` | wait for a permit, accept, pop a token, add it to the online list, bind the socket, first receive | one, which is whichever thread the last accept completed on |
| `AsyncSocketUserToken`, its pool and its list | stack of tokens, list of online tokens; per token the socket, the element, buffers and two `SocketAsyncEventArgs` | `Push`, `Pop`, `Add`, `Remove`, `CopyList`, the setter of `ConnectSocket` | all |
| completions, `IO_Completed`, `ProcessReceive`, `ProcessSend` | | read the flag and build the element, process requests, send, close; under `lock(userToken)` | thread pool |
| `CloseClientSocket` | | shut down, release the permit, push the token, remove it from the list | completions, `DaemonThread`, `CheckFileInUse` of another connection |
| `DaemonThread` | a copy of the online list | closes connections that have been idle | one |
| `AsyncSocketInvokeElement` and the protocols | `m_sendAsync`, `m_logined`, an open file | `ProcessPacket`, `ProcessCommand`, `DoSendResult`, `SendCompleted`, `SendCallback` | the completions of one token |
| `AsyncSendBufferManager`, `DynamicBufferManager` | packets to send, bytes received | `StartPacket`, `EndPacket`, `GetFirstPacket`, `ClearFirstPacket`, `Clear` | same |
| `UploadSocketProtocolMgr`, `DownloadSocketProtocolMgr` | lists of all elements of a protocol | `Add`, `Remove`, search by file name | completions of all tokens |

They interact by shared state: the semaphore, the stack and the list are three
records of the same connections; the token carries the element from one
completion to the next; the element carries the login, the file and whether a
send is in progress; the protocol lists connect the connections that use the same
file. NETUploadClient is a blocking client that sends a flag when it
connects and then a request at a time.

*What is hard.* Four kinds of thread can close one connection. The accept loop
takes no token's lock, so it can recycle a token whose old completions are still
waiting. The element is dropped by `ProcessSend` after each response, while the
client may already have sent the next request. A file is taken over by closing
another connection, from inside a callback that holds two locks, on a name that was
read before the second was taken. Closing a connection closes its protocol object
between two assignments of a setter; that may wait or throw.

*What makes it correct.* Permits, stack and list agree; a token serves one
connection at a time and comes back when that ends; a completion concerns the
connection it was started for; requests are processed once and in order;
responses and files arrive whole and in order; nothing is granted without a
login; a callback always comes to its end; a file is open once.

### Netframe, in ZZNetFrame-master (C#)

Reliable messages over UDP, used by both ends of the sample programs.

| part | state | operations | threads |
|---|---|---|---|
| sender, `UDPThread` | `SendList`, `SendTimes` of each packet, `IsInitialized` | send and push, resend or give up each round, take off what is confirmed, close | application threads, the resend thread, receive callbacks |
| receiver, `UDPThread.ReceiveDataAsync`, `MsgTranslator` | `ReceivedQueue` of the last 100 numbers | receive, confirm, reassemble, drop repetitions, raise the event | several receive callbacks at once |
| `MessagePacker` | `packageCache`, static | split and zip, cache fragments, put together | receive callbacks |
| `CommandExecutor`, `SeiClient`, `Config` | settings | forward events to the user interface | user interface |

*What is hard.* `SendList` is shared by three kinds of thread that do not use
the same lock, two of which use none; a resend adds to the list it works from. The
receiver posts the next receive before it has treated a datagram, so its
callbacks overlap; the network loses, repeats and reorders.

*What makes it correct.* A packet is transmitted a bounded number of times and
given up only after all of them; it is listed until it is settled, and the list of
unconfirmed packets empties; a message is delivered only when all its fragments have
arrived, is not lost once they have been confirmed, and is delivered once.

### The browser client of SignalRDemo (JavaScript)

`rate.html` opens a hub connection with the SignalR client library that lies
beside it. The library is the one part of the repository written in JavaScript
that both runs in one of its programs and has a protocol to follow; the rest of
the JavaScript is libraries of the page (jquery and others) and pages saved from
the web.

| part | state | operations | run by |
|---|---|---|---|
| connection | `state`, the deferred of `start`, timers, `lastActiveAt` | `start`, `stop`, fallback, the disconnect timeout | the page, answers, timers |
| transports | socket, event source or poll; reconnect timers | `start`, `reconnect`, `stop`, handlers of the browser | the browser |
| heartbeat and ping | `beatHandle`, `pingIntervalId` | `beat`, `markActive`, `pingServer` | timers |
| hub proxy | `invocationCallbacks`, `invocationCallbackId` | `invoke`, the handler of answers | the page, answers |

*What is hard.* Everything runs on one thread, but nothing is cancelled: an answer, a
timer or an event comes when the session it belongs to has been stopped,
has fallen back to another transport, or has been started again.

*What makes it correct.* A stopped connection stays quiet; there is one link at a
time; timers fit the state; calls are settled; connecting and reconnecting end.

### UdpServerFrame (C#)

`UdpSendSocket` takes a `SocketAsyncEventArgs` from a pool for each datagram and puts
it back when it has been sent. `UdpServer` uses one on its receive callback,
`UdpSend` another for the clients of a WCF service, which call it at the same time.
*Hard:* the args travels from the pop to the send in a field all calls share;
calls that fail half-way. *Correct:* no args is lost or in two hands, a datagram
goes to its own peer. UdpSocketAsyncEventArgs is an earlier version.

### NettyServer in mqtt_samples (C#)

A map of sessions, filled by the event loops of DotNetty (TCP channels, or the
peers of one UDP channel) and cleaned by a timer that closes or removes idle ones;
the application is told of connections and disconnections. *Hard:* event loop and
timer test and act on the same entry without a lock; the timer works on a
copy, its rounds may overlap, and the application's handler may throw. *Correct:*
connections and goodbyes match, idle sessions leave.

### QueueServer in WHC.OrderWater.Commons (C#)

A queue with a thread of its own that ends when the queue is empty and is made
again by the next `EnqueueItem`. *Hard:* whether the thread is alive is tested
outside the lock, and by several calls at once. *Correct:* items are processed
once and in order, and none is forgotten.

### Others with logic of their own

* **SocketSessionPool** (SuperSoketCore/consoletest): sessions of websockets in
  a concurrent dictionary; nothing uses it.
* **IOCPDemo Delphi source**: the original of NETIOCPSvr, with the third-party
  libraries it needs.

## 2. The plan

Order: first what every connection and every message depends on, then what is
built on it. Each module has one action per step that other threads can
interleave with, an invariant made of named parts and assumptions about its
constants; none uses a RECURSIVE operator, so that each can be proved about.

Done:

1. `IocpConnections`, implementing `ConnectionPool`; proved.
2. `UdpSender`; proved.
3. `MsgReceiver`; proved.
4. `RequestPipeline`; its safety proved.
5. `FileUse`; proved.
6. `ReliableUdp`, UdpSender and MsgReceiver composed, implementing `Delivery`; proved.
7. `DaemonThread` on top of ConnectionPool; its inertness proved.
8. `SignalRClient`; its safety proved.
9. `QueueServer`, implementing `WorkQueue`; its safety proved.
10. `NettySessions` and `UdpSendSocket`; their safety proved.

Next:

11. `FileUse` for downloads, whose `Close` takes another lock than everybody
    else, and `LogOutput`, which sends from the threads that log.
12. The resumption of an upload across reconnects and the framing arithmetic
    of both ends.

## 3. The modules

Throughout, a comment `X_Bug` (or `X_Late`, `X_Unset`...) in a module marks a
definition with a plausible mistake, which no action uses; it serves to show that
a property notices the mistake. History variables, which the code does not have,
are marked as such where they are declared.

`ConnectionPool` - the abstract specification: permits, an acceptor and for each
token whether it is free, taken, serving, ended or returning. No callbacks, no
lists, no reasons for closing.

`IocpConnections` - the life of connections in NETIOCPSvr.

| module | code |
|---|---|
| `sem`, `pool`, `online` | `m_maxNumberAcceptedClients`, the stack, the list, as multiplicities so that a double push or entry shows |
| `sock`, `element` | `ConnectSocket`, `AsyncSocketInvokeElement` of a token being set |
| `lost` | tokens whose close has ended in an exception, and which never come back |
| `WaitOne` ... `PostFirstReceive` | each call of `StartAccept` and `ProcessAccept` that touches shared state |
| `AcceptFailed`, `PopEmpty` | the exceptions caught in `AcceptEventArg_Completed`, which does not start another accept |
| `BeginClose`, `CloseElement`, `Release`, `PushToken`, `RemoveOnline` | `CloseClientSocket` in the order of its calls; `CloseElement` is the part of the setter that calls `Close` of the protocol object and drops it |
| `ElementThrows` | that `Close` throws: what follows it is not executed |
| `op`, `Complete` | an operation on each `SocketAsyncEventArgs`, its end and the start of `IO_Completed` |
| `cb`, `HandleNothing` ... `HandleClose` | callbacks waiting for `lock(userToken)`, told apart by whether the socket they were started on is still bound; the outcomes of the two handlers |

Requests are reduced to what they do to the connection: nothing, an answer, a
close. Which of these happens is left open; RequestPipeline decides it. Whether `Close`
of a protocol object ends is left open too, since it waits for
`lock(UploadSocketProtocolMgr)` - the lock of the deadlock in section 6: fairness does not
extend to `CloseElement` of a token that has an element.

`UdpSender` - `SendList` is an array (`slots`) and a `size`. `SendPacket` and
`PushReads`, `PushGrows`, `PushStores` are `AsyncSendPacket` on an application
thread: `List.Add` reads the size, writes it back one larger, and then writes the slot;
other threads can run between, so an entry may get lost or be `null`. `StartRound` to
`DropRemoves` are one round of `CheckUnConfirmedQueue`, in which `Repush...` is the same
`Add`; `ConfirmArrives` to `PopDone` are `PopSendItemFromList`, whose enumeration throws
when the list changes. `List.Remove` is two steps on both threads, `DropFinds` and
`DropRemoves`, `PopFinds` and `PopRemoves`: the index is looked for under one lock or none,
so it may be another packet's when it is used, or lie behind the end (`DropOutOfRange`,
`PopOutOfRange`). An exception nobody catches ends the process (`crashed`).
`SendCallback` is the end of a transmission that has failed: it raises
`PackageSendFailture`, at any time after any transmission, for a packet the event does not
name, and does nothing else. The remote side may or may not confirm what has been sent.

`MsgReceiver` - `ReceiveDataAsync` takes any fragment that may still arrive, on
any callback that is free; `SendConfirm`, `SinglePacket` or `CacheFragment`, then
`HandleConfirmation`, or `DropRepeated`, or `NotReceivedBefore`, `Enqueue`, `TestCount`,
`Dequeue`, `OnMessageReceived` follow. `CacheFragment` is one step, because it runs under
`lock(packageCache)`; each use of `ReceivedQueue` is one of its own, because nothing
protects it. Two operations on it that meet may leave it torn (`torn`): what the array,
the positions and the size of a `Queue<long>` say then is not modelled in detail, it
answers anything that the numbers stored in it allow. Zipping a message into fragments and
unzipping it are abstracted to one question: are the fragments all of one message? The
number of each message is chosen at the start (`PackageNo`), and so is what each
confirmation names (`Confirmed`): the same number twice is possible, because the
generator is seeded with the millisecond, and so are numbers an int cannot hold.

`RequestPipeline` - one connection and a client of the download protocol. The
stream of bytes is a sequence of symbols: flags, and requests of `Pieces`
symbols; it reaches the server in chunks of any size. `HandleRequests` and
`SendRefused` are `ProcessReceive` with everything it calls, `HandleSent`,
`HandleSentRefused` and `IgnoreSent` are `ProcessSend`; each runs under
`lock(userToken)` and is one step. `Faults` are the requests that fail although the client
may make them, a login with a wrong password or a download of a file that is not there;
they are answered with a refusal. A client is a rule for when it sends the flag
and whether it waits for answers; NETUploadClient is [flags "once", waits TRUE].

`FileUse` - upload connections that share files. The callback of a receive is
split where it can wait or be interfered with: before each lock, at each element
of the list that `CheckFileInUse` looks at, between the comparison of the names and the
lock of the token (`ScanElement`, `LockOther`: the names are not compared again), between
the test of the file and its opening. `IsFileInUse` tests by opening the file, which keeps
others from opening it (`InUse`) until `ProbeEnds`. `CloseClientSocket` is the code's
order of steps: the socket is null, `CloseClears` clears the name, `CloseStream` closes the
file or `CloseThrows`, `CloseUnlists` waits for the list's lock, `Unbind` ends the setter.
It is the same for all who close: `victim` is the token a thread closes and has
locked, its own or another's. Locks are not variables of their own, except `mgr`: a token
is locked when its callback is not "idle" or it is a victim. A command may also be
unknown, which closes the connection.

`ReliableUdp` - a sender and a receiver joined. It instantiates both modules: the
fragments of a message are the sender's packets, a datagram arrives at most as
often as it was sent, in any order or never, and a confirmation that arrives is
`ConfirmArrives` of the sender, if `TryParseToInt` accepts the number of the
message. `AsyncSendMsg` sends the packets of a message in turn. The receiver has as many
callbacks as one likes. `SendCallback`, which changes nothing the two share, is left out.

`Delivery` - the abstract specification: what has been sent, has arrived, has been
delivered, is confirmed, has failed, and whose number the receiver has forgotten, so that
it may be delivered again.

`DaemonThread` - the clock of the daemon on top of ConnectionPool. `Tick` makes
every connection idle one tick longer, `Completed` is one of the three places that set
`ActiveDateTime`; `CopyList`, `Examine` and `CloseClientSocket` are a round.
`Milliseconds` is `TimeSpan.Milliseconds`.

`SignalRClient` - one record `conn` holds what the library keeps in the connection,
the transport and the hub proxy; functions of that record (`stop`, `reconnect`,
`transportFailed`, `initialize`, ...) stand for the functions of the library and
are composed as these call each other, so that one action is one handler with
everything it calls. Handlers that are still to come are fields: `startRequest`, timers,
`ping`, calls waiting for an answer. What the application does: `AppStart`,
`AppStop`, `Invoke`. What the browser does: the events of sockets, sources and
requests, and `Sleep`, after which nothing has been heard for long. Handlers of the
application that may stop the connection from within (of reconnecting, slow, error and
received) are choices of the step that calls them.

`WorkQueue`, `QueueServer` - the abstract queue (put, take from the front, finish,
clear) and the code: a call is `Enqueue`, `TestThread`, `CreateThread`,
`SetBackground`, `Start`, of which the last two throw on a thread that another call has
started meanwhile and that has ended, or runs; a thread is `Dequeue` and `ProcessItem` in turn, then `Break` and
`End`, between which it is still alive.

`NettySessions` - event loops (`ChannelActive` or `FirstDatagram`, `Data`,
`ChannelInactive`) and the timer (`StartRound` to `EndRound`), split where a
callback of the application runs between a test and a removal. `Elapsed` comes at every
interval, so that a round may begin while another one runs: each round has its own copy and
place. `OnSessionClosed` may throw: on the event loop the session then stays in the map
(`OnSessionClosedThrows`), in a round it does too, and the round is over (`TimerThrows`).

`UdpSendSocket` - each use of the field `socketArgs` in `Send` is a step;
`SendToAsync` completes later, at once or throws.

`MCx` gives the constants of `x` their values for TLC; `x_proofs` holds the
proofs about `x`. Three modules of proofs are about two components each:
`Connections_proofs` about IocpConnections and SignalRClient, the two ends of a
connection, `IdleConnections_proofs` about NettySessions and DaemonThread, which both
end connections that are idle, and `CallsInTurn_proofs` about QueueServer and
UdpSendSocket, which both promise more to callers who do not overlap. The
specifications of DaemonThread, UdpSendSocket and SignalRClient are named `DaemonSpec`,
`FairDaemonSpec`, `SocketSpec`, `ClientSpec` and `FairClientSpec`, so that they can be
extended together with others.

## 4. What the runs check

Every configuration but those of signalr and daemon_idle has
`CHECK_DEADLOCK FALSE`, since the modelled systems may stop: clients need not
connect or send, the bounded number of messages may have been sent, a process may
have died of an exception, a connection may be stuck without a receive, and of the
accept loop only "waits for a permit" may be left. That something does happen is
stated by the liveness properties instead.

The type invariants of IocpConnections, FileUse, RequestPipeline, ReliableUdp,
SignalRClient and UdpSendSocket are proved (section 5); the runs leave them out, since
there they show nothing that the other properties do not. (Those of SignalRClient and
UdpSendSocket are named `ClientTypeOK` and `SocketTypeOK`.)

### connections (2 tokens, one waiting callback of each kind and token; 254,000 states)

* `PermitsBalance`: free permits, connections, the one with the acceptor and those of
  tokens that are lost add up. Without it a close too many would admit more connections
  than there are tokens, or throw.
* `PoolPartition`: a token is on the stack exactly when nobody holds it and it is not lost.
* `OnlineExact`: the list the daemon works from has each connection once, and one
  more entry for a close that has not reached `Remove`, or never does. It is not obvious:
  the token is pushed before it is removed from the list, so it may be added again
  before the removal of its last connection.
* `ClosedTokenReturns`: a close gives the token back, if the connection has no protocol
  object or its `Close` has returned: no other closer, old completion or full semaphore
  prevents it. A `Close` that throws, or waits for ever, does prevent it.
* `ImplementsPool`: all of this is, seen from outside, a step of ConnectionPool.

Two tokens are enough for what goes wrong here: one that is being closed while
the other is accepted, or the same one being closed and accepted. One
callback of each kind and token allows an old and a new one on the same token,
since they may be of different kinds, and successive ones of the same kind.
Theorems cover other numbers.

### sender (2 packets, 3 transmissions at most, one confirmation for each; 1,625,000 states)

* `TypeOK`: among others, an entry of the list may be null, which is what `Add` leaves.
* `TransmissionBound`: although the entries of a packet multiply, it is
  transmitted at most `MaxResendTimes` times.
* `GivenUpAfterAllTries`: the resend thread gives a packet up only after all its
  transmissions. It does not say that no failure is reported earlier: `SendCallback` does
  that (section 7).
* `UnsettledIsListed`: a packet neither confirmed nor given up stands on `SendList`. The
  exception, that an `Add` has stored by an outdated size or a `Remove` has hit another
  packet's entry (`raced`), is needed: TLC finds the entry lost without it, by either of the
  two. With `Drains` it says that every packet is settled in the end.
* `Drains`: what is on the list leaves it, unless the process dies or the client
  is closed, whatever is lost or doubled by races.

With three transmissions a packet is pushed again twice, so it has several entries
in one round; two packets are needed for the races of `Add` and `Remove`.

### receiver (messages of 3 and 2 fragments, a confirmation, each fragment up to twice, 2 callbacks, queue of 1; 3,320,000 states)

* `CompleteBeforeDelivered`: no message without all of its fragments, even when two
  messages have the same number and their fragments mix in `packageCache`.
* `NothingLost`: a message with a number of its own whose fragments have all been
  treated has been delivered or is about to be.
* `DeliveredOnce`: messages with one number are delivered once in all, on any callbacks,
  unless `ReceivedQueue` is torn, the number has left it, or two callbacks have looked for
  it before either had stored it - the three ways in which the code does deliver twice.
* `ConfirmationsPop`: a confirmation takes its packet off the sender's list if, and only if,
  an int can hold the number it names; with any other it does nothing, which is not what
  the comment at the call says (section 7).

A queue of one number shows what 100 show for 101 messages. Messages of different
length make the array too short for an index. A confirmation names the largest number
that an int holds, where an off-by-one would show, or the next one (`FiveOrSix`).

### pipeline (5 requests of 2 symbols, files of 2 packets, 8 clients; 40,600 states)

* `RequestsOnceInOrder` and `Responses`, for any client: no request is handled
  twice or out of order, responses keep their order and none is granted without a
  login that succeeded.
* `OneSend`, for a client that sends a flag with each request, or one flag and
  then waits for each answer (`Regular`; NETUploadClient is of the second kind): the
  bytes that `SendAsync` reads are not moved by `Clear`, no packet is sent twice.
* `HandledIsAnswered`, for clients that wait, unless they send flags at will.

The last two are not true of all clients. A flag sent at the right moment makes a
new element, which does not know of the send its predecessor has begun. The same
happens without any flag: a client that sends requests ahead of the answers loses,
after each answer, one symbol of the next request to the new element, which takes it
for the flag; after as many answers as a request has symbols the next request begins
where an element is expected, is understood, and its answer is sent while another
send is in progress. TLC finds it with five `active` requests of two symbols, where it was
sought after the proof of `OneSend` for every client with one flag had failed.

Two symbols are enough to cut a request in the middle, two packets to tell the header of a
file from its data, and the five requests are a login that fails, one that is refused for
that reason, a login, a download, and a download of a file that is not there.

### fileuse (2 connections, 3 elements, a file that exists or not; 337,000 states with symmetry)

* `OpenIsNamed`: who has a file open can be found by its name, up to the `Close` that is
  about to close it: `Close` clears the name first, and a callback that holds the list sees
  the file open without a name. `DoUpload` sets the name before the file is opened, and the
  opening can fail.
* `BoundIsListed`: the element of a connection is on the list, although callbacks
  close each other's connections on names that may be stale; up to the end of the setter,
  before which its `Close` has taken it off.

Three elements on two connections let each have one, and one of them another that has been
dropped and is still on the list.

### udplink (1 message of 2 packets, 2 callbacks, 2 transmissions; 1,936,000 states)

* `ConfirmedIsDelivered`: when the sender has the confirmations of all packets, the
  message has been delivered or a callback is about to do so. Confirmations are
  sent before a packet is treated, so this relates both hosts and the network.
* `IsDelivery`: the two hosts implement Delivery. In particular a message is
  delivered once, whatever is repeated and with two callbacks, unless the receiver has
  forgotten its number in one of the three ways of `DeliveredOnce`.

The constraint `SenderGoesOn` bounds the run: nothing is explored behind a state in which
the sender has crashed, has been closed or has given a packet up twice. After the first two
only the receiver goes on, which the run receiver explores; the theorems have no such bound.

### signalr (a browser with web sockets and event sources, one call, two heartbeats; 111,000 states)

* `QuietWhenDisconnected`: after `stop`, from whatever state, nothing is left that
  opens the session again.
* `OneLink`: through fallback and reconnecting there is one link at most.
* `TimersFitState`: the disconnect timeout runs while reconnecting and only
  then; a started session has a heartbeat.
* `CallsSettled`: no promise of `invoke` outlives the session.
* `ReconnectingEnds`, `ConnectingEnds`: the transitional states end.

Two heartbeats, because one can be leaked by a stop inside `beat`, and a
second session then has its own.

### queue (3 calls; 60,500 states)

* `NotForgotten`: waiting items have a thread that will look again or a call that
  will start one. The one exception is part of the property: a call that met a
  thread which had left its loop but had not ended. The item then waits for the next
  call.
* `OneAtATime`: calls that do not overlap make one worker, and neither `IsBackground` nor
  `Start` throws.
* `IsWorkQueue`: with any overlap each item is taken once, in order.
* `Leaves`: what waits is taken or cleared, but for the same exception.

Three calls make up to three threads: a lost wake-up and two starts of one thread
need two.

### sessions (2 channels or peers, 2 sessions, 2 rounds of the timer; 539,000 states)

* `Goodbyes`: for a session that was announced and has left the map `OnSessionClosed` has
  returned, even if it has thrown before; once for UDP, at most twice for TCP. Twice
  happens: the timer and the event loop both find the session of a closed channel. It holds
  as long as rounds do not overlap; TLC finds it violated without that hypothesis (section 7).
* `IdleLeaves`: an idle session leaves the map without its peer's help, also when rounds
  overlap and the handler throws, unless it keeps throwing in the rounds: each round works
  on the same first entries, and one that always throws keeps the others in.

Two sessions let a UDP peer come back while its old session is being removed; two rounds
overlap.

### udpsend (2 args, 4 calls, one without peer and one without content; 25,100 states)

* `Counted`: args in the pool, with callers, in flight, completing and lost
  add up, even when overlapping calls have exchanged them.
* `OneOwner`, `OwnPeer`: as long as calls do not overlap (so always in `UdpServer`), an
  args is in one place, and a datagram goes to its own peer.

More calls than args make the pool run empty and every args be used again.

### Runs that show a disagreement

`fileuse_deadlock` and `daemon_idle`: each checks one sentence of a comment in
the code and finds it violated; see section 6. In daemon_idle a second has three
ticks and the timeout is four, where the code has 1000 and 300000; what matters is
that the timeout is not shorter than a second, and the theorem
`DaemonClosesNothing` covers all such values.

### Fairness

* IocpConnections: a thread inside `CloseClientSocket` goes on (it takes only short
  locks), except in `Close` of a protocol object, which waits for a lock that FileUse shows
  may never come free; and so does the accept loop between `Pop` and the next `WaitOne`. Not
  assumed: that anybody connects, that an operation completes, that anybody closes.
* UdpSender: the resend thread, a callback inside `PopSendItemFromList` and a
  thread inside `Add` go on. Not assumed: that a packet is confirmed or another
  one sent.
* RequestPipeline: a completion gets the lock (`Server`), and what is in transit
  arrives, which TCP does as long as the connection lives; `ConnectionLost` may end
  it at any time, and the properties say "as long as". The client need not send.
* FileUse, strong fairness of each callback: a Monitor lets in every thread that
  waits for it, however often others take it between.

* SignalRClient: timers fire, requests are answered or fail, what the browser has
  begun to open opens or fails. Not assumed: that the application does
  anything, that the link is lost or keeps working.
* QueueServer: a call that has begun and a thread that runs go on.
* NettySessions: event loops and the rounds that have begun run, and the timer keeps
  starting rounds; no peer has to do anything.
* DaemonThread: time passes and the daemon runs.

MsgReceiver, ReliableUdp and UdpSendSocket are checked for safety only: whether
anything arrives is the network's affair, and what must happen after that is
`NothingLost` and `ConfirmedIsDelivered`.

## 5. What is proved

TLAPS proves these for every value of the constants that satisfies the
assumptions of the module. The assumptions say that null is not one of the
objects, that sizes and numbers are natural and where they must not be 0, that the
functions given as constants have their domain and range, and that there are finitely
many tokens, args, calls or callbacks (and at least one token and one args). Of the browser
client they say that foreverFrame is among the transports the browser refuses; the calls
and heartbeats may be infinitely many.
What a theorem assumes beyond that stands in the table.

| module of proofs | theorem | statement |
|---|---|---|
| Connections | `ConnTypeOK`, `PermitsConserved`, `PoolNeverShares`, `OnlineListIsExact` | always `TypeOK`, `PermitsBalance`, `PoolPartition`, `OnlineExact` of IocpConnections |
| | `ConnectionsImplementPool` | IocpConnections refines ConnectionPool (`ImplementsPool`) |
| | `ClientIsTyped`, `StopLeavesNothing`, `OneLinkAtATime`, `ClientTimersFit`, `DisconnectSettlesCalls` | always `ClientTypeOK`, `QuietWhenDisconnected`, `OneLink`, `TimersFitState`, `CallsSettled` of SignalRClient |
| RequestPipeline | `PipelineTypeOK`, `EachRequestOnceInOrder`, `ResponsesInOrder`, `OneSendAtATime` | always `TypeOK`, `RequestsOnceInOrder`, `Responses`, `OneSend` |
| FileUse | `OpenFilesAreNamed`, `ElementsInServiceAreListed` | always `OpenIsNamed`, `BoundIsListed` |
| | `FilesTypeOK` | always `TypeOK`: also, the list names no element twice |
| | `ClosersExclude` | no two threads close one connection at a time, and its own callback rests while another thread closes it |
| UdpSender | `SenderTypeOK`, `BoundedTransmission`, `GivingUpMeansAllTries` | always `TypeOK`, `TransmissionBound`, `GivenUpAfterAllTries` |
| | `UnsettledStaysListed` | always `UnsettledIsListed` |
| MsgReceiver | `ReceiverTypeOK`, `NothingIncompleteDelivered`, `TreatedIsDelivered` | always `TypeOK`, `CompleteBeforeDelivered`, `NothingLost` |
| | `HandledConfirmationsPop` | always `ConfirmationsPop` |
| | `RepeatsAreDropped` | always `DeliveredOnce`, on any number of callbacks |
| ReliableUdp | `HostsAreComponents` | behaviours of ReliableUdp are behaviours of UdpSender and of MsgReceiver |
| | `PairTypeOK`, `HostsKeepTheirPromises` | always `TypeOK`, and `TransmissionBound`, `GivenUpAfterAllTries`, `CompleteBeforeDelivered` and `NothingLost` of the hosts |
| | `NoFalseConfirmation` | a packet that was confirmed has been received |
| | `ConfirmedReachesTheApplication` | always `ConfirmedIsDelivered`, if no two messages have the same number |
| | `ImplementsDelivery` | ReliableUdp refines Delivery (`IsDelivery`), on any number of callbacks |
| IdleConnections | `SessionsTypeOK`, `NoSessionLeavesInSilence` | always `TypeOK`, `Goodbyes` of NettySessions |
| | `DaemonClosesNothing` | with a timeout of a second or more, no step of the daemon changes a connection |
| CallsInTurn | `TypeCorrect`, `NothingForgotten`, `SequentialCalls` | always `TypeOK`, `NotForgotten`, `OneAtATime` of QueueServer |
| | `Implements` | QueueServer refines WorkQueue (`IsWorkQueue`) |
| | `SocketTypeCorrect`, `ArgsAddUp`, `OneCallOneArgs`, `MessagesReachTheirPeer` | always `SocketTypeOK`, `Counted`, `OneOwner`, `OwnPeer` of UdpSendSocket |

The one extra assumption, distinct numbers in `ConfirmedReachesTheApplication`, is a
condition under which the code does what it promises: `GetRandomNumber` adds a counter to
`new Random(millisecond).Next()`, which makes numbers mostly distinct but excludes no
repetition; section 7 says what happens then. The assumption of MsgReceiver that
numbers are positive is what the code has: the 1000 seeds give random numbers from 728301 to
2146481243, and the number is a `long`. A larger number than `Int32.MaxValue` comes up
after about a million messages of a process at the earliest, and the models have such numbers.

What limits a property stands in the property, and no theorem adds to it: `DeliveredOnce`
and the refinement of Delivery speak of numbers about which `ReceivedQueue` can be trusted
(`Trusted`: it is not torn, the number has not left it and no two callbacks have
looked for it before either had stored it), `UnsettledIsListed` of lists on which no two
calls of `Add` or `Remove` have raced, `Goodbyes` of rounds that do not overlap,
`OneAtATime`, `OneOwner` and `OwnPeer` of calls that do not overlap, `OneSend` of clients
whose elements are bound when the code expects it.

The arguments:

* Connections, IocpConnections. `ConnInv` is the conjunction of the four invariants. None is
  inductive alone: `Release` keeps the balance only because the token it closes has a
  permit, which is `PoolPartition`, and `PoolPartition` needs the type of `hand`. The
  count of permits in use changes by one when one token joins or leaves
  `HasPermit` (`HolderAdded`, `HolderRemoved`). A token whose protocol object throws while it
  is closed keeps its permit and its entry and never comes back to the stack, which all
  of them allow for. The refinement follows: a step
  of the accept loop or of a close is one step of ConnectionPool or none, what a
  callback does apart from closing is none; that `Release` does not throw is
  `PermitsBalance` again.
* Connections, SignalRClient. A handler is a composition of functions of the connection,
  so the invariant is a predicate on connections, `Sound`, and each function has a lemma
  about the connection it returns (`TransportStops`, `TransportFailedSound`,
  `ReconnectSound`, ...); the step of a handler follows from the lemmas of what it calls.
  The heart is `OneTransport`: a link, and each timer that would make one, belongs to the
  transport in use. That is why `transportStop`, which clears only the things of that
  transport, leaves nothing, why a transport that takes over after it finds no link, and why
  `OneLink` holds. `SessionFits` says that a connection without a session has no
  transport, `WaitersHaveCallbacks` that a call which waits is one that
  `clearInvocationCallbacks` finds. The weaker `Consistent` is what `stop` needs: the disconnect
  timeout calls it when its timer has gone and the state is still "reconnecting", and
  `beat` when the last heartbeat has gone, so that the connection is not `Sound` then.
* RequestPipeline, three invariants that build on each other.
  `StreamInv`: the symbols in the buffer, in the chunk and in flight are in the order
  of the client (`Conveyed`), what has been handled is before all of them, and they
  are before what is still to be sent. A symbol that is dropped or taken for a flag
  leaves this order alone, so nothing needs to be known about when elements are bound.
  `ReplyInv`: what is on the wire, being sent, in `SendBuffer` and in the file of the
  element follow each other, each is justified by a handled request, and only an
  element whose `m_sendAsync` is set has a file.
  `OnceInv`: a client that sends a flag with each request has it read as one, or
  misread once and then nothing understood any more (`FlagEach`); one that waits after
  its only flag has at most one request unread, of which a new element takes the
  first symbol for a flag (`FlagOnce`). So an element that handles a request knows
  whether a send is in progress, and starts one only if there is none (`SentOnce`).
* FileUse. One invariant, `FileInv`, since the two properties need each other's parts.
  An element works for the connection it was made for (`OwnElements`) and the locks are
  held as the code nests them (`Locks`, `Victims`): a connection that is being closed
  keeps its element, and its own callback rests, until the setter drops it. So no
  two threads touch one element's file, and between `DoUpload` and the opening
  the element has nothing open (`Working`). An element is on the list at most once
  and not before its constructor has run (`ListOK`), so that the one entry `Close` removes
  is that of the element it closes, and a bound element is missing from the list only
  between that `Remove` and the setter (`Listed`, which is `BoundIsListed` with
  the thread that closes named).
* UdpSender. `SendInv` adds to the type invariant that the lists hold only packets that
  have been sent (`ListsHoldGiven`), that what an `Add` or a `Remove` has read is an
  index of the list (`SlotsAreIndices`), and an account of each packet (`Accounted`): it has
  been transmitted once more than it has been treated, up to the limit. Races can lose
  and duplicate entries, but not change this account, because `SendTimes`
  belongs to the packet and only the resend thread writes it. `OpenInv` adds that what the
  resend thread takes off the list it has reported (`DropReported`). As long as nothing
  has raced, an index that a `Remove` has found still holds the packet looked for when it is
  removed, and the other entries stay (`StoreKeeps`, `RemoveKeeps`).
* MsgReceiver. `ReceiverInv` adds what the callbacks hold: fragments that have arrived,
  messages that are complete; and for packageCache that each slot is empty or
  has the fragment of its index, which has arrived (`Sound`). A full array whose
  fragments are all of one message then makes the message complete
  (`ParsedIsComplete`). `KeepInv` is for messages with a number of their own: their
  array has the right length, only their fragments and an empty slot (`OwnArray`), their number is in
  `ReceivedQueue` only if they have been delivered (`QueueTrue`), and each fragment that
  has been treated is in the array, unless the message is in a callback's hands or
  concluded (`Kept`). `OnceInv` follows each number about which the queue can be
  trusted: one callback at most has passed the test with it, none of its messages has been
  delivered then, and from the `Enqueue` on the number stands in the queue (`OnceFor`).
* ReliableUdp. Each of its steps is a step of one component and leaves the other's
  variables alone. The proofs about the components are instantiated (`ReceiverP`,
  `SenderP`) and their invariants used as they are, once it is shown that the instances
  the model works with are the same (`SameFragments` and the lemmas beside it).
  `ArrivalInv`: only what has arrived is confirmed. With `KeepInv` a message whose
  packets are all confirmed is concluded. `DeliveryInv` joins
  `SendInv`, `OnceInv` and `ArrivalInv` and gives, for each step, the action of
  Delivery it is or that it is none; a step after which the queue cannot be trusted
  about a number any more is Delivery's `Forget`.
* IdleConnections. While rounds have not overlapped one of them at most is under way
  (`Alone`), and `SessionInv` says of it who can hold a session - the map, an event loop,
  the round's array or the round - that all of them hold one session for one id
  (`OneOne`), and how often it can still be announced as closed, which depends on who may
  do so (`OnceEach`). `DaemonClosesNothing` rests on arithmetic: the component
  below one second is less than a second, hence not greater than the timeout, and no
  token becomes a victim.
* CallsInTurn, QueueServer. `NotForgotten` needs that a thread that is alive and has
  not left looks again, and that the field names the Thread made last; `OneAtATime` that
  without overlap a call in progress is the only one and finds no other worker; the
  refinement that items in the queue, in hand and processed are all different.
* CallsInTurn, UdpSendSocket. `CountInv`: each step moves one args from one of the
  sets that `Counted` counts to another, or to `lost`, whichever args it is; that is
  why calls that overlap do not matter. `InTurn`, while no calls have overlapped: the
  call that runs is the only one (`SoleCall`), the pool has each args once and none that
  is held or used (`OnceInPool`, `HeldAlone`, `UsedAlone`), and what a call has set its
  args to stays (`SetUp`).

Only model-checked:

* what is temporal - `ClosedTokenReturns`, `Drains`, `HandledIsAnswered`, `Leaves`,
  `IdleLeaves`, `ReconnectingEnds`, `ConnectingEnds` - since liveness under fairness is
  out of the prover's reach.

For these the bounds of section 4 are the extent of what is known.

## 6. Disagreements between the code and its comments

| run | what happens | what the code says |
|---|---|---|
| `fileuse_deadlock` | One callback holds the list and waits for a token, the callback of that token waits for the list. | SVR/AsyncSocketProtocol/UploadSocketProtocol.cs:318, the file's holder is closed |
| `daemon_idle` | The part of the idle time below a second is compared with a timeout of minutes: no idle connection is ever closed. | SVR/AsyncSocketCore/DaemonThread.cs:33, disconnect on timeout |

## 7. Seen while modelling, and modelled, without a run of its own

Contrary to a comment; where a property is named, its module defines it, and TLC finds it
violated with the constants of the module's configuration or smaller ones:

* `OldCallbackIsInert` of IocpConnections: an aborted receive waits for
  `lock(userToken)` while the accept loop binds the token to a new socket; it then
  closes the new connection.
* `FailedOnce` of UdpSender: a resend pushes the packet again, and each entry
  reports the failure.
* `AllRepeated` of UdpSender: `MaxResendTimes` is "the largest number of times it is sent
  again" (UDPThread.cs:55); the code counts the first transmission as one of them and
  gives up after one fewer.
* `NotReportedBefore` of UdpSender: "beyond this number `PackageSendFailture` is raised"
  (UDPThread.cs:55); `SendCallback` raises it as well, when `EndSend` throws after any
  transmission, the first one included (UDPThread.cs:391). The event names no packet, and
  the packet stays on the list. `GivenUpAfterAllTries` speaks of the resend thread.
* `DeliveredOnce` of MsgReceiver without `Trusted`: two callbacks test `ReceivedQueue`
  before one adds to it, or their unlocked `Enqueue` and `Dequeue` tear the queue, and the
  message is delivered twice, against MsgTranslator.cs:74.
* `Goodbyes` of NettySessions without `~overlapped`: `System.Timers.Timer` raises `Elapsed`
  while a round is still at work; two rounds announce a UDP session twice, or one removes
  by its key the session of a peer that has come back, in silence.
* `NextRequestUnderstood` of RequestPipeline: the next request arrives before
  `ProcessSend` has dropped the element; its flag is read as part of a length.
* `DownloadsComplete` of RequestPipeline: `SendCallback` has handed over the header of
  the file; `ProcessSend` drops the element and nothing sends the data.
* `FalseMeansFree` of FileUse: the holder of a file is an element dropped by its
  connection; closing the connection does not close the file, and "not in use" is
  returned.
* `HeartbeatStops` of SignalRClient: `beat` goes on after a call that has stopped
  the connection, compares with the deleted `lastActiveAt`, and sets its timer again.

One step of a model each, so that a property would only repeat it:

* The accept loop ends after one accept that fails, or one that finds the stack
  empty (`AcceptFailed`, `PopEmpty`). The stack can be found empty because
  the permit is released before the token is pushed.
* Two threads in `List.Add` lose a packet, which is then neither confirmed nor given
  up, or leave a `null` that ends the process in the next round.
* A packet may be transmitted after its confirmation, and more than once in a
  round.
* Two senders that choose the same number: the second message is dropped as a
  repetition. The sample programs use a fixed number for some messages. A
  repetition that comes after 100 other messages is delivered again.
* A confirmation of a number above `Int32.MaxValue` reads as 0 (Helper.cs:253) and is ignored,
  against UDPThread.cs:304; `ConfirmationsPop` says that no other is.
* The close of a token's protocol object comes before `Release`, `Push` and `Remove`. One
  that throws takes a permit and a token out for ever (`ElementThrows`); one that
  waits for `lock(UploadSocketProtocolMgr)` in the deadlock of `fileuse_deadlock` never
  comes to them, and `ClosedTokenReturns` speaks of those that come so far.
* `CloseClientSocket` clears the name of an upload before its stream is closed and before it
  is off the list; a scan in between skips it as free. `OpenIsNamed` and `BoundIsListed`
  name this window.
* An element named while a scan waits for the lock of its token is closed for the name it had before
  (`ScanElement`, `LockOther`).
* Nothing calls `CheckForOutdateMessage`, so an incomplete message stays in
  `packageCache`.
* The login is kept in the element, and lost with it after the response.
* SignalRClient: the answer to an ajax send of an earlier session settles another
  call, since the numbers of calls start again; `start` twice and `stop` before
  the page has loaded still starts the connection; a transport that fails at once
  makes `transportTimeoutHandle` name the wrong timer, and the other one can end a
  slow start; a protocol version that does not fit leaves the state "connecting"; a stop
  while a transport connects leaves the promise of `start` unsettled.
  (`rate.html` names version 2.2.0 of the library; the one in the project and
  in its packages.config is 2.2.2.)
* NettySessions: an `OnSessionClosed` of the timer that throws is caught with the whole round
  (appServerBase.cs:179), its entry stays, and it is announced again in the next round. A
  session that becomes active after the timer's test is removed all
  the same, and may receive data after its goodbye; the next datagram makes a new one.
* QueueServer: two calls at once may both start the same Thread, one of which throws, or
  set `IsBackground` of one that has ended, which throws too,
  or make two workers.
* UdpSendSocket: overlapping calls may lose an args, push another twice, send one
  call's message to the other's peer or send the random bytes the buffers were
  filled with; each call without a peer or content takes an args out for ever.

## 8. What is not modelled, and why

Of the modelled parts: the contents of files, directories, texts of commands
and their parser, lengths in bytes and their arithmetic (a client's `Receive` that
gets a part of what it asks for), downloads as users of the same file, the
socket's own errors in Netframe and the test of `client` before its use in
`Close`, the initialisation of the programs; of SignalRClient the texts of
messages, urls, cross-domain requests and foreverFrame, which browsers with event
sources refuse; of NettyServer the web-socket variant; of UdpServerFrame the
receive loop, which has no state besides its one callback.

Coarser than the code, or left out of a modelled handler:

* UdpSender: the two halves of `List.Remove`, the search and the removal, are steps, and so
  are the halves of `Add`; the moving of entries inside `RemoveAt` and the growth of the
  array are one step each. The exceptions of `BeginSend` and of a closed `UdpClient` are not
  modelled, those of `EndSend` are.
* MsgReceiver: when two unlocked operations on `ReceivedQueue` meet, the queue is torn, and
  from then on every test of it may have either result. This allows more than a
  `Queue<long>` does; an exception it may throw is not modelled.
* ReliableUdp leaves `SendCallback` out, whose failure changes no state of either
  host; its run does not explore what follows a crash of the sender, its `Close` or a
  second report of one packet (`SenderGoesOn`), which the `sender` run and the proofs do.
* RequestPipeline: a `FileStream` that throws in `DoDownload`, and a position outside the file.
* SignalRClient: that `new EventSource` throws at the first start is one case of a transport
  the browser does not support (`Unsupported`); when it throws at a reconnect is modelled.
* NettySessions: the application's callbacks other than `OnSessionClosed` return.

Not at all: the other protocols of NETIOCPSvr (they share the mechanisms of
RequestPipeline), the commands and settings of Netframe, SocketSessionPool
(nothing uses it), AbortableThreadPool and QueuedBackgroundWorker; the third-party
frameworks and script libraries, the samples, the user interfaces and the Delphi
source, which have no logic of their own or are not this repository's. By far the
most of the JavaScript in the tree is of that kind: jquery and its plug-ins, knockout,
modernizr, editors' documentation copies of them and scripts of saved web pages.
`PROJECT.json` lists all components and their state, and all hazards with the
properties that watch them.
