------------------------------ MODULE TcpServer ------------------------------
(***************************************************************************)
(* miniduo::TcpServer, Acceptor and TcpConnection (conn.h, conn.cpp): the  *)
(* life of connections that are accepted by one event loop and served by   *)
(* another, from newConnection to ~TcpConnection.                          *)
(*                                                                         *)
(* A loop alternates between the batch of tasks that doPendingTasks took   *)
(* from its queue and the events epoll_wait reported (module EventLoop     *)
(* shows that queued work is never slept over, so here poll just returns). *)
(* User callbacks are steps of their own: inside one, the user calls any   *)
(* function of any connection it can name.                                 *)
(*                                                                         *)
(* A connection lives while somebody holds a shared_ptr to it: the map     *)
(* connections_, a task that captured one, a callback that is running, or  *)
(* the user.  send, shutdown, close and closeInNextLoop queue the bare     *)
(* pointer "this" instead.                                                 *)
(*                                                                         *)
(* The loops run as long as anything happens here: what quit() breaks is   *)
(* in EventLoop and EventLoops.                                            *)
(***************************************************************************)
EXTENDS Integers, Sequences

CONSTANTS
    Conns,          \* the connections clients open
    SubLoops,       \* the sub-loops of EventLoops; {}: a single EventLoop
    Main,           \* the acceptor's loop, TcpServer::loop_
    NoConn,
    Keep,           \* the user keeps TcpConnectionPtrs beyond callbacks
    Outside,        \* threads without a loop use these, too
    Calls,          \* the functions the user calls
    MaxCalls,       \* bound on the number of these calls
    Drain,          \* the kernel always takes all that is written
    Resets,         \* peers may reset a connection
    DestroyServer   \* the server may be destroyed

CallNames == {"send", "shutdown", "close", "closeInNextLoop"}

ASSUME ServerAssumption ==
    /\ Main \notin SubLoops /\ NoConn \notin Conns /\ "outside" \notin SubLoops \cup {Main}
    /\ Keep \in BOOLEAN /\ Outside \in BOOLEAN /\ Drain \in BOOLEAN /\ Resets \in BOOLEAN
    /\ DestroyServer \in BOOLEAN
    /\ Calls \subseteq CallNames /\ MaxCalls \in Nat

VARIABLES
    server,         \* "up", "destroying" (in ~TcpServer), "gone"
    listening,      \* listening_ of the Acceptor
    starts,         \* calls of start() that found it false
    connections,    \* connections_
    io,             \* loop_ of the connection; Main until it is accepted
    accepted,       \* connections newConnection created
    state,          \* state_
    events,         \* events_ of its channel
    registered,     \* the channel is known to the poller
    output,         \* bytes in output_
    unread,         \* the socket has bytes to read
    peer,           \* "open", "closed", "reset", "resetRead" (the error was read)
    phase,          \* "tasks" or "events", per loop
    queue,          \* pendingTasks_, per loop
    batch,          \* what is left of doPendingTasks's tasks
    held,           \* connections its tasks hold, the executed ones too
    active,         \* what is left of activeChannels_
    cb,             \* the connection whose user callback is running, per loop
    then,           \* what the handler does after the callback
    refs,           \* connections the user keeps a TcpConnectionPtr of
    escaped,        \* those it has ever kept one of, or called closeInNextLoop on
    calls,          \* number of calls made by the user
    asked, written, \* bytes handed to send() and to write()
    ups, downs,     \* connectionCallback_ calls, connected and not
    failed,         \* the assertion that failed, or "none"
    dangling        \* the destroyed object that was used: "this", "server" or "none"

serverVars == <<server, listening, starts, connections, io, accepted>>
connVars == <<state, events, registered, output, ups, downs, written>>
peerVars == <<unread, peer>>
loopVars == <<phase, queue, batch, held, active, cb, then>>
userVars == <<refs, escaped, calls, asked>>
errVars == <<failed, dangling>>
vars == <<serverVars, connVars, peerVars, loopVars, userVars, errVars>>

Loops == SubLoops \cup {Main}

\* A task is <<operation, connection, number>>; the number is what send is to send
\* or, for a close, the bytes that should be written first.  These operations
\* capture a TcpConnectionPtr, all others "this".
SharedOps == {"connectEstablished", "removeConnectionInLoop", "connectDestroyed", "writeComplete"}

Zero == [c \in Conns |-> 0]
No == [c \in Conns |-> FALSE]

Init ==
    /\ server = "up" /\ listening = FALSE /\ starts = 0 /\ connections = {} /\ accepted = {}
    /\ refs = {} /\ escaped = {}
    /\ io = [c \in Conns |-> Main]
    /\ state = [c \in Conns |-> "none"] /\ events = [c \in Conns |-> {}]
    /\ registered = No /\ unread = No
    /\ output = Zero /\ asked = Zero /\ written = Zero
    /\ ups = Zero /\ downs = Zero
    /\ peer = [c \in Conns |-> "open"]
    /\ phase = [l \in Loops |-> "tasks"]
    /\ queue = [l \in Loops |-> <<>>] /\ batch = [l \in Loops |-> <<>>]
    /\ held = [l \in Loops |-> {}] /\ active = [l \in Loops |-> {}]
    /\ cb = [l \in Loops |-> NoConn] /\ then = [l \in Loops |-> "return"]
    /\ calls = 0
    /\ failed = "none" /\ dangling = "none"

SharedIn(q) == {q[i][2] : i \in {j \in DOMAIN q : q[j][1] \in SharedOps}}

\* Somebody holds a shared_ptr.
Alive(c) ==
    \/ c \in connections \cup refs
    \/ \E l \in Loops : c \in SharedIn(queue[l]) \cup held[l] \cup {cb[l]}

\* assert(), and assertInLoopThread() with it for the functions that belong to the
\* loop "home" and are run by l.  Nothing happens any more once one failed.
AssertThat(name, b) == failed' = IF b THEN failed ELSE name
AssertInLoop(l, home) == AssertThat("inLoopThread", l = home)
AssertAlso(l, home, name, b) == IF l = home THEN AssertThat(name, b) ELSE AssertInLoop(l, home)

Push(l, op, c, n) == queue' = [queue EXCEPT ![l] = Append(@, <<op, c, n>>)]

Callback(l, c, next) ==
    /\ cb' = [cb EXCEPT ![l] = c]
    /\ then' = [then EXCEPT ![l] = next]

NoCallback == UNCHANGED <<cb, then>>

IsReset(c) == peer[c] \in {"reset", "resetRead"}

(***************************************************************************)
(* The bodies of the TcpConnection functions that run in the loop; each    *)
(* says what becomes of connVars, of the callback and of failed.           *)
(***************************************************************************)
ConnectEstablished(l, c) ==
    /\ AssertAlso(l, io'[c], "connectEstablished",
                  state[c] \in {"none", "kConnecting"} /\ ~registered[c])
    /\ state' = [state EXCEPT ![c] = "kConnected"]
    /\ registered' = [registered EXCEPT ![c] = TRUE]
    /\ events' = [events EXCEPT ![c] = {"read"}]
    /\ ups' = [ups EXCEPT ![c] = @ + 1]
    /\ Callback(l, c, "return")
    /\ UNCHANGED <<output, downs, written>>

\* setState(kDisconnected), disableAll() and connectionCallback_
Disconnect(l, c, next) ==
    /\ state' = [state EXCEPT ![c] = "kDisconnected"]
    /\ events' = [events EXCEPT ![c] = {}]
    /\ downs' = [downs EXCEPT ![c] = @ + 1]
    /\ Callback(l, c, next)
    /\ UNCHANGED <<registered, output, ups, written>>

SendInLoop(l, c, n) ==
    /\ AssertInLoop(l, io[c])
    /\ IF state[c] = "kConnected"
         THEN /\ output' = [output EXCEPT ![c] = @ + n]
              /\ events' = [events EXCEPT ![c] = @ \cup {"write"}]
         ELSE UNCHANGED <<output, events>>
    /\ UNCHANGED <<state, registered, ups, downs, written>>

\* shutdown(2) fails on a socket the peer has reset, and the code asserts that it
\* does not.  A half-closed socket behaves no differently towards the server.
ShutdownWrite(c) == ~IsReset(c)

ShutdownInLoop(l, c) ==
    /\ IF state[c] = "kConnected"
         THEN /\ state' = [state EXCEPT ![c] = "kDisconnecting"]
              /\ AssertAlso(l, io[c], "shutdownWrite", "write" \in events[c] \/ ShutdownWrite(c))
         ELSE AssertInLoop(l, io[c]) /\ UNCHANGED state
    /\ UNCHANGED <<events, registered, output, ups, downs, written>>

\* EventLoop::removeChannel: the poller asserts that the channel is known to it
\* and has no events.
RemoveChannel(l, c) ==
    /\ AssertAlso(l, io[c], "removeChannel", registered[c] /\ events[c] = {})
    /\ registered' = [registered EXCEPT ![c] = FALSE]
    /\ UNCHANGED <<state, events, output, ups, downs, written>>

(***************************************************************************)
(* TcpServer::start, Acceptor::listen, Acceptor::handleRead and            *)
(* TcpServer::newConnection, one connection of the accept loop at a time;  *)
(* allocLoop hands out some sub-loop.                                      *)
(***************************************************************************)
Idle(l) == cb[l] = NoConn /\ (l = Main => server # "destroying")

\* listenSock and addChannel, which asserts that the descriptor is new to it.
Listen ==
    /\ AssertThat("addChannel", ~listening)
    /\ listening' = TRUE
    /\ UNCHANGED <<server, connections, io, accepted>>

\* A task of the main loop listens at once, all others queue it.  The queue bounds
\* the number of calls.
Start ==
    /\ server = "up" /\ ~listening
    /\ starts' = starts + 1
    /\ \/ phase[Main] = "tasks" /\ Idle(Main) /\ Listen /\ UNCHANGED queue
       \/ /\ queue[Main] = <<>> /\ Push(Main, "listen", NoConn, 0)
          /\ UNCHANGED <<server, listening, connections, io, accepted, failed>>
    /\ UNCHANGED <<connVars, peerVars, phase, batch, held, active, cb, then, userVars, dangling>>

NewConnection(c, l) ==
    /\ phase[Main] = "events" /\ Idle(Main) /\ server = "up"
    /\ listening /\ c \notin accepted
    /\ SubLoops # {} => l # Main
    /\ accepted' = accepted \cup {c}
    /\ connections' = connections \cup {c}
    /\ io' = [io EXCEPT ![c] = l]
    /\ IF l = Main
         THEN ConnectEstablished(Main, c) /\ UNCHANGED queue
         ELSE /\ state' = [state EXCEPT ![c] = "kConnecting"]
              /\ Push(l, "connectEstablished", c, 0)
              /\ NoCallback
              /\ UNCHANGED <<events, registered, output, ups, downs, written, failed>>
    /\ UNCHANGED <<server, listening, starts, peerVars, phase, batch, held, active, userVars, dangling>>

(***************************************************************************)
(* EventLoop::loop: the batch, then poll, then the events.                 *)
(***************************************************************************)
Readable(c) == "read" \in events[c] /\ (unread[c] \/ peer[c] # "open")
Writers(l) == {c \in Conns : registered[c] /\ io[c] = l /\ "write" \in events[c]}
Readers(l) == {c \in Conns : registered[c] /\ io[c] = l /\ Readable(c)}

\* doPendingTasks returns, and with it its tasks and their pointers are gone.
Poll(l) ==
    /\ phase[l] = "tasks" /\ batch[l] = <<>> /\ Idle(l)
    /\ \E W \in SUBSET Writers(l) :
         /\ Drain => W = Writers(l)
         /\ active' = [active EXCEPT ![l] = (Readers(l) \X {"read"}) \cup (W \X {"write"})]
    /\ phase' = [phase EXCEPT ![l] = "events"]
    /\ held' = [held EXCEPT ![l] = {}]
    /\ UNCHANGED <<serverVars, connVars, peerVars, queue, batch, cb, then, userVars, errVars>>

SwapTasks(l) ==
    /\ phase[l] = "events" /\ active[l] = {} /\ Idle(l)
    /\ phase' = [phase EXCEPT ![l] = "tasks"]
    /\ batch' = [batch EXCEPT ![l] = queue[l]]
    /\ held' = [held EXCEPT ![l] = SharedIn(queue[l])]
    /\ queue' = [queue EXCEPT ![l] = <<>>]
    /\ UNCHANGED <<serverVars, connVars, peerVars, active, cb, then, userVars, errVars>>

(***************************************************************************)
(* The tasks                                                               *)
(***************************************************************************)
TaskReady(l) == phase[l] = "tasks" /\ Idle(l) /\ batch[l] # <<>>
Op(l) == Head(batch[l])[1]
Arg(l) == Head(batch[l])[2]
Num(l) == Head(batch[l])[3]
Take(l, op) == TaskReady(l) /\ Op(l) = op /\ batch' = [batch EXCEPT ![l] = Tail(@)]

TaskFrame == UNCHANGED <<peerVars, phase, held, active, userVars, dangling>>

\* A task that captured "this" and outlived the connection, or one that uses
\* the server and outlived it.
TaskDangles(l) ==
    /\ TaskReady(l)
    /\ \/ Op(l) # "listen" /\ ~Alive(Arg(l)) /\ dangling' = "this"
       \/ Op(l) \in {"listen", "removeConnectionInLoop"} /\ server = "gone" /\ dangling' = "server"
    /\ UNCHANGED <<serverVars, connVars, peerVars, loopVars, userVars, failed>>

TaskListen(l) ==
    /\ Take(l, "listen") /\ server = "up"
    /\ Listen
    /\ NoCallback /\ TaskFrame /\ UNCHANGED <<starts, connVars, queue>>

TaskEstablished(l) ==
    /\ Take(l, "connectEstablished")
    /\ UNCHANGED <<serverVars, queue>>
    /\ ConnectEstablished(l, Arg(l))
    /\ TaskFrame

\* Bug variant: connectDestroyed is queued in the loop that runs this.
RemoveConnectionHere(l, c) ==
    /\ AssertAlso(l, Main, "removeConnection", c \in connections)
    /\ connections' = connections \ {c}
    /\ Push(l, "connectDestroyed", c, 0)
    /\ UNCHANGED <<server, listening, starts, io, accepted>>

RemoveConnectionInLoop(l, c) ==
    /\ AssertAlso(l, Main, "removeConnection", c \in connections)
    /\ connections' = connections \ {c}
    /\ Push(io[c], "connectDestroyed", c, 0)
    /\ UNCHANGED <<server, listening, starts, io, accepted>>

TaskRemove(l) ==
    /\ Take(l, "removeConnectionInLoop") /\ server = "up"
    /\ RemoveConnectionInLoop(l, Arg(l))
    /\ NoCallback /\ TaskFrame /\ UNCHANGED connVars

TaskWriteComplete(l) ==
    /\ Take(l, "writeComplete")
    /\ Callback(l, Arg(l), "return")
    /\ TaskFrame /\ UNCHANGED <<serverVars, connVars, queue, failed>>

\* Bug variants: the test of the state is forgotten; a connection that is
\* already down returns early.
ConnectDestroyedAlways(l, c) == Disconnect(l, c, "removeChannel") /\ AssertInLoop(l, io[c])

ConnectDestroyedEarly(l, c) ==
    IF state[c] = "kConnected"
      THEN Disconnect(l, c, "removeChannel") /\ AssertInLoop(l, io[c])
      ELSE NoCallback /\ UNCHANGED <<connVars, failed>>

ConnectDestroyed(l, c) ==
    IF state[c] = "kConnected"
      THEN Disconnect(l, c, "removeChannel") /\ AssertInLoop(l, io[c])
      ELSE RemoveChannel(l, c) /\ NoCallback

TaskDestroyed(l) ==
    /\ Take(l, "connectDestroyed")
    /\ ConnectDestroyed(l, Arg(l))
    /\ TaskFrame /\ UNCHANGED <<serverVars, queue>>

TaskSend(l) ==
    /\ Take(l, "sendInLoop") /\ Alive(Arg(l))
    /\ SendInLoop(l, Arg(l), Num(l))
    /\ NoCallback /\ TaskFrame /\ UNCHANGED <<serverVars, queue>>

TaskShutdown(l) ==
    /\ Take(l, "shutdownInLoop") /\ Alive(Arg(l))
    /\ ShutdownInLoop(l, Arg(l))
    /\ NoCallback /\ TaskFrame /\ UNCHANGED <<serverVars, queue>>

\* handleClose
Open(c) == state[c] \in {"kConnected", "kDisconnecting"}

\* Bug variant: closeCallback_ is not called.
HandleCloseKeeps(l, c) == AssertAlso(l, io[c], "handleClose", Open(c)) /\ Disconnect(l, c, "return")

HandleClose(l, c) == AssertAlso(l, io[c], "handleClose", Open(c)) /\ Disconnect(l, c, "closeCallback")

\* closeInLoop
TaskClose(l) ==
    /\ Take(l, "closeInLoop") /\ Alive(Arg(l))
    /\ IF Open(Arg(l)) THEN HandleClose(l, Arg(l))
                       ELSE AssertInLoop(l, io[Arg(l)]) /\ NoCallback /\ UNCHANGED connVars
    /\ TaskFrame /\ UNCHANGED <<serverVars, queue>>

\* The lambda of closeInNextLoop.
TaskQueueClose(l) ==
    /\ Take(l, "queueClose") /\ Alive(Arg(l))
    /\ Push(l, "closeInLoop", Arg(l), Num(l))
    /\ NoCallback /\ TaskFrame /\ UNCHANGED <<serverVars, connVars, failed>>

RunTask(l) ==
    \/ TaskListen(l) \/ TaskEstablished(l) \/ TaskRemove(l) \/ TaskWriteComplete(l) \/ TaskDestroyed(l)
    \/ TaskSend(l) \/ TaskShutdown(l) \/ TaskClose(l) \/ TaskQueueClose(l)
    \/ TaskDangles(l)

(***************************************************************************)
(* Channel::handleEvent: the read callback, then the write callback.       *)
(***************************************************************************)
Event(l, c, kind) ==
    /\ phase[l] = "events" /\ Idle(l)
    /\ <<c, kind>> \in active[l]
    /\ active' = [active EXCEPT ![l] = @ \ {<<c, kind>>}]
    /\ UNCHANGED <<serverVars, phase, batch, held, userVars, dangling>>

\* read() returns bytes, an error (which is only logged), or 0.
HandleRead(l, c) ==
    /\ Event(l, c, "read")
    /\ UNCHANGED queue
    /\ \/ /\ unread[c]
          /\ unread' = [unread EXCEPT ![c] = FALSE]
          /\ Callback(l, c, "return")
          /\ UNCHANGED <<connVars, peer, failed>>
       \/ /\ ~unread[c] /\ peer[c] = "reset"
          /\ peer' = [peer EXCEPT ![c] = "resetRead"]
          /\ NoCallback /\ UNCHANGED <<connVars, unread, failed>>
       \/ /\ ~unread[c] /\ peer[c] \in {"closed", "resetRead"}
          /\ HandleClose(l, c)
          /\ UNCHANGED peerVars

\* What write() may return: -1 is "would block" or an error.
WriteResult(c) ==
    IF output[c] = 0 THEN {0}
    ELSE IF IsReset(c) THEN {-1}
    ELSE IF Drain THEN {output[c]} ELSE {-1} \cup 1..output[c]

\* After the last byte: the shutdownInLoop() of a kDisconnecting connection
\* finds that it is not kConnected and does nothing.
HandleWrite(l, c) ==
    /\ <<c, "read">> \notin active[l]
    /\ Event(l, c, "write")
    /\ \/ /\ "write" \in events[c]
          /\ \E n \in WriteResult(c) :
               /\ n >= 0
               /\ output' = [output EXCEPT ![c] = @ - n]
               /\ written' = [written EXCEPT ![c] = @ + n]
               /\ IF n = output[c]
                    THEN /\ events' = [events EXCEPT ![c] = @ \ {"write"}]
                         /\ Push(l, "writeComplete", c, 0)
                    ELSE UNCHANGED <<events, queue>>
          /\ UNCHANGED <<state, registered, ups, downs>>
       \/ /\ "write" \notin events[c] \/ -1 \in WriteResult(c)
          /\ UNCHANGED <<connVars, queue>>
    /\ AssertInLoop(l, io[c])
    /\ NoCallback /\ UNCHANGED peerVars

(***************************************************************************)
(* The end of a user callback, and what the handler does next.             *)
(***************************************************************************)
ReturnFrame == UNCHANGED <<peerVars, phase, batch, held, active, then, userVars>>

EndCallback(l) == cb[l] # NoConn /\ cb' = [cb EXCEPT ![l] = NoConn]

ReturnPlain(l) ==
    /\ EndCallback(l) /\ then[l] = "return"
    /\ ReturnFrame /\ UNCHANGED <<serverVars, connVars, queue, errVars>>

\* closeCallback_ is TcpServer::removeConnection
ReturnToClose(l) ==
    /\ EndCallback(l) /\ then[l] = "closeCallback"
    /\ dangling' = IF server = "gone" THEN "server" ELSE dangling
    /\ IF l = Main
         THEN RemoveConnectionInLoop(l, cb[l])
         ELSE Push(Main, "removeConnectionInLoop", cb[l], 0) /\ UNCHANGED <<serverVars, failed>>
    /\ ReturnFrame /\ UNCHANGED connVars

ReturnToRemove(l) ==
    /\ EndCallback(l) /\ then[l] = "removeChannel"
    /\ RemoveChannel(l, cb[l])
    /\ ReturnFrame /\ UNCHANGED <<serverVars, queue, dangling>>

ReturnCallback(l) == ReturnPlain(l) \/ ReturnToClose(l) \/ ReturnToRemove(l)

(***************************************************************************)
(* ~TcpServer: in a task of the main loop it runs connectDestroyed in the  *)
(* loop of every connection.  Anywhere else (in another thread, or in the  *)
(* loop's own once loop() has returned) assertInLoopThread ends it.        *)
(***************************************************************************)
BeginDestroy ==
    /\ DestroyServer /\ server = "up"
    /\ \/ phase[Main] = "tasks" /\ Idle(Main) /\ server' = "destroying" /\ UNCHANGED failed
       \/ AssertThat("~TcpServer", FALSE) /\ UNCHANGED server
    /\ UNCHANGED <<listening, starts, connections, io, accepted, connVars, peerVars, loopVars, userVars, dangling>>

DestroyConnection(c) ==
    /\ server = "destroying" /\ cb[Main] = NoConn /\ c \in connections
    /\ connections' = connections \ {c}
    /\ IF io[c] = Main
         THEN ConnectDestroyed(Main, c) /\ UNCHANGED queue
         ELSE /\ Push(io[c], "connectDestroyed", c, 0)
              /\ NoCallback /\ UNCHANGED <<connVars, failed>>
    /\ UNCHANGED <<server, listening, starts, io, accepted, peerVars, phase, batch, held, active, userVars, dangling>>

EndDestroy ==
    /\ server = "destroying" /\ cb[Main] = NoConn /\ connections = {}
    /\ server' = "gone"
    /\ UNCHANGED <<listening, starts, connections, io, accepted, connVars, peerVars, loopVars, userVars, errVars>>

(***************************************************************************)
(* The user: calls from callbacks and from threads without a loop.         *)
(***************************************************************************)
Callers == Loops \cup {"outside"}

MayCall(by, c, name) ==
    /\ name \in Calls /\ calls < MaxCalls
    /\ \/ by \in Loops /\ cb[by] # NoConn /\ c \in refs \cup {cb[by]}
       \/ by = "outside" /\ Outside /\ c \in refs
    /\ calls' = calls + 1

CallFrame == UNCHANGED <<serverVars, peerVars, phase, batch, held, active, cb, then, refs, dangling>>

\* send("") only enables the write event.
Send(by, c, n) ==
    /\ MayCall(by, c, "send")
    /\ asked' = [asked EXCEPT ![c] = @ + n]
    /\ IF by = io[c]
         THEN SendInLoop(by, c, n) /\ UNCHANGED queue
         ELSE Push(io[c], "sendInLoop", c, n) /\ UNCHANGED <<connVars, failed>>
    /\ CallFrame /\ UNCHANGED escaped

Shutdown(by, c) ==
    /\ MayCall(by, c, "shutdown")
    /\ IF by = io[c]
         THEN ShutdownInLoop(by, c) /\ UNCHANGED queue
         ELSE Push(io[c], "shutdownInLoop", c, 0) /\ UNCHANGED <<connVars, failed>>
    /\ CallFrame /\ UNCHANGED <<escaped, asked>>

\* Bug variant: the close is queued by a task of its own.
CloseDeferred(by, c) ==
    /\ MayCall(by, c, "close")
    /\ Push(io[c], "queueClose", c, 0)
    /\ CallFrame /\ UNCHANGED <<connVars, escaped, asked, failed>>

Close(by, c) ==
    /\ MayCall(by, c, "close")
    /\ Push(io[c], "closeInLoop", c, 0)
    /\ CallFrame /\ UNCHANGED <<connVars, escaped, asked, failed>>

\* Bug variant: closeInLoop is queued right away.
CloseInNextLoopOnce(by, c) ==
    /\ MayCall(by, c, "closeInNextLoop")
    /\ Push(io[c], "closeInLoop", c, asked[c])
    /\ escaped' = escaped \cup {c}
    /\ CallFrame /\ UNCHANGED <<connVars, asked, failed>>

CloseInNextLoop(by, c) ==
    /\ MayCall(by, c, "closeInNextLoop")
    /\ Push(io[c], "queueClose", c, asked[c])
    /\ escaped' = escaped \cup {c}
    /\ CallFrame /\ UNCHANGED <<connVars, asked, failed>>

KeepRef(l) ==
    /\ Keep /\ cb[l] # NoConn
    /\ refs' = refs \cup {cb[l]}
    /\ escaped' = escaped \cup {cb[l]}
    /\ UNCHANGED <<serverVars, connVars, peerVars, loopVars, calls, asked, errVars>>

DropRef(c) ==
    /\ c \in refs
    /\ refs' = refs \ {c}
    /\ UNCHANGED <<escaped, serverVars, connVars, peerVars, loopVars, calls, asked, errVars>>

(***************************************************************************)
(* The peer                                                                *)
(***************************************************************************)
PeerFrame == UNCHANGED <<serverVars, connVars, loopVars, userVars, errVars>>

PeerSends(c) ==
    /\ c \in accepted /\ peer[c] = "open"
    /\ unread' = [unread EXCEPT ![c] = TRUE]
    /\ PeerFrame /\ UNCHANGED peer

PeerCloses(c) ==
    /\ c \in accepted /\ peer[c] = "open"
    /\ peer' = [peer EXCEPT ![c] = "closed"]
    /\ PeerFrame /\ UNCHANGED unread

PeerResets(c) ==
    /\ Resets /\ c \in accepted /\ peer[c] \in {"open", "closed"}
    /\ peer' = [peer EXCEPT ![c] = "reset"]
    /\ unread' = [unread EXCEPT ![c] = FALSE]
    /\ PeerFrame

-----------------------------------------------------------------------------
LoopStep(l) ==
    \/ Poll(l) \/ SwapTasks(l) \/ RunTask(l)
    \/ \E c \in Conns : HandleRead(l, c) \/ HandleWrite(l, c)

User ==
    \/ \E l \in Loops : KeepRef(l)
    \/ \E c \in Conns : DropRef(c)
    \/ \E by \in Callers, c \in Conns :
         \/ \E n \in 0..1 : Send(by, c, n)
         \/ Shutdown(by, c) \/ Close(by, c) \/ CloseInNextLoop(by, c)

\* The destructor, once begun, goes on.
DestroyStep == (\E c \in Conns : DestroyConnection(c)) \/ EndDestroy

Peer == \E c \in Conns : PeerSends(c) \/ PeerCloses(c) \/ PeerResets(c)

Accept == \E c \in Conns, l \in Loops : NewConnection(c, l)

Running == failed = "none" /\ dangling = "none"
Stopped == ~Running /\ UNCHANGED vars

Next ==
    \/ /\ Running
       /\ \/ \E l \in Loops : LoopStep(l) \/ ReturnCallback(l)
          \/ Start \/ Accept \/ BeginDestroy \/ DestroyStep \/ User \/ Peer
    \/ Stopped

Spec == Init /\ [][Next]_vars

\* The loops keep running, callbacks return and the destructor, once begun, goes
\* on; nobody has to call anything or begin it.
FairSpec ==
    /\ Spec
    /\ WF_vars(Running /\ DestroyStep)
    /\ \A l \in Loops : WF_vars(Running /\ LoopStep(l)) /\ WF_vars(Running /\ ReturnCallback(l))

-----------------------------------------------------------------------------
(***************************************************************************)
(* Properties                                                              *)
(***************************************************************************)

\* While the server is up, no task touches a TcpConnection that has been destroyed,
\* unless the user has kept a pointer to it, or called closeInNextLoop() on it: the
\* shared_ptrs of connections_, of the tasks and of the batch that is being run
\* cover every other bare "this" in the queues.  ~TcpServer gives up that cover
\* (conn.cpp:71): a close() in the disconnect callback of connectDestroyed then
\* outlives the connection.
NoDangling ==
    dangling = "this" =>
      server # "up" \/ \E l \in Loops : TaskReady(l) /\ Arg(l) \in escaped

\* send(), shutdown() and close() may be called from any thread (conn.h:129), so
\* while the server is up no task they queue may outlive the connection.
ThreadSafe == dangling = "this" => server # "up"

\* The poller holds a bare Channel*; the connection that owns the channel is
\* alive as long as it is registered.
RegisteredIsAlive == \A c \in Conns : registered[c] => Alive(c)

\* Every function of the server and of a connection runs in the loop it belongs to,
\* and finds the state it asserts, whatever users and peers do while the loops run:
\* no connection is established or removed twice, closed while it is not open, or
\* added to the poller again.  Four assertions can fail, each in one case only:
\* that of the poller on the listening channel after a second start() that came
\* before the first one's listen() had run (conn.cpp:82); that of shutdown(2), with
\* nothing left to write, on a connection whose reset is not handled yet
\* (net.cpp:70); that of removeChannel on a connection the user had half closed
\* when the server was destroyed, as connectDestroyed looks for kConnected only
\* (conn.cpp:171); and that of ~TcpServer outside of its loop (conn.cpp:66).
AssertionsHold ==
    \/ failed = "none"
    \/ failed = "addChannel" /\ listening /\ starts > 1
    \/ /\ failed = "shutdownWrite"
       /\ \E c \in accepted : state[c] = "kDisconnecting" /\ IsReset(c) /\ "write" \notin events[c]
    \/ /\ failed = "removeChannel" /\ server # "up"
       /\ \E c \in accepted \ connections : state[c] = "kDisconnecting"
    \/ failed = "~TcpServer" /\ server = "up"

\* The user sees each connection come up once and go down once, and it has seen
\* both before the connection is destroyed, unless an assertion ends the program.
CallbacksPaired ==
    \A c \in Conns :
      /\ downs[c] <= ups[c] /\ ups[c] <= 1
      /\ c \in accepted /\ ~Alive(c) => downs[c] = 1 \/ failed # "none"

\* closeInNextLoop() lets the bytes go that were handed to send() before it
\* (conn.cpp:280-284), on a socket that takes what is written to it and that the
\* peer has not reset.
Closes(l) ==
    /\ batch[l] # <<>> /\ batch'[l] # batch[l] /\ Op(l) = "closeInLoop"
    /\ state[Arg(l)] = "kConnected" /\ state'[Arg(l)] = "kDisconnected"
    /\ ~IsReset(Arg(l))

FlushedBeforeClose == [][\A l \in Loops : Closes(l) => written[Arg(l)] >= Num(l)]_vars

\* A connection the peer has closed or reset is destroyed, and its descriptor with
\* it, unless the user keeps a pointer to it.
PeerCloseReleases ==
    \A c \in Conns :
      (c \in accepted /\ peer[c] # "open") ~> (~Alive(c) \/ c \in refs \/ ~Running)
=============================================================================
