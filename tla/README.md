# miniduo in TLA+

TLA+ models of miniduo, a C++11 Reactor network library: its event loop and
loop pool, pollers, timers, TCP connections, buffer, logger and HTTP server; the
TLC runs that check them on small instances; and TLAPS proofs of the central safety
properties for instances of any size. `PROJECT.json` lists components, runs,
mutants, the map from definitions to source lines, findings, hazards and
theorems.

    tlc -workers 2 -config MCEventLoop.cfg MCEventLoop     # one run
    tlapm EventLoopProofs.tla                              # one proof module

## 1. The system

| Part | State it keeps | Operations | Hard because |
|---|---|---|---|
| `EventLoop` (EventLoop.h/.cpp) | `stoplooping_`, `tid_`, `pendingTasks_`, `wakeupFd_`, `activeChannels_` | `loop`, `quit`, `runInLoop`, `queueInLoop`, `wakeup` | any thread calls in while one thread polls; the thread checks abort |
| `EventLoops` | sub-loops, `next_` | `loop`, `quit`, `allocLoop` | loops start on threads of their own while connections and `quit()` arrive |
| `EPollPoller`, `PollPoller` (poller.*), `Channel` (channel.*) | `channels_`, kernel set / `pollfds_`; `events_` | add, update, remove, poll | two structures that must mirror each other |
| `TimerQueue` (timer.*) | `timers_`, one timerfd | `addTimer`, `cancelTimer`, `handleRead` | callbacks change the set while a batch runs; calls of other threads are queued |
| `TcpServer`, `Acceptor`, `TcpConnection` (conn.*) | `connections_`, `state_`, channel, output | accept, send, shutdown, close, the handlers | a connection is shared by two loops, the user and queued tasks, some with a bare `this` |
| `Buffer` (buffer.*) | vector and two indices | append, readFd, retrieve, makeSpace, prepend, shrink | unsigned index arithmetic, in-place moves |
| `Logger` (logging.*) | `msg_`, `fd_`, flags | log, flush thread, rotate, switch, destroy | producers, one consumer, short writes, shutdown |
| `HttpRequest` (http/httpmsg.*) | `checkstate_`, what was parsed | `tryDecode` and its parts | input split anywhere, malformed input |
| `HttpServer`, `HttpResponse` (http/*) | response in progress, open file | `onMsg`, `onWriteComplete` | chunks that bypass the output buffer, callbacks queued behind reads |
| net, util | none | wrappers of system calls | - |

How they interact: `EventLoop::loop` takes the queue (`doPendingTasks`), polls,
and calls the handlers of the channels the poller reported. Channels, timers and
connections change the poller and themselves only in their loop's thread; every
other thread reaches them through `runInLoop`/`queueInLoop`. `TcpServer` accepts
in the main loop, asks `allocLoop` for a loop and queues `connectEstablished` to
it; a closed connection travels back (`removeConnection` to the main loop,
`connectDestroyed` to its own). User callbacks run inside handlers and may call
anything. `HttpServer` is such a user: it decodes in the message callback and
goes on with the response in the write-complete callback.

What makes each part correct:

- EventLoop: no task is lost, doubled or reordered; no wakeup is lost; `quit()`
  ends `loop()`; the thread assertions only fail when they should.
- EventLoops: connections are spread evenly and served; `quit()` ends every loop.
- Pollers: the map agrees with the kernel or with the array after every
  sequence of calls; only known channels with events are reported.
- TimerQueue: the timerfd never oversleeps the earliest timer; nothing fires
  early, once too often or after `cancel`; what was set fires.
- Connections: nothing destroyed is used; the connection callback comes once up
  and once down; assertions hold; a closed connection is released.
- Buffer: a byte queue; indices in order; no write outside the vector.
- Logger: everything logged is written, in order, in one piece.
- HTTP: how the bytes arrive does not change what is decoded; a response is sent
  whole and once, and then the connection is closed; files are closed.

## 2. Modules

| Module | Models | Remarks |
|---|---|---|
| `TaskExecutor` | what callers of `runInLoop`/`queueInLoop` rely on | abstract; one queue, each task once |
| `EventLoop` | `EventLoop`, one action per statement that other threads can observe | refines `TaskExecutor` |
| `EventLoopProofs` | | no lost wakeup; the refinement; the loop pool: round robin, who returns last |
| `EventLoops` | the loop pool; each loop reduced to flag, test, queue | |
| `Poller` | what the loop relies on | abstract: interest per channel |
| `EPollPoller`, `PollPoller` | the two pollers, with `Channel::events_` | each refines `Poller` |
| `EPollPollerProofs`, `PollPollerProofs` | | the mirrors and the refinements |
| `TimerQueue` | timers and the timerfd, discrete time | |
| `TimerQueueProofs` | | the timerfd, firing and cancelling |
| `TcpServer` | server, acceptor, connections, their loops, user and peers | composes connections, loops, user and peer |
| `TcpServerProofs` | | the life of a connection; what keeps it alive; which bytes go before its close |
| `HttpRequest` | the request parser, and a reference definition of a request | |
| `HttpServer` | the HTTP server on one connection: parser, response, output buffer, loop, client | extends `HttpRequest` |
| `HttpServerProofs` | | parser against reference definition; the response, the close and the file |
| `ByteQueue` | what users of a buffer rely on | abstract |
| `Buffer` | the vector and the indices, modulo `SizeMax` | refines `ByteQueue` if data is taken whole |
| `BufferProofs` | | indices; the refinement |
| `Logger` | producers, background thread, files, destructor | |
| `LoggerProofs` | | what is written, and where |
| `MC*` | instantiate the above for TLC | |

Operators called "Bug variant" are not part of any specification: each is a
plausible wrong version of the operator after it, kept to show that the
properties notice the difference.

### EventLoop
`pc[t]` is where thread `t` is in `loop()`: `settid`, `start`
(`stoplooping_ = false`), `entry` (`assertInLoopThread`), `while`, `swap`,
`tasks`, `poll`, `events`, `leave`. `cb[t]` says that a task or a callback runs,
inside which the thread may call `runInLoop`, `queueInLoop` and `quit`; `op[t]`
is how far such a call is: the push (under `mutex_`) and the eventfd write are
separate steps. The eventfd's counter is a Boolean, level triggered.
`addChannel`, `updateChannel`, `removeChannel`, `runAt`... are tasks; those that
begin with `assertInLoopThread()` are in `LibTasks`. The constructor's
registrations are one task, `RegTask`, that is queued from the start: until it
has run, the wakeup channel is not in the poller. A failed assertion sets
`aborted`, after which nothing happens. `JoinFirst` says whether `loop()` is
called only after an earlier `loop()` has returned.

### EventLoops
`mpc` follows `EventLoops::loop`; `lpc[l]` follows each `EventLoop::loop`, whose
`stop[l]` is written by `Start` (`stoplooping_ = false`) and by `QuitOne`. A
batch is one step. `quit` remembers whether `quit()` was called, and whether all
loops were up by then (`late`) or not (`early`).

### Pollers
`SetEvents` changes `Channel::events_`, `UpdateChannel` tells the poller later,
since from another thread the second part is queued. `Ctl` is the kernel's
epoll_ctl, with its errors. In `PollPoller`, a channel without events keeps its
entry with the descriptor `-fd-1`. Any call may come at any time: one that breaks
an assertion on its caller (a channel added twice, updated or removed without being
known, removed with events set, as `connectDestroyed` does with a half-closed
connection) sets `failed` and ends the process. `PollPoller` tells these (`caller`)
from the assertions on its own data (`own`), which `PlacesAgree` excludes.
Descriptors are not reused, so that a known descriptor is that of its channel.

### TimerQueue
The loop thread and other threads set and cancel timers; the calls of the others
are queued, so a `cancel()` of the loop thread can overtake them.
Time advances between any two steps up to `MaxTime`. There is one clock; the code
reads `system_clock` and arms a `CLOCK_MONOTONIC` timerfd by the difference, so the
model is of a system clock that nobody sets. `timerfd` is the time the
descriptor becomes readable; arming it anew while it is readable makes the later
read fail without harm (the code logs it), so `HandleRead` takes it as it is.
`cancels[k]` distinguishes a cancelled timer that is still in the vector of
expired timers (`batch`: the code runs it once more in that round and says so),
one whose `addTimer` was still queued (`early`: it is inserted later, stripped of
its interval, and runs once), and one that must not run again (`final`).

### TcpServer
Each loop has a queue, a batch and a set of reported events; every task and every
handler is one action up to the user callback it makes, which is a state of its
own (`cb[l]`), and `then[l]` says what the handler does when the callback
returns. `Alive(c)` is the shared_ptr count: the map, tasks that captured a
`TcpConnectionPtr` (until their whole batch is over, as the vector holds them),
running callbacks, and the user's own pointers. Tasks other than those in
`SharedOps` captured `this`; running one when `~Alive(c)` sets `dangling`, and so
does using the server after `~TcpServer`. `escaped` are the connections whose pointer
the user has ever kept beyond a callback, or on which it called `closeInNextLoop`.

`failed` names the assertion that failed; nothing happens after it. Every function
that begins with `assertInLoopThread()` takes the loop `l` it is run by, and asserts
that it is its own (`AssertInLoop`, `AssertAlso`). `~TcpServer` may be called in a
task of the main loop, or anywhere else, when it aborts: in another thread, or in the
main thread after `loop()` has returned, as at the end of the example programs.
`start()` listens at once in the loop thread and queues `listen()` elsewhere; `starts`
counts its calls. Bytes are counted, not stored, so what `makeSpace` does to them in
`output_` makes no difference here; `write` may take any part or fail. Peers send,
close or reset. The loops run as long as anything happens: a task that asserts its
thread after `quit()` is the subject of `EventLoop` (`AbortOnlyAfterQuit`). Not
modelled: `~TcpServer` inside a callback of a connection.

### Buffer
`b` is the record of size, chars and the two indices; `Minus` and `Plus` wrap
like `size_t`. An assertion about the caller (`retrieve`, `prepend`,
`hasWritten`) is a guard; one about Buffer's own work sets `failed`. `use` is
chosen at the start and never changes: the user takes the data `whole`, or in
`parts` too, or does `all`, with `prepend` and `shrink`; each property names the
users it is about.
`std::copy` onto an overlapping range is taken as the memmove it is for chars.

### Logger
A message is two bytes, so that a short write can end inside one. `fd` numbers
the files. The condition variable is modelled with its timeout. The level test
is passed by all messages. `due` is how much had been logged when `~Logger` was
called.

### HttpRequest and HttpServer
The input is a sequence of symbols: CR, LF, and texts, each standing for what is
on a line. A text is a record of what the parser finds in it: its words (each a
supported method, a URL with a path and the resource it names, a supported version,
or none of these), the header field and its value. The request line is what the
code's `stringstream` makes of it: the first three words, whatever white space, CR or
LF stands before or between them; the URL is kept even if only the version is bad. A
text ends in white space, so words of neighbouring texts stay apart (after a move of
the buffer too), unless it ends in the colon of a header. `tryDecode` has one action
per round of its loop; `ret` is `decoding` until it returns. `substr` past the end of
a header line, or `stoi` of something that is no number, is `exception`, which ends
the process. The reference definition, `Reference`, says of the whole input what a
request is, without states, by positions: a line goes from behind one CRLF to the
next one, the headers are the lines before the first empty one, and the request is
whole when as many symbols follow as the last Content-length announces.

The input buffer is the vector of `Buffer`, with its indices: `taken` lies between
`kCheapPrepend` and `readerIndex_`, `buf` is readable, `capacity` is its size.
`ReadFd` fills what is writable and appends the rest: it grows the vector, or, if
enough of it was taken, moves it as `makeSpace` does, from `begin()` instead of
`beginRead()` (buffer.cpp:145). Then the readable bytes are wrong (`moved`), NULs of
the prepend area first, the parser goes on with them, and since the copy ends behind
the vector the process may abort (`Abort`). Of the output buffer it is only known
whether part of it has been written (`partly`); an append may then move it too, and
what was in it is `Garbled`.

`HttpServer` has the connection's loop around it: poll, read, write, tasks
(`pc`). A resource is a record of the status `handleRequest` finds and the
file's size in units of which `Chunk` make one buffer; `wire`, `output` and `file`
are sequences of such units, so that order and completeness can be compared with
`Response`. `open` counts descriptors. The file does not change while it is
served, and it is still there when `loadResponse` opens it.

## 3. Runs

Passing runs:

| Run | Checks | Bounds |
|---|---|---|
| event_loop | `TypeOK`, `NoLostWakeup`, `AbortOnlyAfterQuit`, refinement `ImplementsExecutor`, `QueuedTaskRuns`, `QuitReturns`, `TimeoutEndsLoop` | 2 threads that loop, call, quit and restart; 3 tasks, 1 I/O channel |
| event_loops | `Balanced`, `ReturnedMeansStopped`, `GivenIsEstablished`, `PoolQuitReturns` | 2 sub-loops and the base, 2 connections each: `next_` wraps; `quit()` at any time |
| epoll_poller | `CtlNeverFails`, `MirrorsKernel` (with `TypeOK`), refinement `ImplementsPoller` | 3 channels, event list doubling from 1 to 4 |
| poll_poller | `PlacesAgree` (with `TypeOK` and the assertions on its own data), refinement `ImplementsPoller` | 3 descriptors: first, middle and last entry removed |
| timer_queue | `ArmedForEarliest`, `FiresWhenDue`, `CancelIsFinal`, `TimerFires` | 2 timers, delays 0-2, interval 1, 3 time units plus slack in which the loop sleeps |
| buffer | `StaysIntact`, `IndicesInside` (with `TypeOK`), `IndicesOrdered`, refinement `ImplementsByteQueue` | prepend area 2, initial size 3, up to 8 bytes, 2 byte values, the three kinds of user |
| tcp_server | `NoDangling`, `AssertionsHold`, `RegisteredIsAlive`, `CallbacksPaired`, `FlushedBeforeClose`, `PeerCloseReleases` | 1 connection, main loop and one sub-loop, 2 calls in callbacks or from other threads, pointers kept and dropped, closes and resets, server started twice and destroyed at any time; the socket takes what is written |
| logger | `NothingLost`, `InOneFile`, `MessageIsWritten`, `DtorReturns` | 3 messages of two bytes, 3 files |
| http_server | `DecodesLikeWhole`, `WholeResponse`, `ClosedMeansAnswered`, `NoFileForgotten`, `RequestAnswered` | 23 inputs of up to 13 symbols, cut into reads anywhere; `kCheapPrepend` 1, `kInitialSize` 6; files of 0, 1 and 5 units with `Chunk` 2; the client closes or resets at any time |

Why the bounds are enough: the hazards are about orders of a few steps of two
actors. Two threads and three tasks give every interleaving of push, wakeup,
read, swap and quit with a task queued before, during and after a batch; one
connection is enough for `TcpServer`, because pointers, batches and the map keep
connections apart (nothing a connection does reads another one's state), while
two calls give every order of sending, half-closing and closing against the
peer's and the server's end (the theorems say the same of any number, and of partial
writes); two timers for one callback to cancel the other; three channels for a
swap that moves a third one. Queue lengths follow from the number of tasks and
calls and are not cut. The HTTP inputs have every resource, header lines in
both orders, content, malformed and unfinished requests, stray line feeds, and a
second request behind the first, and a buffer of 6 symbols is filled, grown and moved
by them; 5 units with chunks of 2 give a first buffer, a
full and a partial `sendfile`. Deadlock checking is off only for `TimerQueue` (time is
bounded), and for `Logger` and the pollers (the process ends).

Runs that show a disagreement between the code and its comments (details under
"findings"):

| Run | Property violated | What happens |
|---|---|---|
| buffer_order | `AlwaysByteQueue` | after a partial `retrieve`, `makeSpace` moves from `begin()` instead of `beginRead()` |
| tcp_server_threads | `ThreadSafe` | the task of a `send()` from another thread outlives the connection |
| logger_dtor | `DtorFlushes` | a message logged before `~Logger` is still in `msg_` when it returns |

### Known limits of the code that the models contain
The passing properties are stated so that they exclude the following, which the
models do; a different value of a constant shows each of them as a
counterexample.

- EventLoop: a task that asserts its thread and runs after `quit()` aborts the
  process (`AbortOnlyAfterQuit` says "only after", not "never"). With
  `JoinFirst = FALSE`, the `quit(); loop();` of test2 lets two threads into
  `loop()`. `quit()` inside a task does not write the eventfd, so the loop sleeps
  until `kPollTimeMs` unless something else wakes it: `TimeoutEndsLoop` shows that
  the timeout is enough, and only it is assumed there.
- EventLoops: a `quit()` that comes before a sub-loop's thread has executed
  `stoplooping_ = false` is lost and the join never ends (`quit = "early"`).
- TimerQueue: `cancel()` in the loop thread overtakes the queued `addTimer` of the
  same timer, which then fires once (`CancelIsFinal` names the case).
- Buffer: `shrink` keeps the old indices and fails its assertion after a partial
  `retrieve`; after `prepend`, `prependableBytes() - kCheapPrepend` in `makeSpace`
  wraps (`Uses = {"all"}` and `~failed` as an invariant).
- TcpServer: a second `start()` before the first `listen()` has run fails
  `addChannel`'s assertion; `shutdown()` on a connection the peer has reset fails
  `shutdownWrite`'s; `~TcpServer` with a half-closed connection fails the poller's;
  and outside its loop it aborts (`AssertionsHold` names these four, each with the
  state it happens in). After `~TcpServer`, a `close()` in the disconnect callback of
  a connection outlives it (`NoDangling` names this), and a connection that was
  closing on a sub-loop, or a queued `listen()`, uses the server (`dangling =
  "server"`). `closeInNextLoop()` in the disconnect callback runs its second task on a
  destroyed connection; `shutdown()` with output pending never sends the FIN.
- Logger: with `SwitchLate = TRUE` a short write continues in the new file.
- HTTP: a request longer than the buffer is corrupted when it arrives in several
  reads and the bytes of its first lines make enough room for what does not fit
  (`DecodesLikeWhole` and `RequestAnswered` are about inputs that were not moved);
  after a malformed request line every further line is answered with
  another 400, and an answer that was partly written may be moved; a line feed without CR is an error or not depending on what is
  read with it; `sendfile()` failing cuts the response short; a request decoded
  between `close()` and `closeInLoop()` may open a file that is not closed, and so
  does a client that ends the connection while a file is being sent; a header
  line that ends at the colon, or a Content-length that is no number, throws.

### Fairness
- EventLoop: weak fairness of each thread's steps inside `loop()` and inside a
  call (threads are scheduled); strong fairness of a callback's return, since a
  callback may make calls, each of which disables the return for a while, but is
  assumed not to run for ever. epoll_wait must return when the eventfd is ready
  (`PollWake` is part of the loop's steps); I/O and timeouts are not assumed.
  Nobody has to call anything.
- EventLoops: every thread runs on and a `quit()` that began goes on.
- TimerQueue: time passes, the loop thread runs.
- TcpServer: loops run, callbacks return, and a destructor that began goes on.
  Nobody has to call, close or destroy anything.
- Logger: the background thread runs, its wait times out after `FLUSH_INTERVAL`,
  and write(2) takes something in the end (a disk that stays full is not
  covered); a destructor that joins keeps joining.
- HttpServer: weak fairness of the loop; strong fairness of a poll that reports a
  socket writable, that is, the client goes on reading what it is sent. The client
  need not send anything more.

## 4. Proofs

Assumptions are the named `ASSUME`s of the component modules (sets are subsets,
special values differ, the set of timers is finite, sizes are naturals and too
small for `size_t` to wrap on their sums), and those stated in the theorems. Every
theorem holds for all values of the constants. A theorem and the run that checks
the same property name the same definition.

**EventLoopProofs** (if `JoinFirst`; any threads, tasks, channels)
- `TypeCorrect`, `WakeupNeverLost` (`NoLostWakeup`), `AbortsNeedQuit`
  (`AbortOnlyAfterQuit`). `NoLostWakeup` is not inductive. `IInv` adds: at most
  one looper, whose id `tid_` is; the flag is down only while somebody is between
  `stoplooping_ = false` and the end of the while; callbacks run only in a batch
  or among the events; a call that pushes or executes carries a task; and
  `RegistrationFirst` - until the wakeup channel is registered, `RegTask` is the
  first thing in the queue or in the batch, so no poll happens before it. The
  heart of the step proof: only the single looper swaps or polls; a push leaves a
  thread with `op = "wakeup"`, and the counter is cleared only in `events`, from
  where the queue is swapped before the next poll.
- `EventLoopImplementsExecutor` (`ImplementsExecutor`). The abstract queue is the
  looper's batch followed by `pendingTasks_`. `ExecInv` adds that only the looper
  inside `doPendingTasks` has a batch, so that the swap is a stutter, and that a
  task is at one place: inside one call, or handed over. `StepKinds` sorts the
  steps into those that leave the tasks alone and six others.

**EventLoopProofs, the pool** (any `N`; the definitions of `EventLoops` whose names
`EventLoop` has too begin with `Pool`: `PoolSpec`, `PoolNext`)
- `AllocationBalanced` (`Balanced`). The inductive form is `RoundRobin`: loops
  before `next_` are one ahead of the last loop, the others level with it.
- `LoopReturnsLast` (`ReturnedMeansStopped`). `LifeInv`: a loop leaves only with
  its flag set, which nobody takes back from a loop that has left; and the main
  thread passes the base loop first, then one joined thread after the other.

**EPollPollerProofs, PollPollerProofs** (any channels, any size of the list)
- `KernelMirrored` (`MirrorsKernel`) and `EpollCtlNeverFails` (`CtlNeverFails`),
  proved together: a failed epoll_ctl would leave map and kernel out of step, and
  a map out of step would choose an epoll_ctl that fails.
- `PlacesAlwaysAgree` (`PlacesAgree`), whatever callers do. The case that matters is the removal that swaps the last entry into the hole:
  `Describes` restates the agreement for any map and array, with the descriptor
  recovered from a shown or hidden entry. `ShownHasEvents` is added for the
  refinement.
- `EPollImplementsPoller`, `PollImplementsPoller` (`ImplementsPoller`).

**TimerQueueProofs** (any finite set of timers, any delays and intervals)
- `TimerfdNeverOversleeps` (`ArmedForEarliest`), `NoCallbackTooEarly`
  (`FiresWhenDue`), `CancelledTimersStay` (`CancelIsFinal`), the last two action
  properties. The invariant: `ArmedForAll` (the timerfd against every timer in
  place of the earliest, which a removal can change), `OnePlace` (a timer is
  queued, in `timers_` or in the running batch, and in one of them once),
  `OnlyCreated`, `BatchIsDue`, and `CancelInv`, which says for each way a cancel
  can meet a timer where the timer still may be. Finiteness gives the earliest
  timer.

**TcpServerProofs** (any number of connections and loops, any user and peer)
- `AssertionsNeverFail` (`AssertionsHold`), `PollerPointersLive`
  (`RegisteredIsAlive`), `CallbacksComeInPairs` (`CallbacksPaired`). `LifeInv`
  says which of a connection's once-only tasks (`connectEstablished`,
  `removeConnectionInLoop`, `connectDestroyed`) are queued, in which loop, and
  that this decides its stage: arriving, open, closing, being removed from the map,
  being destroyed, destroyed. `Where` puts each of these tasks in its loop, `Once`
  says there is one at most, `Stage` relates them to `state_`, the poller's entry,
  the map and the counters, and `Leaving` to the callback that is running.
  `ListenInv` accounts for the `listen` tasks by `starts`, so that the acceptor's
  channel is added twice only after a second `start()`.
  `InTurn` says that within one queue or batch a once-only task of a connection
  occurs once, and `connectEstablished` never behind `connectDestroyed`. An action
  on one connection leaves the others' part alone (`Unmoved`), which keeps the
  proof linear in the number of actions.
- `QueuedPointersLive` (`NoDangling`), for any user. `CoverInv`: of a connection that
  has not `escaped`, a bare `this` in a queue is covered by the map, or
  by a `connectDestroyed` that is queued behind it; and a `writeComplete` is only
  queued while its connection is open, during the events, after the read event,
  so it never keeps company with that last task. Of a connection whose pointer was
  kept, or that is closed by `closeInNextLoop`, it is false: `tcp_server_threads`
  shows the first.
- `ClosesAfterFlush` (`FlushedBeforeClose`), on sockets that take what is written
  (`Drain`, as in the run), with pointers kept, calls from any thread, resets and
  `~TcpServer` at any time. A `queueClose` may have any number of sends of other
  threads in front of it, in the batch and in the queue; instead of their sum,
  `Flow` states that a running total along the tasks exists, from one value to
  another, that has reached the number of each `queueClose` where it stands.
  `ByteInv`: for a connection that is up and not reset, the total goes from
  `written + output` through the batch and the queue to `asked`; a `closeInLoop` in
  the queue waits for no more than that `written + output`, and for no more than
  `written` once the write event of this poll has been handled or was not needed;
  one in the batch, for no more than `written`. That poll reports the connection
  needs bytes in `output_` to imply the write event and the write event a
  registered channel, which `LifeInv` has. A connection the user has not been shown
  has nothing asked or queued (`Fresh`), so the total starts at 0.

**BufferProofs** (all sizes and lengths)
- `IndicesAlwaysOrdered` (`IndicesOrdered`) and `MakeSpaceMakesSpace`
  (`StaysIntact`). `IdxInv`, for users without `prepend` and `shrink`, needs that
  the vector's cells cover `0..size-1` and that no size reaches `SizeMax`, so that
  no difference wraps; the lemmas follow the three branches of `makeSpace`.
  `WholeInv` adds that `readerIndex_` of a buffer whose data is always taken whole
  stays at `kCheapPrepend`: then "movable" and "enough" are the same test, the
  faulty move is never reached, and no copy leaves the vector.
- `BufferImplementsByteQueue` (`ImplementsByteQueue`): with `WholeInv`, every
  operation of such a user is a step of the queue, the two-part `readFd` included.
- `IndicesStayInside` (`IndicesInside`): with `prepend` and `shrink`. `InsideInv`
  adds that the vector is never smaller than `kCheapPrepend`. Where the test of
  `makeSpace` wraps and the data is moved although there is no room, the copy
  leaves the vector; where `shrink` leaves `writerIndex_` behind the end, the
  difference it asserts about wraps to something larger than any length.

**LoggerProofs** (any messages, any `FLUSH_SIZE`, any number of files)
- `LogLosesNothing` (`NothingLost`): the log, the rest of the swapped-out buffer
  and `msg_` are always what was appended. Inductive once `local` is empty outside
  the write.
- `MessageInOneFile` (`InOneFile`), if not `SwitchLate` (with it the property is
  false). `FileInv` counts in messages of two bytes: the log is a prefix of whole
  messages, and an unfinished one is in the file that is open.

**HttpServerProofs** (any texts, any inputs cut into reads anywhere, any file sizes,
any sizes of the buffer, any `Chunk`, a client that closes or resets at any time)
- `ResponseWhole` (`WholeResponse`), `ClosedIsAnswered` (`ClosedMeansAnswered`),
  `FilesClosed` (`NoFileForgotten`). The inductive invariant is `RespInv`. `LoopOK`:
  the queue holds at most one task, and `writeComplete` runs with nothing left to
  write. `FileOK`: an open file belongs to a request that is answered and not yet
  cleared, so `loadFile` never finds one. `AnswerOK`: before the first answer
  nothing has been written (`NotYet`); while it is being sent, wire, output and file
  make it up (`InProgress`); from the `close()` on, it is on the wire (`Done`). The
  case that needs care is a request decoded between `close()` and `closeInLoop()`:
  its answer goes into the output buffer, but the poll came before the write event
  was asked for, so nothing of it is written.
- `DecodingIsWhole` (`DecodesLikeWhole`). `ParseInv` says, with `s` for what has been
  received: until there is an answer, the buffer is `s` from some position on
  (`Rest`), and the lines before that position are parsed (`Parsed`): the first one
  starts a request, none of the others is empty or throws, and `contentLength_` is
  what the last Content-length among them says. The proof has three parts:
  `NextLine` (the next line of the rest is a line of the whole), `ExtendParsed` and
  `ExtendReference` (what was parsed, and what the reference definition found, stays
  true of any longer input; a line before a CRLF does not change when more
  arrives), and `WholeHeaders` (at the empty line, the reference definition agrees
  with the parser on the content). Since lines are positions in the input, no
  induction over it is needed: the step from one round of `tryDecode` to the next
  takes its place. Without lone line feeds, `LINE_BAD` is never returned (`NotBad`).
  All this holds until the input is moved (`Unmoved`); `SpaceInv` adds that the vector
  never gets smaller than `kInitialSize` and that what was taken and what is readable
  are no more than what was received, so that nothing spills, and hence nothing is
  moved, before more than `kInitialSize` bytes have come.

Only model-checked, and why:
- the liveness properties: fairness and ENABLED are out of the prover's reach.

## 5. Not modelled

Descriptor numbers and their reuse (the channel `~Acceptor` leaves in the poller);
`Buffer::swap` (never called); error and close callbacks of `Channel` (never set);
log levels and formatting, a log message longer than its buffer; the layout of
HTTP headers (each line is padded to 2048 bytes) and `Content-Type` (never added);
a file that changes or disappears between `stat` and `open` or while it is sent;
net and util (system call wrappers); blocking of accepted sockets, which are not
set non-blocking; a system clock that is set while timers run; `~TcpServer` inside a
callback.

## 6. Plan

Done: the modules above, in the order EventLoop, EventLoops, Buffer, TimerQueue,
TcpServer, pollers, Logger, HttpRequest and HttpServer; then the proofs of section
4, every safety property of every passing run.

Next: descriptor numbers in the pollers together with `Acceptor` and
`~TcpConnection`: when a closed descriptor's number is reused.
