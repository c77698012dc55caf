# tinymuduo in TLA+

tinymuduo rebuilds the muduo network library in stages, one directory under
`src/src/` per lesson.  This project specifies the last stage,
`src/src/37~38_TcpConnWithBuf/muduo`, which contains the earlier ones, and the
client, the thread pool with a bounded queue and the asynchronous logger, which
the repository has in its annotated copy `src/comments/muduo`.  File names below
are relative to the first directory, or to the second when marked (c).  The
build defaults to Debug, so an `assert` that fails aborts the program; the
models treat it so.

## 1. The system and its parts

| part | state | operations | modules |
|---|---|---|---|
| `EventLoop` | `quit_`, `callingPendingFunctors_`, `activeChannels_`, `pendingFunctors_`, the eventfd | `loop`, `quit`, `runInLoop`, `queueInLoop`, `wakeup`, `handleRead`, `doPendingFunctors` | `EventLoop`, `FunctorQueue` |
| `EventLoopThread` | `loop_`, `thread_` | `startLoop`, `threadFunc`, destructor | `EventLoopThread` |
| `Channel`, `PollPoller`, `EPollPoller` | `events_`, `index_`; `pollfds_`, `events_`, `channels_`, the kernel's set | `enable*`, `disable*`, `remove`, `poll`, `updateChannel`, `removeChannel` | `Channel`, `PollPoller`, `EPollPoller`, `Poller`, `Pollers` |
| `TimerQueue` | `timers_`, `activeTimers_`, `cancelingTimers_`, the timerfd | `addTimer`, `cancel`, `handleRead` | `TimerQueue` |
| `Buffer` | `buffer_`, `readerIndex_`, `writerIndex_` | `append`, `prepend`, `retrieve`, `shrink`, `readFd` | `Buffer` |
| `TcpConnection` | `state_`, channel, `outputBuffer_` | `send`, `shutdown`, `connectEstablished`, `connectDestroyed`, the handlers | `TcpConnection` |
| `TcpServer`, `Acceptor`, `EventLoopThreadPool` | `connections_`, `started_`; `idleFd_`; `next_` | `start`, `newConnection`, `removeConnection`, destructors; `handleRead`; `getNextLoop` | `TcpServer`, `Acceptor` |
| `TcpClient`, `Connector` (c) | `connect_`, `connection_`; `state_`, `channel_`, `retryDelayMs_` | `connect`, `disconnect`, `stop`, destructor; `start`, `restart`, `stop`, `handleWrite`, `handleError`, `retry` | `TcpClient`, `Connector` |
| `ThreadPool` (c) | `queue_`, `running_` | `run`, `take`, `stop` | `ThreadPool` |
| `AsyncLogging`, `LogFile` (c) | the four kinds of buffers; `count_`, `lastRoll_`, `startOfPeriod_`, `lastFlush_` | `append`, `start`, `stop`, `threadFunc`; `append`, `rollFile`, `flush` | `AsyncLogging`, `LogFile` |

What makes it hard: functors and wakeups cross threads without a lock around
both; plain flags are written by one thread and read by another; the death of a
connection needs three functors in two loops, each of which keeps it alive (or,
where it is bound to the raw `this`, does not); the kernel takes part of a
write, reports some of the ready descriptors, or has no descriptor left; a
destructor of one thread waits for another thread.  `PROJECT.json` lists these
hazards at their lines.

How the parts meet: `EventLoop` implements `FunctorQueue`, and the modules that
run in a loop (`TimerQueue`, `TcpConnection`, `TcpServer`, `TcpClient`) use that
promise, a FIFO of functors, instead of eventfds and wakeups.  In the same way
`Pollers` shows what `poll()` reports, and the modules above it have a step that
reports events.  `EventLoopThread` extends `EventLoop`, `TcpServer` extends
`Acceptor`, `TcpClient` extends `Connector`, `AsyncLogging` extends `LogFile`,
and `Pollers` extends both pollers, which extend `Channel`.

## 2. Modules

A critical section, a system call and a store to a shared flag are one step
each, unless nothing can come between them.  Variables that are marked history
record what happened for the properties and never guard a step of the code.

**`FunctorQueue`** is the promise to the callers of `runInLoop` and
`queueInLoop`: a FIFO of functors that run one at a time; a call in the loop
thread may run at once.

**`EventLoop`**: `pc` is the place in `loop()`; `waking` holds the threads that
have pushed a functor (or stored `quit_`) and have not yet called `wakeup()`;
the eventfd's counter is reduced to whether it is zero.  A functor is the pair
of its thread and its number, so that `ran` shows loss, repetition and order.
`EarlyQueue` says whether the loop thread also queues before `loop()`.

**`EventLoopThread`** adds the owner's `startLoop` (with a wait that may end
without a signal), `threadFunc` and the destructor (`quit`, `join`).  Once
`threadFunc` has returned, any use of the loop sets `dangling`.  Other threads may
still use the loop while the destructor is in `quit()` or `join()`.  The destructor
of an object that was never started calls `quit()` on a null `loop_` and ends the
program (`destroyUnstarted`).

**`Channel`, `PollPoller`, `EPollPoller`, `Pollers`**: `Pollers` passes every
update and removal of a channel to both pollers in step, as if the program ran
once with `MUDUO_USE_POLL` and once without.  The entries of `pollfds_` keep
their negated descriptors; `epollSet` is the kernel's list; `epoll_wait` reports
any `eventListSize` of the ready descriptors that are listed with events, and all
of them when they fit.  A failed `assert` or a refused `epoll_ctl` is a fault,
named after the function: it ends that one of the two programs and the other goes
on.  The history variable `unused` has the channels that were added without
events and not updated since.  A ready descriptor is ready for all events; the
errors and hang-ups that the kernel reports unasked are not modelled here.
**`Poller`** is what the abstract class promises to `EventLoop`.

**`TimerQueue`**: timers live at addresses the allocator reuses; a deleted
timer's sequence number is any number.  `handleRead` is one step per callback,
so that callbacks can add and cancel.

**`Buffer`**: `bytes` is the vector, byte by byte, with the two indices;
`resize` fills with zeros.  `content` is the history of what was put
in and not taken out.

**`TcpConnection`**: one connection of a server with a pool, from the moment
`newConnection` has queued `connectEstablished`.  User threads call `send` and
`shutdown`, where the read of `state_`, its write and the queueing are separate
steps.  Bytes are numbered when `sendInLoop` takes them.  `Alive` says whether
some `TcpConnectionPtr` is left; functors bound to the raw `this` do not count.

**`Acceptor`, `TcpServer`**: several connections on several loops.  A connection
is its `state_` and its loop; each loop is its queue of functors.  An `accept()`
may find that its client is gone (`acceptAborted`); errors that `sockets::accept`
calls unexpected end the process and are left out.  The four
system calls of the `EMFILE` branch are four steps, with other code of the
process opening and closing descriptors in between.  `~TcpServer()` destroys the
connections, then ends the loops one by one (a loop may end before it has run
its queue), then the acceptor; a server that was never started has no loops to end.
`shutdown` is called in the connection's loop only; from another thread its test and
its store are two steps, which `TcpConnection` has.  A thread of the pool is in
`loop()` when it is stopped, so its join returns; the `quit()` that `loop()` forgets
is `EventLoopThread`'s.

**`Connector`, `TcpClient`**: `retry_` is set.  An iteration of the loop handles
what one `poll()` reported and then the functors queued up to then.  `connect`,
`disconnect` and `stop` are called in another thread, where the flag and the
functor are two steps, and in callbacks; the test of `connect_` at the end of
`removeConnection` and `restart()` are two steps.  Narrower than the code:
`connect` is called once (again after `stop()` or `disconnect()` it may find the
connector not disconnected, against the assertion of `Connector.cc:53`); the test
and the store of `shutdown()` in `disconnect` are one step; and the client is
destroyed in a functor of its loop, with no functor of the connector pending,
while `tests/TcpClient_reg3.cc` destroys it in another thread and
`TcpClient.cc:92` has a FIXME about it.  A new attempt needs a free
descriptor: without one `createNonblockingOrDie` ends the process.

**`ThreadPool`**: one thread starts the pool, runs tasks, the last of which
counts a latch down, waits for the latch and stops the pool, as
`tests/ThreadPool_test.cc` does; other threads call `run` too.  A thread waits
on a condition until it is notified; a wait may also end by itself.

**`LogFile`, `AsyncLogging`**: a buffer is the sequence of its lines; the
buffers that come and go (`newBuffer1`, `newBuffer2`, `nextBuffer_`) are only
there or not.  A file is its name, which is the second it was made in, and its
lines; `unflushed` counts those that only stdio has.  Lines are numbered as they
are appended; `LinesKept` looks at the stream of the files, the buffers being
written, the full buffers and the current one: the numbers increase along it, and
they are all those appended except the dropped ones.

The `MC` modules name the instances for TLC.  The proofs of a component `M` are
in `MProofs` (`EventLoop` with `EventLoopThread`, `Pollers`, `TimerQueue`,
`TcpConnection`, `TcpServer`, `TcpClient` with `Connector`, `AsyncLogging` with
`LogFile`), those of `Buffer` and `ThreadPool` in `BaseProofs`.

## 3. Runs

| run | shows |
|---|---|
| `EventLoop` | no functor and no `quit()` is slept on (`NoLostWakeup`, `NoLostQuit`); the loop refines `FunctorQueue`; every queued functor runs without the poll timeout's help |
| `EventLoopThread` | `startLoop` returns, with a loop that is set up; a `quit()` that finds the loop looping ends the join |
| `Pollers` | entries, channels and indices name each other after any swap; an assertion fails only when `PollPoller` removes a channel that was added without events and never updated; `EPollPoller` refines `Poller`; a ready channel is not starved by a small `events_` |
| `PollPollerReenable` | violation, see section 6 |
| `TimerQueue` | the two sets of timers agree and with the heap; a cancelled timer never runs again; every timer runs |
| `Buffer` | content, room for a header, bounded size |
| `TcpConnection` | bytes once and in order, interest in `POLLOUT` exactly while bytes wait, callbacks queued, FIN after the buffer, UP once then DOWN once, nothing watched is dead; closes and shutdowns complete |
| `TcpConnectionSend` | violation, see section 6 |
| `TcpServer` | the map against the connections and the queued functors of all loops; round robin; clients accepted or turned away; every connection ends, unless the process does (section 5) |
| `TcpClient` | one attempt at a time, no socket leaked or closed twice, no connection after `stop()`, reconnection |
| `ThreadPool` | tasks in order, queue bounded; `stop()` and `run()` return |
| `AsyncLogging` | no line lost, repeated or overtaken; lines reach the disk; `stop()` returns; files have distinct names and are rolled when full |

**Bounds.**  Two calling threads besides the loop thread, with two calls each,
give every order of two pushes, two wakeups and a swap.  With three
descriptors the removed entry, the one swapped into its place and an untouched
one are distinct; `events_` starts with one slot and so must grow twice.
Two timers at two addresses suffice for a reused address and for a batch in
which one timer cancels the other; the clock has three ticks and the timerfd may
be one tick early.  The buffer is 4 bytes, over two values, so that moving,
growing and the detour over `extrabuf` all occur at their exact limits.  Messages
of one and two bytes, two bytes altogether, with a mark of 1 give partial
writes and marks that are met, jumped over and already passed; with two user
threads one's `shutdown()` can overwrite `state_` while the other's `send()` is
queued.  Three clients, three descriptors and one foreign one exhaust the
descriptors; 0 and 2 threads are the two branches of `getNextLoop`.  Three
descriptors for the client are one that connects, one that is up and one that is
being destroyed.  One slot, two workers and two producers fill and drain the
pool's queue.  One line per buffer and at most three buffers make every line
change buffers and drop; a roll size of 1 and a period of 2 within three seconds
give rolls by size and by time.

`CHECK_DEADLOCK FALSE` is in the runs whose system may stop: everything is
stopped and joined (`ThreadPool`, `AsyncLogging`), the server or the client is
destroyed, or an assertion has ended the program.

**Fairness.**  Threads are scheduled and a user's callback returns: weak fairness
of each thread's steps.  Nothing makes a user call anything.  Beyond that:
`EventLoop` gives no fairness to a `poll()` that ends for another reason than
its eventfd, so that nothing depends on the 10 second timeout or other traffic.
`TcpConnection`: a peer that stays connected reads, so a channel that waits for
`POLLOUT` gets it again and again.  `TcpServer` and `TimerQueue`: an iteration
of `loop()` runs the queued functors after the events, so neither starves the
other (strong fairness of the functors).  `Pollers`: the loop polls again and
again; which of the ready descriptors the kernel prefers is left open.
`TcpClient`: `poll()` reports what stays ready, and a server tried again and
again accepts in the end.  `ThreadPool`: a wait that ends by itself is not fair.
`AsyncLogging`: the timed wait ends.

## 4. Proofs

For every value of the constants, from the named assumptions of the modules:

* `EventLoopProofs` (any threads, channels, number of calls): `TypeCorrect` and
  `ControlCorrect` (`ControlInv`: `callingPendingFunctors_` and the batch belong
  to their places in `loop()`) first.  `WakeupNotLost` proves `NoLostWakeup`.
  That is not inductive: it speaks of a loop about to sleep, while the functor
  may have been queued long before.  `WakeupInv` says at every place except
  between `poll()` and the swap that a pending functor has its wakeup written or
  on its way; there no wakeup is needed, since the swap is still to come.  It
  needs `~EarlyQueue`.  `QuitNotLost` is inductive with the type invariant.
  `LoopImplementsQueue` maps `waiting` to the batch followed by
  `pendingFunctors_`: pushing appends, the swap is a stutter since the batch is
  empty by `ControlInv`, calling a functor takes the head.  `ThreadRunsLoop`
  shows that all an `EventLoopThread`, its owner and its users do to the loop are
  steps of `EventLoop`, or calls after `threadFunc` has returned, so the step
  lemmas apply again: `ThreadQuitNotLost` proves `NoLostQuit` there, together with
  `QuitHolds`, which is about steps: while the loop is looping, a `quit_` that is
  set stays set and no step goes back to `poll()`, until `loop()` returns.  Both
  say nothing of a `quit()` before `loop()`, which line 93 clears.
  `StartLoopIsReady` proves
  `StartedLoopIsPublished` from `HandoverInv`, which orders the places of the
  owner and of the thread.
* `BaseProofs`, the buffer (any alphabet, initial and prepend size, size of `extrabuf`,
  bounds): `IInv` joins the order of the indices with the three properties and
  with the range of `prepended`; one lemma per operation of the class, over
  lemmas on what `resize` and `copy` do to the readable part.  `BufferContent`,
  `BufferHeader`, `BufferSize` and `BufferIndices` (no assertion fails) follow.
* `PollersProofs` (any finite set of descriptors, any size of `events_`):
  `PollInv` adds to `PollIndexed` that the entry of a channel without events is
  the ignored form unless the channel is in `unused`, which decides the assertion
  of `removeChannel`; `EPollInv` says that the kernel's list is that of the
  channels whose index is `kAdded`, with their events.  `PollEntriesIndexed`,
  `UnusedChannelAborts` and `EPollRefinesPoller` follow, the last with a step per
  action.  `UnusedChannelAborts` says that `EPollPoller` never aborts and that
  `PollPoller` does for exactly the channels in `unused`, in `removeChannel`.
* `TcpConnectionProofs` (any user threads, lengths of messages and mark):
  `StreamIntact`, `PollOutIffBuffered` and `CallbacksQueued` are inductive
  together with the types and with the lengths that queued functors carry, since
  a direct write is right only if the buffer is empty whenever the channel does
  not wait for `POLLOUT`.  `StreamKept`, `PollOutFollowsBuffer` and
  `CallbacksFollowBuffer` follow, and `FinFollowsBuffer` from the second of them:
  both places that shut the write side down test the channel.
  `WatchedStaysAlive` and `DownStaysFinal` prove `WatchedIsAlive` and
  `DownIsFinal`.  Neither is inductive: what keeps a connection alive and quiet is
  where it is in its life.  `LifeInv` says that it is `Coming` (the functor of
  `connectEstablished` is all there is), `Up` (the map holds it and neither
  `connectEstablished` nor `connectDestroyed` is queued) or `Down` (the channel
  takes no events, and the map, `removeConnectionInLoop` or `connectDestroyed`
  still holds what the Poller knows), or `revived`; a lemma for each of the three
  shows where a step leads from it.
* `TimerQueueProofs` (any number of timers, addresses, times and threads):
  `TimersOwnedOnce` proves `SetsAgree` and `CancelledStaysAway` proves
  `NeverComesBack`, over one inductive invariant.  `OwnInv` adds to `SetsAgree`
  that a queued functor and a place in the batch name a Timer once; `FreshInv`
  that a sequence number belongs to one Timer although addresses are reused, so
  that what was cancelled is not confused with what came later; `PastInv` that
  `cancelingTimers_` has every timer that was cancelled while the batch is called,
  which is what `reset()` asks.
* `TcpServerProofs` (any clients, thread numbers and descriptors):
  `MapMatchesConnections` proves `ConnectionsMatch`.  That is not inductive: it
  does not say which functor runs next on a connection.  `MatchInv` says for each
  kind of queued functor what state its connection has and that the functor is
  queued once, in the right loop, and conversely which functor a connection in a
  given state has; `MadeInv` that a new connection is not in any queue;
  `BacklogInv` what the acceptor's place says of the backlog.  `PoolInTurn`
  proves `RoundRobin` from `TurnInv`: the loops before `next_` have one
  connection more than those from `next_` on.
* `TcpClientProofs` (any descriptors and delays): `OneAttemptAtATime`,
  `SocketsStayOwned` and `StopStaysFinal` prove the three invariants together,
  since each needs the others.  `AttemptInv` counts the attempts, the functors that
  another thread has yet to post included, and says that one which has not opened
  its socket finds the connector disconnected.  `ResetInv` and `ActiveInv` are
  about the order in an iteration: exactly one `resetChannel` is queued for a
  channel that is done with, and it runs before a retry timer or a close that
  `poll()` reports can start the next attempt, unless `restart()` has overtaken a
  `stop()`.  `ConnInv` says that `connection_` is the only connection that would
  tell the client and that `connectDestroyed` is queued once for each closed one,
  so that no descriptor is closed after its reuse.  `StopInv` says who may still
  want a connection after a stop.  Every attempt goes through one lemma
  (`TriedInv`), every end of one through another (`EndedInv`), every close of a
  connection through a third (`CloseInv`).
* `BaseProofs`, the thread pool (any workers, callers, tasks and size of the queue):
  `TasksTakenInOrder` proves `TasksInOrder`.  That `stop()` returns with every
  task run needs `FateInv` (a task of the main thread is about to be queued,
  queued, with a worker, or finished) and `LatchInv`: the latch's task is the
  last of its thread also in the queue, so once a worker has it no task of that
  thread is queued, and the workers that are joined have none either.
* `AsyncLoggingProofs` (any sizes of buffers and files, intervals, number
  of buffers kept, at least two, and number of lines): `LogLinesKept` proves
  `LinesKept` and `LogFilesRoll` proves `FilesRoll`.  `LineInv` is `LinesKept` part
  by part of the stream, so that a step that moves a buffer from one part to the
  next needs only what concatenation does to sets of lines and to their order; a
  dropped line is nowhere else because lines of different parts differ.  That
  `threadFunc()` never runs out of buffers is `BufferInv`: it took at least two
  buffers whenever it left `newBuffer2` behind, because `nextBuffer_` is missing
  only if a full buffer is waiting.  `RollInv` adds to `FilesRoll` that no file is
  named later than the last roll, and that roll not later than the clock.
  `LogFilesOnlyGrow` is about steps: a closed file never changes and the open one
  only gets lines at its end.

TLC has checked every inductive invariant on the instance of its component's run
(for `TcpServerProofs`, with the number that `TurnInv` quantifies over bounded by
the number of clients).  The proofs rest on the named assumptions on the constants and on
the library's theorems about finite sets, sequences and well-founded relations.

Only model-checked: liveness (`ENABLED` and fairness are out of the prover's
reach).  Every safety property of a passing run, refinements included, is a
theorem.

## 5. What the properties leave out, by name

Some properties state an exception where the code has one.  Each exception is
reached by TLC when it is taken out of the property (or the assumption out of
the model):

* `loop()` clears `quit_` (`EventLoop.cc:93`): `~EventLoopThread()` between the
  publication of `loop_` and `loop()` joins for ever.  `QuitWhileLoopingJoins` and
  `QuitHolds` start from a loop that is looping.
* The destructor calls `quit()` on a loop that may be gone after a user's
  `quit()` (`EventLoopThread.cc:32`; `dangling`).
* A functor queued by the loop thread before `loop()` gets no wakeup
  (`EventLoop.cc:157`; `EarlyQueue`, `FALSE` in the run and assumed so by
  `WakeupNotLost`).
* `shutdown()` of another thread may overwrite `kDisconnected`
  (`TcpConnection.cc:210`, a FIXME of the source; `revived` in `DownIsFinal`).
  A queued `send()` of a second thread may then enable the channel of a
  connection that was removed (`WatchedIsAlive`, `PeerEndsConnection`).
* `send(); shutdown();` in another thread: FIN may precede data that is still a
  queued functor (`TcpConnection.cc:340`); `FinAfterBuffer` is about the bytes
  `sendInLoop` has taken.
* `~TcpServer()` with a connection in `kDisconnecting` fails the assertion of
  `Channel::remove()`; a `removeConnectionInLoop` queued before it uses the dead
  server (`TcpServer.cc:147`).  `ConnectionsMatch` ends with `~TcpServer()`, and
  `EveryConnectionEnds` excepts a process that ended in one of these ways.
* A thread that takes the idle descriptor leaves the acceptor without one, and
  the backlog waits (`Acceptor.cc:78`; `stolen` in `EveryClientAnswered`).
* A channel whose one update is a `disableAll()` fails the assertion of
  `PollPoller::removeChannel` (`PollPoller.cc:121`); `~Acceptor()` without
  `listen()` does that.  `OnlyUnusedAborts` says that nothing else does.
* `addTimer()` in another thread reads a timer that may be deleted
  (`TimerQueue.cc:127`).
* A producer that waits for room when the pool is stopped waits for ever
  (`ThreadPool.cc:87` (c); `running` in `RunReturns`).
* `stop()` of another thread between the test of `connect_` and `restart()` is
  undone (`Connector.cc:131` (c); `overtaken`), and a fatal error of `connect`
  ends the attempts (`gaveUp` in `Reconnects`).
* Lines appended after the last swap before `stop()` are not written
  (`AsyncLogging.cc:64` (c); `running` in `LinesReachDisk`).

## 6. Where the code disagrees with its comments

* `TcpConnectionSend`: `send()` is commented as thread safe
  (`TcpConnection.cc:76`).  The thread reads `kConnected`, the peer closes, the
  connection is destroyed in its loop, the thread queues `sendInLoop` with the
  raw `this` and drops its pointer: the functor runs on a destroyed object.
* `PollPollerReenable`: `PollPoller.cc:100-104` says that a channel without
  events is ignored for the time being.  `updateChannel()` with new events sets
  `pfd.events` and leaves `pfd.fd` at `-fd-1`: the channel is never reported
  again.  `EPollPoller` keeps the promise (`ReadyIsReported`).

## 7. Not modelled

* `Logging`, `LogStream`, `InetAddress`, `Endian`, `Timestamp`, `StringPiece`:
  formatting and value types without shared state.
* `Thread`, `CurrentThread`, `ThreadLocal`, `Singleton`, `Atomic`, `MutexLock`:
  wrappers of pthread; they are the steps of the models.
* `BlockingQueue`, `BoundedBlockingQueue`: the same two waits as `ThreadPool`.
* `SocketsOps`, `FileUtil`, `ProcessInfo`, `DefaultPoller`: system calls.
* The earlier lessons and `src/comments` hold earlier or annotated copies of
  what is modelled here, and the tests and examples are programs that use it.
* `TcpConnection`: `setTcpNoDelay`, messages of length 0, the contents of
  `inputBuffer_`.  `TcpServer`: names of connections, `start()` outside the base
  thread, where the pool's assertion fails, and errors of `accept()` that end the
  process.  `Pollers`: errors and hang-ups reported unasked.  `TcpClient`: a second
  `connect()`, a destructor in another thread or while functors of the connector
  are queued, and a client without `retry_`.
