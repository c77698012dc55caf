---------------------------- MODULE TcpConnection ----------------------------
(***************************************************************************)
(* muduo::net::TcpConnection: one accepted connection, from the moment     *)
(* TcpServer::newConnection has queued connectEstablished() to the death   *)
(* of the object.                                                          *)
(*                                                                         *)
(* Actors: the IO thread (poll, the channel's events, pending functors,    *)
(* the user's callbacks), other threads of the user that hold a            *)
(* TcpConnectionPtr, the thread of the base loop (TcpServer), the peer.    *)
(* The server has an EventLoopThreadPool: the IO loop is not the base      *)
(* loop.  The IO loop is the FIFO of functors that EventLoop implements,   *)
(* with its batches; wakeups are left to EventLoop, the end of the server  *)
(* to TcpServer.                                                           *)
(***************************************************************************)
EXTENDS Integers, Sequences, FiniteSets

CONSTANTS
  Users,             \* other threads that get a TcpConnectionPtr
  IOThread,          \* the thread of the connection's loop
  ShutdownThreads,   \* the threads that call shutdown()
  MsgLens,           \* lengths of messages
  MaxBytes,          \* bound: bytes passed to send() altogether
  MaxUnread,         \* bound: bytes of the peer waiting in the socket
  HighWaterMark      \* highWaterMark_

ASSUME ConnAssumption ==
  /\ IOThread \notin Users /\ ShutdownThreads \subseteq Users \cup {IOThread}
  /\ MsgLens \subseteq Nat \ {0}
  /\ MaxBytes \in Nat /\ MaxUnread \in Nat /\ HighWaterMark \in Nat \ {0}

VARIABLES
  state,          \* state_
  reading,        \* the channel's interest in POLLIN ...
  writing,        \* ... and in POLLOUT
  registered,     \* does the Poller know the channel?
  outputBuffer,   \* outputBuffer_; bytes are numbered as sendInLoop() takes them
  sent,           \* bytes the kernel has accepted, in order
  accepted,       \* how many bytes sendInLoop() has taken
  completeAt,     \* history: value of accepted when writeComplete was last queued
  marked,         \* history: was highWaterMarkCallback_ queued since the buffer
                  \* was last below the mark?
  asked,          \* bytes passed to send() so far
  peer,           \* "open", "fin", "reset" (SO_ERROR pending), "closed" (reset seen)
  unread,         \* bytes of the peer waiting in the socket
  wrShut,         \* has the write side been shut down?
  phase,          \* the IO thread: in "poll", on "events", on "functors"
  revents,        \* events of the channel still to be handled
  inUser,         \* the IO thread is in a callback of the user
  pending,        \* pendingFunctors_ of the loop
  batch,          \* functors of doPendingFunctors still to be called
  batchRef,       \* does the vector of that batch hold a TcpConnectionPtr?
  calling,        \* what each user thread is in the middle of
  hold,           \* user threads that hold a TcpConnectionPtr
  inMap,          \* connections_ holds the connection
  closing,        \* removeConnectionInLoop(conn) is queued in the base loop
  ups, downs,     \* history: connectionCallback_ with connected() true, false
  revived,        \* history: a shutdown() of another thread has written state_
                  \* over kDisconnected
  fault           \* history: the first assertion or lifetime error

connVars == <<state, reading, writing, registered>>
dataVars == <<outputBuffer, sent, accepted, completeAt, marked>>
netVars == <<peer, unread, wrShut>>
loopVars == <<phase, revents, inUser, pending, batch, batchRef>>
userVars == <<asked, calling, hold>>
serverVars == <<inMap, closing>>
histVars == <<ups, downs, revived, fault>>
vars == <<connVars, dataVars, netVars, loopVars, userVars, serverVars, histVars>>

Event == {"HUP", "ERR", "IN", "OUT"}

\* A call of send() or shutdown() in another thread: its step and its message.
Idle == <<"idle", 0>>

Call(op) == [op |-> op, from |-> IOThread, len |-> 0]

\* Mutant: TcpServer binds connectDestroyed() to the raw pointer.
SharedNotDestroyed(f) == f.op \notin {"send", "shutdown", "destroyed"}

\* boost::bind kept a TcpConnectionPtr, not the raw this.
Shared(f) == f.op \notin {"send", "shutdown"}

\* Some TcpConnectionPtr is left: the map, a thread, a functor of either loop
\* or the argument of a callback.  The guard of Channel::handleEvent() is not
\* counted: it is never the only one (see WatchedIsAlive).
Alive ==
  \/ inMap \/ closing \/ hold # {} \/ inUser \/ batchRef
  \/ \E i \in 1 .. Len(pending) : Shared(pending[i])

Running == fault = "none"

Init ==
  /\ state = "kConnecting"
  /\ reading = FALSE /\ writing = FALSE /\ registered = FALSE
  /\ outputBuffer = <<>> /\ sent = <<>> /\ accepted = 0
  /\ completeAt = 0 /\ marked = FALSE /\ asked = 0
  /\ peer = "open" /\ unread = 0 /\ wrShut = FALSE
  /\ phase = "poll" /\ revents = {} /\ inUser = FALSE
  /\ pending = <<Call("established")>> /\ batch = <<>> /\ batchRef = FALSE
  /\ calling = [t \in Users |-> Idle] /\ hold = {}
  /\ inMap = TRUE /\ closing = FALSE
  /\ ups = 0 /\ downs = 0 /\ revived = FALSE /\ fault = "none"

-----------------------------------------------------------------------------
(* Writing, in the IO thread *)

\* The next n bytes of the stream.
NewBytes(n) == [i \in 1 .. n |-> accepted + i]

\* The message is given up: nothing changes.
Drop == UNCHANGED <<dataVars, writing, registered, pending>>

\* Does the buffer reach the high water mark by growing from old to new?
crossesMark(old, new) == new >= HighWaterMark /\ old < HighWaterMark

\* w of the n bytes of a message go to the kernel at once, the others to
\* outputBuffer_; writeComplete is queued for the last byte, the high water
\* mark when the buffer crosses it; the channel waits for POLLOUT.
Take(n, w) ==
  /\ accepted' = accepted + n
  /\ sent' = sent \o SubSeq(NewBytes(n), 1, w)
  /\ outputBuffer' = outputBuffer \o SubSeq(NewBytes(n), w + 1, n)
  /\ IF w = n
     THEN /\ pending' = Append(pending, Call("writeComplete"))
          /\ completeAt' = accepted'
          /\ UNCHANGED <<marked, writing, registered>>
     ELSE LET crosses == crossesMark(Len(outputBuffer), Len(outputBuffer'))
          IN  /\ pending' = IF crosses THEN Append(pending, Call("highWater"))
                                       ELSE pending
              /\ marked' = (marked \/ crosses)
              /\ writing' = TRUE /\ registered' = TRUE
              /\ UNCHANGED completeAt

\* The first call after a reset gets the socket's error.
TakesError == peer' = IF peer = "reset" THEN "closed" ELSE peer

\* The direct write: the kernel takes some bytes or none (EWOULDBLOCK), fails
\* with ECONNRESET once after a reset (the message is buffered), or with EPIPE
\* (it is dropped).
writeDirectly(n) ==
  \/ /\ ~wrShut /\ peer \in {"open", "fin"}
     /\ \E w \in 0 .. n : Take(n, w)
     /\ UNCHANGED peer
  \/ peer = "reset" /\ Take(n, 0) /\ TakesError
  \/ (wrShut \/ peer \in {"reset", "closed"}) /\ Drop /\ TakesError

\* Mutant: the socket is tried first, whatever is buffered.
alwaysWritesDirectly == TRUE

\* May sendInLoop() write to the socket before the buffer?
mayWriteDirectly == ~writing /\ outputBuffer = <<>>

sendInLoop(n) ==
  \/ state = "kDisconnected" /\ Drop /\ UNCHANGED peer
  \/ state # "kDisconnected" /\ mayWriteDirectly /\ writeDirectly(n)
  \/ state # "kDisconnected" /\ ~mayWriteDirectly /\ Take(n, 0) /\ UNCHANGED peer

\* Mutant: the interest in POLLOUT is not looked at.
shutdownAtOnce(w) == wrShut' = TRUE

\* shutdownInLoop() when the channel's interest in POLLOUT is w.
shutdownInLoop(w) == wrShut' = (wrShut \/ ~w)

\* Completes a shutdown() that came while the buffer was not empty.
finishShutdown ==
  IF state = "kDisconnecting" THEN shutdownInLoop(FALSE) ELSE UNCHANGED wrShut

\* Mutants: no disableWriting(); no writeComplete; no look at state_.
bufferWrittenKeepsPollOut ==
  /\ writing' = TRUE /\ finishShutdown
  /\ pending' = Append(pending, Call("writeComplete")) /\ completeAt' = accepted
bufferWrittenSilently ==
  writing' = FALSE /\ finishShutdown /\ UNCHANGED <<pending, completeAt>>
bufferWrittenForgetsShutdown ==
  /\ writing' = FALSE /\ UNCHANGED wrShut
  /\ pending' = Append(pending, Call("writeComplete")) /\ completeAt' = accepted

\* handleWrite() has written the last byte: no more interest in POLLOUT,
\* writeComplete, and the rest of a shutdown().
bufferWritten ==
  /\ writing' = FALSE /\ finishShutdown
  /\ pending' = Append(pending, Call("writeComplete")) /\ completeAt' = accepted

\* handleWrite(): some of the buffer is written, or write() fails.
handleWrite ==
  \/ /\ writing /\ ~wrShut /\ peer \in {"open", "fin"}
     /\ \E n \in 1 .. Len(outputBuffer) :
          /\ sent' = sent \o SubSeq(outputBuffer, 1, n)
          /\ outputBuffer' = SubSeq(outputBuffer, n + 1, Len(outputBuffer))
     /\ marked' = (marked /\ Len(outputBuffer') >= HighWaterMark)
     /\ IF outputBuffer' = <<>> THEN bufferWritten
        ELSE UNCHANGED <<writing, pending, completeAt, wrShut>>
     /\ UNCHANGED <<accepted, registered, peer>>
  \/ /\ writing /\ (wrShut \/ peer \in {"reset", "closed"}) /\ TakesError
     /\ UNCHANGED <<dataVars, writing, registered, pending, wrShut>>
  \/ /\ ~writing
     /\ UNCHANGED <<dataVars, writing, registered, pending, wrShut, peer>>

\* handleClose(): the assertion, the state, disableAll(), the user's callback
\* and TcpServer::removeConnection(), which queues in the base loop.
handleClose ==
  /\ fault' = IF state \in {"kConnected", "kDisconnecting"} THEN fault
                                                           ELSE "closeAssert"
  /\ state' = "kDisconnected" /\ reading' = FALSE /\ writing' = FALSE
  /\ downs' = downs + 1 /\ closing' = TRUE

-----------------------------------------------------------------------------
(* The IO loop: poll() and the channel's events *)

\* What the kernel reports for the socket: POLLOUT also needs room.
Readiness ==
  {e \in Event :
     CASE e = "IN"  -> reading /\ (unread > 0 \/ peer # "open")
       [] e = "OUT" -> writing
       [] e = "HUP" -> peer \in {"reset", "closed"} \/ (peer = "fin" /\ wrShut)
       [] e = "ERR" -> peer = "reset"}

\* Mutant: POLLHUP closes even when there is something to read.
handledAll(r) == r

\* handleEventWithGuard() skips POLLHUP when POLLIN comes with it.
handled(r) == IF "IN" \in r THEN r \ {"HUP"} ELSE r

\* poll() of the loop; a channel without interest is not in the poll set.
poll ==
  /\ Running /\ phase = "poll" /\ phase' = "events"
  /\ \E room \in BOOLEAN :
       LET r == IF room THEN Readiness ELSE Readiness \ {"OUT"}
       IN  revents' = IF reading \/ writing THEN handled(r) ELSE {}
  /\ fault' = IF (reading \/ writing) /\ ~Alive THEN "useAfterFree" ELSE fault
  /\ UNCHANGED <<connVars, dataVars, netVars, inUser, pending, batch, batchRef,
                 userVars, serverVars, ups, downs, revived>>

\* handleEventWithGuard() handles the events in this order.
EventOrder == <<"HUP", "ERR", "IN", "OUT">>
IsNext(e) ==
  /\ Running /\ phase = "events" /\ ~inUser /\ e \in revents
  /\ \E i \in 1 .. 4 : /\ EventOrder[i] = e
                       /\ \A j \in 1 .. i - 1 : EventOrder[j] \notin revents
  /\ revents' = revents \ {e}

eventClose ==
  /\ IsNext("HUP") /\ handleClose
  /\ UNCHANGED <<registered, dataVars, netVars, phase, inUser, pending, batch,
                 batchRef, userVars, inMap, ups, revived>>

\* handleError() reads SO_ERROR, which clears it.
eventError ==
  /\ IsNext("ERR") /\ TakesError
  /\ UNCHANGED <<connVars, dataVars, unread, wrShut, phase, inUser, pending,
                 batch, batchRef, userVars, serverVars, histVars>>

\* read() has bytes for messageCallback_, or fails.
readData ==
  /\ unread > 0 /\ peer # "reset" /\ unread' = 0 /\ inUser' = TRUE
  /\ UNCHANGED <<connVars, peer, serverVars, histVars>>
readFails ==
  /\ peer = "reset" /\ TakesError
  /\ UNCHANGED <<connVars, unread, inUser, serverVars, histVars>>
atEof == unread = 0 /\ peer \in {"fin", "closed"}

\* Mutant: end of file is treated like an error.
handleReadIgnoresEof ==
  \/ readData \/ readFails
  \/ atEof /\ UNCHANGED <<connVars, peer, unread, inUser, serverVars, histVars>>

\* handleRead(): data, an error, or end of file.
handleRead ==
  \/ readData \/ readFails
  \/ /\ atEof /\ handleClose
     /\ UNCHANGED <<registered, peer, unread, inUser, inMap, ups, revived>>

eventRead ==
  /\ IsNext("IN") /\ handleRead
  /\ UNCHANGED <<dataVars, wrShut, phase, pending, batch, batchRef, userVars>>

eventWrite ==
  /\ IsNext("OUT") /\ handleWrite
  /\ UNCHANGED <<state, reading, unread, phase, inUser, batch, batchRef,
                 userVars, serverVars, histVars>>

-----------------------------------------------------------------------------
(* The IO loop: pending functors *)

doPendingFunctors ==
  /\ Running /\ phase = "events" /\ revents = {} /\ ~inUser
  /\ phase' = "functors" /\ batch' = pending /\ pending' = <<>>
  /\ batchRef' = \E i \in 1 .. Len(pending) : Shared(pending[i])
  /\ UNCHANGED <<connVars, dataVars, netVars, revents, inUser, userVars,
                 serverVars, histVars>>

\* The next functor of the batch is one of op.
NextFunctor(op) ==
  /\ Running /\ phase = "functors" /\ ~inUser
  /\ batch # <<>> /\ Head(batch).op = op /\ batch' = Tail(batch)

\* The batch is destroyed.
functorsDone ==
  /\ Running /\ phase = "functors" /\ ~inUser /\ batch = <<>>
  /\ batchRef' = FALSE /\ phase' = "poll"
  /\ UNCHANGED <<connVars, dataVars, netVars, revents, inUser, pending, batch,
                 userVars, serverVars, histVars>>

\* connectEstablished(); its callback gives the connection to the user.
connectEstablished ==
  /\ NextFunctor("established")
  /\ state' = "kConnected" /\ reading' = TRUE /\ registered' = TRUE
  /\ ups' = ups + 1 /\ inUser' = TRUE /\ hold' = Users
  /\ fault' = IF state = "kConnecting" THEN fault ELSE "establishedAssert"
  /\ UNCHANGED <<writing, dataVars, netVars, phase, revents, pending, batchRef,
                 asked, calling, serverVars, downs, revived>>

\* Does connectDestroyed() itself disconnect (and disable the channel)?
destroysConnected == state = "kConnected"

\* connectDestroyed(), with the assertion of Channel::remove().
connectDestroyed ==
  /\ NextFunctor("destroyed")
  /\ IF destroysConnected
     THEN /\ state' = "kDisconnected" /\ reading' = FALSE /\ writing' = FALSE
          /\ downs' = downs + 1
     ELSE UNCHANGED <<state, reading, writing, downs>>
  /\ fault' = IF reading' \/ writing' THEN "removeAssert" ELSE fault
  /\ registered' = FALSE
  /\ UNCHANGED <<dataVars, netVars, phase, revents, inUser, pending, batchRef,
                 userVars, serverVars, ups, revived>>

\* writeCompleteCallback_ or highWaterMarkCallback_.
notifyUser ==
  /\ NextFunctor("writeComplete") \/ NextFunctor("highWater")
  /\ inUser' = TRUE
  /\ UNCHANGED <<connVars, dataVars, netVars, phase, revents, pending, batchRef,
                 userVars, serverVars, histVars>>

\* sendInLoop() or shutdownInLoop() of another thread: bound to the raw this.
queuedSend ==
  /\ NextFunctor("send")
  /\ IF Alive THEN sendInLoop(Head(batch).len) /\ UNCHANGED fault
              ELSE Drop /\ fault' = "useAfterFree" /\ UNCHANGED peer
  /\ UNCHANGED <<state, reading, unread, wrShut, phase, revents, inUser,
                 batchRef, userVars, serverVars, ups, downs, revived>>

queuedShutdown ==
  /\ NextFunctor("shutdown")
  /\ IF Alive THEN shutdownInLoop(writing) /\ UNCHANGED fault
              ELSE fault' = "useAfterFree" /\ UNCHANGED wrShut
  /\ UNCHANGED <<connVars, dataVars, peer, unread, phase, revents, inUser,
                 pending, batchRef, userVars, serverVars, ups, downs, revived>>

-----------------------------------------------------------------------------
(* The user's callbacks, in the IO thread *)

CanAsk(n) == asked + n <= MaxBytes /\ asked' = asked + n

callbackSends(n) ==
  /\ Running /\ inUser /\ state = "kConnected" /\ CanAsk(n)
  /\ sendInLoop(n)
  /\ UNCHANGED <<state, reading, unread, wrShut, phase, revents, inUser, batch,
                 batchRef, calling, hold, serverVars, histVars>>

callbackShutdown ==
  /\ IOThread \in ShutdownThreads
  /\ Running /\ inUser /\ state = "kConnected"
  /\ state' = "kDisconnecting" /\ shutdownInLoop(writing)
  /\ UNCHANGED <<reading, writing, registered, dataVars, peer, unread, loopVars,
                 userVars, serverVars, histVars>>

callbackReturns ==
  /\ Running /\ inUser /\ inUser' = FALSE
  /\ UNCHANGED <<connVars, dataVars, netVars, phase, revents, pending, batch,
                 batchRef, userVars, serverVars, histVars>>

-----------------------------------------------------------------------------
(* Other threads of the user *)

Step(t, from, to) ==
  /\ Running /\ calling[t] = from
  /\ calling' = [calling EXCEPT ![t] = to]

\* send(): state_ is read ...
send(t, n) ==
  /\ t \in hold /\ state = "kConnected" /\ CanAsk(n)
  /\ Step(t, Idle, <<"send", n>>)
  /\ UNCHANGED <<connVars, dataVars, netVars, loopVars, hold, serverVars, histVars>>

\* queueInLoop() of the IO loop by t.
Queue(t, op, n) == pending' = Append(pending, [op |-> op, from |-> t, len |-> n])

\* ... and then the functor is queued.
sendQueues(t, n) ==
  /\ Step(t, <<"send", n>>, Idle) /\ Queue(t, "send", n)
  /\ UNCHANGED <<connVars, dataVars, netVars, phase, revents, inUser, batch,
                 batchRef, asked, hold, serverVars, histVars>>

\* shutdown(): state_ is read, then written, then the functor is queued.
shutdown(t) ==
  /\ t \in hold \cap ShutdownThreads /\ state = "kConnected"
  /\ Step(t, Idle, <<"checked", 0>>)
  /\ UNCHANGED <<connVars, dataVars, netVars, loopVars, asked, hold, serverVars,
                 histVars>>

shutdownSets(t) ==
  /\ Step(t, <<"checked", 0>>, <<"set", 0>>)
  /\ state' = "kDisconnecting"
  /\ revived' = (revived \/ state = "kDisconnected")
  /\ UNCHANGED <<reading, writing, registered, dataVars, netVars, loopVars,
                 asked, hold, serverVars, ups, downs, fault>>

shutdownQueues(t) ==
  /\ Step(t, <<"set", 0>>, Idle) /\ Queue(t, "shutdown", 0)
  /\ UNCHANGED <<connVars, dataVars, netVars, phase, revents, inUser, batch,
                 batchRef, asked, hold, serverVars, histVars>>

release(t) ==
  /\ Running /\ t \in hold /\ calling[t] = Idle
  /\ hold' = hold \ {t}
  /\ UNCHANGED <<connVars, dataVars, netVars, loopVars, asked, calling,
                 serverVars, histVars>>

-----------------------------------------------------------------------------
(* TcpServer in the base loop, and the peer *)

\* removeConnectionInLoop(): erase, assert(n == 1), queue connectDestroyed().
removeConnectionInLoop ==
  /\ Running /\ closing /\ closing' = FALSE /\ inMap' = FALSE
  /\ fault' = IF inMap THEN fault ELSE "eraseAssert"
  /\ pending' = Append(pending, Call("destroyed"))
  /\ UNCHANGED <<connVars, dataVars, netVars, phase, revents, inUser, batch,
                 batchRef, userVars, ups, downs, revived>>

PeerSends ==
  /\ peer = "open" /\ unread < MaxUnread /\ unread' = unread + 1
  /\ UNCHANGED <<peer, wrShut>>
PeerCloses == peer = "open" /\ peer' = "fin" /\ UNCHANGED <<unread, wrShut>>
PeerResets ==
  /\ peer \in {"open", "fin"} /\ peer' = "reset" /\ unread' = 0
  /\ UNCHANGED wrShut

PeerStep ==
  /\ Running
  /\ PeerSends \/ PeerCloses \/ PeerResets
  /\ UNCHANGED <<connVars, dataVars, loopVars, userVars, serverVars, histVars>>

-----------------------------------------------------------------------------
EventStep == eventClose \/ eventError \/ eventRead \/ eventWrite

FunctorStep ==
  \/ connectEstablished \/ connectDestroyed \/ notifyUser \/ queuedSend
  \/ queuedShutdown

IOStep ==
  \/ poll \/ EventStep \/ doPendingFunctors \/ FunctorStep \/ functorsDone
  \/ callbackReturns

UserStep(t) ==
  \/ shutdown(t) \/ shutdownSets(t) \/ shutdownQueues(t) \/ release(t)
  \/ \E n \in MsgLens : send(t, n) \/ sendQueues(t, n)

\* The program was aborted.
Ended == ~Running /\ UNCHANGED vars

Next ==
  \/ IOStep \/ callbackShutdown \/ removeConnectionInLoop \/ PeerStep \/ Ended
  \/ \E n \in MsgLens : callbackSends(n)
  \/ \E t \in Users : UserStep(t)

Spec == Init /\ [][Next]_vars

\* The IO thread and the base loop run, calls in other threads complete, and a
\* peer that stays connected keeps reading, so that a channel that waits for
\* POLLOUT gets it again and again.
FairSpec ==
  /\ Spec
  /\ WF_vars(IOStep) /\ WF_vars(removeConnectionInLoop)
  /\ SF_vars(poll /\ "OUT" \in revents')
  /\ \A t \in Users : WF_vars(shutdownSets(t) \/ shutdownQueues(t)
                              \/ \E n \in MsgLens : sendQueues(t, n))

-----------------------------------------------------------------------------
(* Properties *)

\* The bytes sendInLoop() took reach the kernel in order, none missing, none
\* twice: what was sent, followed by outputBuffer_, is the stream so far.  A
\* direct write never overtakes buffered bytes.
StreamIntact == sent \o outputBuffer = [i \in 1 .. accepted |-> i]

\* While the connection is up the channel waits for POLLOUT exactly when there
\* is something to write: no stall and no busy loop.
PollOutIffBuffered == downs = 0 => (writing <=> outputBuffer # <<>>)

\* FIN never overtakes outputBuffer_: when the write side of a connection that
\* is up is shut down, every byte taken so far has been given to the kernel.
FinAfterBuffer == [][~wrShut /\ wrShut' /\ downs = 0 => outputBuffer' = <<>>]_vars

\* The user hears of both ends: whenever outputBuffer_ is empty,
\* writeCompleteCallback_ was queued for the last byte that was taken, and
\* whenever it is at or above the mark, highWaterMarkCallback_ was queued when
\* it got there.
CallbacksQueued ==
  /\ outputBuffer = <<>> => completeAt = accepted
  /\ Len(outputBuffer) >= HighWaterMark => marked

\* A channel the Poller still knows belongs to a connection that is alive.  The
\* only exception is that of DownIsFinal: a queued send() of a second thread may
\* then enable the channel of a connection that connectDestroyed() has removed.
WatchedIsAlive == registered => Alive \/ revived

\* connectionCallback_ is called once for UP and then at most once for DOWN,
\* after DOWN the channel takes no more events, and no assertion of the
\* connection, its channel or the server's map fails.  The only exception: a
\* shutdown() of another thread read kConnected before DOWN and wrote
\* kDisconnecting after it; a queued send() then enables the channel again.
DownIsFinal ==
  \/ /\ downs <= ups /\ (downs > 0 => ~reading /\ ~writing)
     /\ fault \in {"none", "useAfterFree"}
  \/ revived

\* The end of the peer's stream or a reset brings the connection down, and it
\* leaves the Poller and the server's map, with the exception of DownIsFinal.
PeerEndsConnection ==
  (ups = 1 /\ peer # "open") ~>
     ((downs > 0 /\ ~registered /\ ~inMap) \/ revived \/ ~Running)

\* A shutdown() is carried out once the buffer is written, or the connection
\* goes down first.
ShutdownCompletes == (state = "kDisconnecting") ~> (wrShut \/ downs > 0 \/ ~Running)

\* send() can be called by other threads (TcpConnection.cc:76, 96, 116): its
\* functor never runs on a connection that is already destroyed.
SendIsSafe == fault # "useAfterFree"
=============================================================================
