------------------------------ MODULE TcpClient ------------------------------
(***************************************************************************)
(* muduo::net::TcpClient with retry_ set, its Connector and its            *)
(* connections, driven by one EventLoop; another thread may call           *)
(* connect(), disconnect() and stop().                                     *)
(*                                                                         *)
(* An iteration of the loop handles the channels that one poll() reported  *)
(* and then the functors queued up to then.  A connection is named by its  *)
(* descriptor; of its events only the close is modelled.                   *)
(*                                                                         *)
(* Three things are narrower than in the code.  connect() is called once:  *)
(* again after stop() or disconnect() it could find the connector not      *)
(* disconnected.  The test and the store of state_ in shutdown() are one   *)
(* step: what another thread's store can overwrite is TcpConnection's      *)
(* matter.  The client is destroyed in a functor of its loop, with no      *)
(* functor of the connector pending.                                       *)
(***************************************************************************)
EXTENDS Connector

VARIABLES
  phase,                        \* of the loop: "poll", "events", "restart", "functors"
  active,                       \* activeChannels_ still to be handled
  batch,                        \* functors doPendingFunctors() still has to call
  clientConnect,                \* TcpClient::connect_
  connection,                   \* connection_: a descriptor, 0 for a null pointer
  connState,                    \* state_ of each TcpConnection, "none" if there is none
  closeCallback,                \* closeCallback_ of each: "client" or "detail"
  alive,                        \* does the TcpClient exist?
  called,                       \* the calls already made
  posting,                      \* functors the other thread is about to queue
  stopped,                      \* history: has a stopInLoop() returned?
  late,                         \* history: was a connection reported after that?
  overtaken                     \* history: did another thread's stop() come between the
                                \* test of connect_ and restart()?

clientVars == <<clientConnect, connection, connState, closeCallback, alive, called, posting, stopped, late, overtaken>>
loopVars == <<phase, active, batch>>
vars == <<connectorVars, clientVars, loopVars>>

Init ==
  /\ ConnectorInit
  /\ phase = "poll" /\ active = {} /\ batch = <<>>
  /\ clientConnect = TRUE /\ connection = 0 /\ alive = TRUE
  /\ connState = [fd \in Fds |-> "none"] /\ closeCallback = [fd \in Fds |-> "client"]
  /\ called = {} /\ posting = <<>> /\ stopped = FALSE /\ late = FALSE /\ overtaken = FALSE

Live(fd) == connState[fd] \in {"kConnected", "kDisconnecting"}
-----------------------------------------------------------------------------
(* The calls of the user.  Each is made at most once, connect() first.     *)

\* TcpClient::connect in another thread: the flags; startInLoop is queued later.
userConnect ==
  /\ "connect" \notin called
  /\ called' = called \cup {"connect"}
  /\ clientConnect' = TRUE /\ connect_' = TRUE
  /\ posting' = Append(posting, <<"startInLoop", 0>>)
  /\ UNCHANGED <<state, channel, watched, retryDelay, timers, open, queue, gaveUp, fault, loopVars,
                 connection, connState, closeCallback, alive, stopped, late, overtaken>>

\* TcpClient::disconnect: TcpConnection::shutdown() of a kConnected connection, as
\* one step.
userDisconnect ==
  /\ "connect" \in called /\ "disconnect" \notin called /\ alive
  /\ called' = called \cup {"disconnect"}
  /\ clientConnect' = FALSE
  /\ connState' = [fd \in Fds |-> IF fd = connection /\ connState[fd] = "kConnected"
                                  THEN "kDisconnecting" ELSE connState[fd]]
  /\ UNCHANGED <<connectorVars, loopVars, connection, closeCallback, alive, posting, stopped, late, overtaken>>

\* TcpClient::stop in another thread: the flags; stopInLoop is queued later.
userStop ==
  /\ "connect" \in called /\ "stop" \notin called /\ alive
  /\ called' = called \cup {"stop"}
  /\ clientConnect' = FALSE /\ connect_' = FALSE
  /\ posting' = Append(posting, <<"stopInLoop", 0>>)
  /\ overtaken' = (phase = "restart")
  /\ UNCHANGED <<state, channel, watched, retryDelay, timers, open, queue, gaveUp, fault, loopVars,
                 connection, connState, closeCallback, alive, stopped, late>>

\* The rest of start() or stop() in the other thread.
userPosts ==
  /\ posting # <<>>
  /\ queue' = Append(queue, Head(posting)) /\ posting' = Tail(posting)
  /\ UNCHANGED <<connect_, state, channel, watched, retryDelay, timers, open, gaveUp, fault, loopVars,
                 clientConnect, connection, connState, closeCallback, alive, called, stopped, late, overtaken>>

InCallback == phase \in {"events", "functors"}

\* TcpClient::stop in a callback of the loop thread
loopStop ==
  /\ InCallback /\ alive
  /\ "connect" \in called /\ "stop" \notin called
  /\ called' = called \cup {"stop"}
  /\ clientConnect' = FALSE /\ connect_' = FALSE
  /\ queue' = Append(queue, <<"stopInLoop", 0>>)
  /\ UNCHANGED <<state, channel, watched, retryDelay, timers, open, gaveUp, fault, loopVars,
                 connection, connState, closeCallback, alive, posting, stopped, late, overtaken>>

\* Functors bound to the raw pointer of the Connector
ConnectorFunctors == {"startInLoop", "stopInLoop", "resetChannel"}

\* ~TcpClient in a functor.  With a connection the connector dies too: the guard
\* asks that none of its functors is pending.  Without one it lives for a second
\* more.  Another owner of the connection makes unique() false.
destroyClient ==
  /\ phase = "functors" /\ alive /\ "connect" \in called /\ posting = <<>>
  /\ connection # 0 => \A f \in Range(queue) \cup Range(batch) : f[1] \notin ConnectorFunctors
  /\ alive' = FALSE
  /\ \/ /\ connection # 0
        /\ closeCallback' = [closeCallback EXCEPT ![connection] = "detail"]
        /\ \/ /\ Live(connection)
              /\ connState' = [connState EXCEPT ![connection] = "kDisconnecting"]
              /\ queue' = Append(queue, <<"forceCloseInLoop", connection>>)
           \/ UNCHANGED <<connState, queue>>
        /\ UNCHANGED connect_
     \/ /\ connection = 0
        /\ connect_' = FALSE
        /\ queue' = Append(queue, <<"stopInLoop", 0>>)
        /\ UNCHANGED <<closeCallback, connState>>
  /\ UNCHANGED <<state, channel, watched, retryDelay, timers, open, gaveUp, fault, loopVars,
                 clientConnect, connection, called, posting, stopped, late, overtaken>>
-----------------------------------------------------------------------------
(* The loop thread.                                                        *)

\* What poll() can report: the connector's channel, the timer queue's, and a
\* connection whose peer has closed it.
Eligible ==
  (IF watched THEN {<<"connector", channel>>} ELSE {})
    \cup (IF timers > 0 THEN {<<"timer", 0>>} ELSE {})
    \cup {<<"close", fd>> : fd \in {f \in Fds : Live(f)}}

poll ==
  /\ phase = "poll"
  /\ active' \in SUBSET Eligible
  /\ active' # {} \/ queue # <<>>
  /\ phase' = "events"
  /\ UNCHANGED <<connectorVars, clientVars, batch>>

\* Connector::handleWrite with a good socket, and TcpClient::newConnection
newConnection ==
  /\ connectSucceeds(TRUE)
  /\ connection' = channel
  /\ connState' = [connState EXCEPT ![channel] = "kConnected"]
  /\ closeCallback' = [closeCallback EXCEPT ![channel] = "client"]
  /\ late' = (late \/ stopped)
  /\ UNCHANGED <<clientConnect, alive, called, posting, stopped, overtaken>>

handleConnector ==
  /\ phase = "events" /\ <<"connector", channel>> \in active
  /\ active' = active \ {<<"connector", channel>>}
  /\ \/ newConnection
     \/ connectSucceeds(FALSE) /\ UNCHANGED clientVars
     \/ connectFails /\ UNCHANGED clientVars
  /\ UNCHANGED <<phase, batch>>

\* Mutant: the retry timer repeats.
handleTimerRepeats ==
  /\ phase = "events" /\ <<"timer", 0>> \in active
  /\ active' = active \ {<<"timer", 0>>}
  /\ startInLoop(timers)
  /\ UNCHANGED <<connect_, queue, phase, batch, clientVars>>

\* TimerQueue::handleRead: a retry timer calls startInLoop().
handleTimer ==
  /\ phase = "events" /\ <<"timer", 0>> \in active
  /\ active' = active \ {<<"timer", 0>>}
  /\ startInLoop(timers - 1)
  /\ UNCHANGED <<connect_, queue, phase, batch, clientVars>>

\* Mutant: connect_ is not tested.
handleCloseRestarts(fd) ==
  /\ connState' = [connState EXCEPT ![fd] = "kDisconnected"]
  /\ queue' = Append(queue, <<"connectDestroyed", fd>>)
  /\ connection' = 0 /\ phase' = "restart"
  /\ UNCHANGED <<connect_, state, channel, watched, retryDelay, timers, open, gaveUp, fault,
                 clientConnect, closeCallback, alive, called, posting, stopped, late, overtaken>>

\* TcpConnection::handleClose and its closeCallback_, detail::removeConnection or
\* TcpClient::removeConnection, which tests retry_ && connect_ at its end.
handleClose(fd) ==
  /\ connState' = [connState EXCEPT ![fd] = "kDisconnected"]
  /\ queue' = Append(queue, <<"connectDestroyed", fd>>)
  /\ \/ /\ closeCallback[fd] = "detail"
        /\ UNCHANGED <<connection, fault, phase>>
     \/ /\ closeCallback[fd] = "client"
        /\ connection' = 0
        /\ fault' = (connection # fd)
        /\ phase' = IF clientConnect THEN "restart" ELSE phase
  /\ UNCHANGED <<connect_, state, channel, watched, retryDelay, timers, open, gaveUp,
                 clientConnect, closeCallback, alive, called, posting, stopped, late, overtaken>>

connectionCloses(fd) ==
  /\ phase = "events" /\ <<"close", fd>> \in active
  /\ active' = active \ {<<"close", fd>>}
  /\ handleClose(fd)
  /\ UNCHANGED batch

\* The last line of TcpClient::removeConnection: Connector::restart
clientRestarts ==
  /\ phase = "restart"
  /\ restart
  /\ phase' = "events"
  /\ UNCHANGED <<queue, active, batch, clientVars>>

\* EventLoop::doPendingFunctors: the swap
swapFunctors ==
  /\ phase = "events" /\ active = {}
  /\ phase' = "functors" /\ batch' = queue /\ queue' = <<>>
  /\ UNCHANGED <<connect_, state, channel, watched, retryDelay, timers, open, gaveUp, fault,
                 active, clientVars>>

\* TcpConnection::connectDestroyed; the last reference closes the socket.
connectDestroyed(fd) ==
  /\ connState' = [connState EXCEPT ![fd] = "none"]
  /\ open' = open \ {fd}
  /\ UNCHANGED <<connect_, state, channel, watched, retryDelay, timers, queue, gaveUp, fault,
                 clientConnect, connection, closeCallback, alive, called, posting, stopped, late, overtaken>>

callFunctor ==
  /\ phase = "functors" /\ batch # <<>>
  /\ batch' = Tail(batch)
  /\ LET f == Head(batch)[1]
         fd == Head(batch)[2]
     IN \/ f = "startInLoop" /\ startInLoop(timers) /\ UNCHANGED <<connect_, queue, phase, clientVars>>
        \/ /\ f = "stopInLoop" /\ stopInLoop /\ stopped' = TRUE
           /\ UNCHANGED <<connect_, phase, clientConnect, connection, connState, closeCallback,
                          alive, called, posting, late, overtaken>>
        \/ f = "resetChannel" /\ resetChannel /\ UNCHANGED <<connect_, phase, clientVars>>
        \/ f = "connectDestroyed" /\ connectDestroyed(fd) /\ UNCHANGED phase
        \/ f = "forceCloseInLoop" /\ Live(fd) /\ handleClose(fd)
        \/ f = "forceCloseInLoop" /\ ~Live(fd) /\ UNCHANGED <<connectorVars, phase, clientVars>>
  /\ UNCHANGED active

endIteration ==
  /\ phase = "functors" /\ batch = <<>>
  /\ phase' = "poll"
  /\ UNCHANGED <<connectorVars, active, batch, clientVars>>

loop ==
  \/ poll \/ handleConnector \/ handleTimer \/ \E fd \in Fds : connectionCloses(fd)
  \/ clientRestarts \/ swapFunctors \/ callFunctor \/ endIteration

user == userConnect \/ userDisconnect \/ userStop \/ userPosts \/ loopStop \/ destroyClient

Next == ~fault /\ (loop \/ user)

Spec == Init /\ [][Next]_vars

\* The loop and the other thread go on; poll() reports in the end what stays
\* ready; a server that is tried again and again accepts in the end.
FairSpec ==
  /\ Spec /\ WF_vars(~fault /\ loop) /\ WF_vars(~fault /\ userPosts)
  /\ \A e \in {"connector", "timer"} :
       SF_vars(~fault /\ poll /\ \E fd \in Fds \cup {0} : <<e, fd>> \in active')
  /\ SF_vars(~fault /\ handleTimer /\ state' = "kConnecting")
  /\ SF_vars(~fault /\ handleConnector /\ newConnection)
-----------------------------------------------------------------------------
Count(f) == Cardinality({i \in DOMAIN queue : queue[i][1] = f})
            + Cardinality({i \in DOMAIN batch : batch[i][1] = f})

\* When connect() is called once there is one attempt to connect at a time: a
\* queued start, a retry timer, a socket that is connecting or an established
\* connection that would restart.  So the assertions of Connector and TcpClient
\* hold; only a stop() that restart() has overtaken can leave channel_ to a retry
\* that comes too early.
OneAttempt ==
  /\ Count("startInLoop") + timers + (IF state = "kConnecting" THEN 1 ELSE 0)
       + (IF connection # 0 \/ phase = "restart" THEN 1 ELSE 0) <= 1
  /\ fault => overtaken

\* Every open socket has one owner, the connecting Connector or a TcpConnection
\* that was not destroyed: none is leaked and none is closed under its owner.
SocketsOwned ==
  LET owned == {fd \in Fds : connState[fd] # "none"}
      pending == IF state = "kConnecting" THEN {channel} ELSE {}
  IN /\ open = owned \cup pending /\ owned \cap pending = {}
     /\ alive /\ connection # 0 => Live(connection)

\* Once stop() has taken effect in the loop, no connection is reported.  The only
\* exception: stop() in another thread came between the test of connect_ at the
\* end of removeConnection() and restart(), which sets the connector's connect_.
StopIsFinal == late => overtaken

\* A client that is neither stopped nor disconnected is connected again and again,
\* unless connect(2) failed for good.
Reconnects ==
  <>[](alive /\ connect_ /\ clientConnect) => []<>(connection # 0) \/ <>gaveUp
=============================================================================
