------------------------------ MODULE TcpServer ------------------------------
(***************************************************************************)
(* muduo::net::TcpServer with its Acceptor, its EventLoopThreadPool and    *)
(* its connections.  Loop 0 is loop_, the base loop; loops 1, 2, ... are   *)
(* those of the pool.  Each loop has a queue of functors (see EventLoop).  *)
(* A connection is its state_ (see TcpConnection) and is named by client.  *)
(***************************************************************************)
EXTENDS Acceptor, Functions

CONSTANT ThreadNums             \* arguments of setThreadNum()

ASSUME ServerAssumption == ThreadNums \subseteq Nat /\ IsFiniteSet(ThreadNums)

VARIABLES
  alive,                        \* ~TcpServer() has not begun
  started,                      \* started_
  numThreads,                   \* numThreads_ of the pool
  next,                         \* next_ of the pool
  connections,                  \* connections_
  conn,                         \* state_ of a connection, or "none", "gone"
  loopOf,                       \* loop_ of a connection
  queue,                        \* pendingFunctors_ of each loop
  stopped,                      \* loops of the pool that have ended
  peerClosed,                   \* clients that have closed
  fault                         \* the first assertion that failed

serverVars == <<alive, started, numThreads, next, connections, conn, loopOf, queue, stopped,
                peerClosed, fault>>
vars == <<acceptorVars, serverVars>>

Loops == UNION {0 .. n : n \in ThreadNums \cup {0}}
Base == 0
Pool == IF started THEN 1 .. numThreads ELSE {}

Init ==
  /\ AcceptorInit
  /\ alive = TRUE /\ started = FALSE /\ numThreads = 0 /\ next = 0
  /\ connections = {} /\ conn = [c \in Clients |-> "none"]
  /\ loopOf = [c \in Clients |-> Base] /\ queue = [l \in Loops |-> <<>>]
  /\ stopped = {} /\ peerClosed = {} /\ fault = "none"

Running == fault = "none"
Sockets == Cardinality({c \in Clients : conn[c] \notin {"none", "gone"}})

Queued(l, f) == [queue EXCEPT ![l] = Append(@, f)]

\* The base loop runs: not in the middle of handleRead(), nor in ~TcpServer().
BaseFree == accepting = "idle" /\ (alive \/ stopped = Pool)
-----------------------------------------------------------------------------
setThreadNum(n) ==
  /\ Running /\ alive /\ ~started /\ numThreads' = n
  /\ UNCHANGED <<acceptorVars, alive, started, next, connections, conn, loopOf, queue, stopped,
                 peerClosed, fault>>

\* start(), in the base thread; a second call changes nothing.
start ==
  /\ Running /\ alive /\ ~started /\ started' = TRUE
  /\ listen
  /\ UNCHANGED <<alive, numThreads, next, connections, conn, loopOf, queue, stopped, peerClosed,
                 fault>>

\* Mutant: next_ wraps one too early.
nextAfterEarly == IF next + 2 >= numThreads THEN 0 ELSE next + 1

\* next_ after getNextLoop()
nextAfter == IF next + 1 >= numThreads THEN 0 ELSE next + 1

\* getNextLoop(): the base loop, or those of the pool in turn.
getNextLoop(l) ==
  \/ numThreads = 0 /\ l = Base /\ UNCHANGED next
  \/ numThreads > 0 /\ l = next + 1 /\ next' = nextAfter

\* handleRead() and newConnection(): a loop, the map, and connectEstablished()
\* at once in the base loop or queued in the other.
newConnection ==
  LET c == Head(backlog)
  IN /\ Running /\ alive /\ accepts(Sockets)
     /\ \E l \in Loops :
          /\ getNextLoop(l)
          /\ loopOf' = [loopOf EXCEPT ![c] = l]
          /\ \/ /\ l = Base
                /\ conn' = [conn EXCEPT ![c] = "kConnected"]
                /\ UNCHANGED queue
             \/ /\ l # Base
                /\ conn' = [conn EXCEPT ![c] = "kConnecting"]
                /\ queue' = Queued(l, <<"established", c>>)
     /\ connections' = connections \cup {c}
     /\ UNCHANGED <<alive, started, numThreads, stopped, peerClosed, fault>>

handleReadFails ==
  Running /\ alive /\ (acceptAborted(Sockets) \/ turnAway(Sockets)) /\ UNCHANGED serverVars

\* The loop l takes its next functor, and it is op of c.
Takes(l, op, c) ==
  /\ Running /\ queue[l] # <<>> /\ Head(queue[l]) = <<op, c>>
  /\ l \notin stopped /\ (l = Base => BaseFree)

connectEstablished(l, c) ==
  /\ Takes(l, "established", c)
  /\ conn' = [conn EXCEPT ![c] = "kConnected"]
  /\ fault' = IF conn[c] = "kConnecting" THEN fault ELSE "establishedAssert"
  /\ queue' = [queue EXCEPT ![l] = Tail(@)]
  /\ UNCHANGED <<acceptorVars, alive, started, numThreads, next, connections, loopOf, stopped,
                 peerClosed>>

\* The user's callback in the connection's loop calls shutdown().  From another
\* thread its test and its store of state_ are two steps: see TcpConnection.
shutdown(c) ==
  /\ Running /\ conn[c] = "kConnected" /\ loopOf[c] \notin stopped
  /\ loopOf[c] = Base => BaseFree
  /\ conn' = [conn EXCEPT ![c] = "kDisconnecting"]
  /\ UNCHANGED <<acceptorVars, alive, started, numThreads, next, connections, loopOf, queue,
                 stopped, peerClosed, fault>>

\* Mutant: connectDestroyed() is queued in the base loop.
destroyInBase(c) == Base

\* removeConnectionInLoop() queues connectDestroyed() in the connection's loop.
destroyIn(c) == loopOf[c]

\* Mutant: connectDestroyed() is not queued.
removeOnly(c, q) ==
  /\ connections' = connections \ {c}
  /\ queue' = q /\ UNCHANGED fault

\* removeConnectionInLoop() when the queues are q: erase, assert(n == 1), queue.
\* It is bound to the raw pointer of the server.
removeConnectionInLoop(c, q) ==
  /\ connections' = connections \ {c}
  /\ fault' = CASE ~alive -> "deadServer" [] c \notin connections -> "eraseAssert" [] OTHER -> fault
  /\ queue' = [q EXCEPT ![destroyIn(c)] = Append(@, <<"destroyed", c>>)]

\* handleClose() in the connection's loop, and removeConnection(): at once in
\* the base loop, queued from another.
handleClose(c) ==
  /\ Running /\ c \in peerClosed /\ conn[c] \in {"kConnected", "kDisconnecting"}
  /\ loopOf[c] \notin stopped /\ (loopOf[c] = Base => BaseFree)
  /\ conn' = [conn EXCEPT ![c] = "kDisconnected"]
  /\ \/ loopOf[c] = Base /\ removeConnectionInLoop(c, queue)
     \/ /\ loopOf[c] # Base /\ queue' = Queued(Base, <<"remove", c>>)
        /\ UNCHANGED <<connections, fault>>
  /\ UNCHANGED <<acceptorVars, alive, started, numThreads, next, loopOf, stopped, peerClosed>>

removeConnection(c) ==
  /\ Takes(Base, "remove", c)
  /\ removeConnectionInLoop(c, [queue EXCEPT ![Base] = Tail(@)])
  /\ UNCHANGED <<acceptorVars, alive, started, numThreads, next, conn, loopOf, stopped, peerClosed>>

\* connectDestroyed(): Channel::remove() asserts that the channel has no events,
\* which disableAll() sees to when the state is kConnected.  The last
\* TcpConnectionPtr goes with the functor, and the socket with it.
connectDestroyed(l, c) ==
  /\ Takes(l, "destroyed", c)
  /\ conn' = [conn EXCEPT ![c] = "gone"]
  /\ fault' = CASE conn[c] = "kDisconnecting" -> "removeAssert"
                [] loopOf[c] # l -> "loopAssert" [] OTHER -> fault
  /\ queue' = [queue EXCEPT ![l] = Tail(@)]
  /\ UNCHANGED <<acceptorVars, alive, started, numThreads, next, connections, loopOf, stopped,
                 peerClosed>>

clientCloses(c) ==
  /\ Running /\ c \in answered \ peerClosed /\ conn[c] # "none"
  /\ peerClosed' = peerClosed \cup {c}
  /\ UNCHANGED <<acceptorVars, alive, started, numThreads, next, connections, conn, loopOf, queue,
                 stopped, fault>>
-----------------------------------------------------------------------------
(* ~TcpServer() in the base thread                                         *)

\* The connections S in the order of the map, which is that of their names.
inOrder(S) == CHOOSE s \in Bijection(1 .. Cardinality(S), S) : TRUE

\* connectDestroyed() for every connection of the map: at once in the base loop.
destroyServer ==
  LET in(l) == {c \in connections : loopOf[c] = l}
      destroyed(c) == <<"destroyed", c>>
  IN /\ Running /\ alive /\ accepting = "idle" /\ alive' = FALSE
     /\ queue' = [l \in Loops |-> IF l = Base THEN queue[l]
                                  ELSE queue[l] \o inOrder({destroyed(c) : c \in in(l)})]
     /\ conn' = [c \in Clients |-> IF c \in in(Base) THEN "gone" ELSE conn[c]]
     /\ fault' = IF \E c \in in(Base) : conn[c] = "kDisconnecting" THEN "removeAssert" ELSE fault
     /\ connections' = {}
     /\ UNCHANGED <<acceptorVars, started, numThreads, next, loopOf, stopped, peerClosed>>

\* ~EventLoopThread(): quit() and join().  The loop may end before it runs what
\* is queued; a connection that no functor of the base loop holds goes with it.
\* The thread is taken to be in loop(): a quit() that comes before is forgotten and
\* the join does not return, which is the matter of EventLoopThread.
stopLoop(l) ==
  LET held == {c \in Clients : <<"remove", c>> \in Range(queue[Base])}
  IN /\ Running /\ ~alive /\ l \in Pool \ stopped
     /\ stopped' = stopped \cup {l}
     /\ queue' = [queue EXCEPT ![l] = <<>>]
     /\ conn' = [c \in Clients |-> IF conn[c] # "none" /\ loopOf[c] = l /\ c \notin held
                                   THEN "gone" ELSE conn[c]]
     /\ UNCHANGED <<acceptorVars, alive, started, numThreads, next, connections, loopOf, peerClosed,
                    fault>>

\* The pool is gone; ~Acceptor() is last.  Without a listen() its channel had no
\* update before disableAll(): PollPoller then aborts (see Pollers), EPollPoller
\* does not.
endServer ==
  /\ Running /\ ~alive /\ stopped = Pool /\ (listenning \/ idleFd # "none")
  /\ destroyAcceptor /\ UNCHANGED serverVars
-----------------------------------------------------------------------------
(* The loops, the network and the rest of the process                      *)

\* The loop l runs a functor or handles the end of a connection.
LoopStep(l) ==
  \E c \in Clients :
    \/ connectEstablished(l, c) \/ connectDestroyed(l, c)
    \/ l = Base /\ removeConnection(c)
    \/ l = loopOf[c] /\ handleClose(c)
AcceptStep == newConnection \/ handleReadFails
EndStep == endServer \/ \E l \in Loops : stopLoop(l)

Environment ==
  /\ Running
  /\ clientConnects \/ otherOpens(Sockets) \/ otherCloses
  /\ UNCHANGED serverVars

Next ==
  \/ start \/ AcceptStep \/ destroyServer \/ EndStep \/ Environment
  \/ \E n \in ThreadNums : setThreadNum(n)
  \/ \E l \in Loops : LoopStep(l)
  \/ \E c \in Clients : shutdown(c) \/ clientCloses(c)

Spec == Init /\ [][Next]_vars

\* Every loop goes on, and so does the acceptor; the base loop has its turn
\* between two calls of handleRead().
FairSpec ==
  /\ Spec
  /\ WF_vars(AcceptStep) /\ WF_vars(EndStep) /\ SF_vars(LoopStep(Base))
  /\ \A l \in Loops \ {Base} : WF_vars(LoopStep(l))
-----------------------------------------------------------------------------
InQueue(op, c) == {l \in Loops : <<op, c>> \in Range(queue[l])}

\* Until ~TcpServer(), no assertion of the server, its connections or their
\* channels fails, and connections_ holds exactly the connections that are up or
\* on their way out; those it no longer holds have one connectDestroyed() queued,
\* in their own loop.
ConnectionsMatch ==
  alive =>
    /\ fault = "none"
    /\ \A c \in Clients :
         /\ c \in connections <=>
              \/ conn[c] \in {"kConnecting", "kConnected", "kDisconnecting"}
              \/ conn[c] = "kDisconnected" /\ InQueue("remove", c) = {Base}
         /\ InQueue("destroyed", c) =
              IF conn[c] = "kDisconnected" /\ c \notin connections THEN {loopOf[c]} ELSE {}

Assigned(l) == Cardinality({c \in Clients : conn[c] # "none" /\ loopOf[c] = l})

\* New connections are assigned to the threads of the pool in turn: no loop ever
\* got two more than another, and the base loop none.
RoundRobin ==
  started /\ numThreads > 0 =>
    Assigned(Base) = 0 /\ \A k, l \in Pool : Assigned(k) <= Assigned(l) + 1

\* A client that connects is accepted or, when the process has no descriptor
\* left, turned away: it is never left waiting.  Excepted are the case that another
\* thread took the idle descriptor, after which it may wait for ever, and the end
\* of the server.
EveryClientAnswered ==
  \A c \in Clients : Pending(c) ~> ~Pending(c) \/ stolen \/ ~alive \/ ~Running

\* A connection whose client has closed is destroyed, and so is every connection
\* when the server is, however the functors of the loops cross.  ~Running excepts
\* the two ways in which the process may end after ~TcpServer(): a queued
\* removeConnectionInLoop() that uses the destroyed server (deadServer), and
\* connectDestroyed() of a connection in kDisconnecting (removeAssert).
EveryConnectionEnds ==
  \A c \in Clients :
    conn[c] # "none" /\ (c \in peerClosed \/ ~alive) ~> conn[c] = "gone" \/ ~Running
=============================================================================
