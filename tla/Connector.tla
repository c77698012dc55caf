------------------------------ MODULE Connector ------------------------------
(***************************************************************************)
(* muduo::net::Connector: opens a socket, waits until it is writable, and  *)
(* tries again after a growing delay.  Its operations, all of which run in *)
(* the loop thread, are given here; TcpClient calls them.                  *)
(*                                                                         *)
(* A descriptor is a number, and a new socket gets the lowest free one.    *)
(* An assertion that fails sets fault.                                     *)
(***************************************************************************)
EXTENDS Integers, Sequences, FiniteSets, FiniteSetsExt

CONSTANTS Fds,                  \* the descriptors, positive numbers
          kInitRetryDelay, kMaxRetryDelay

ASSUME DelayAssumption ==
  kInitRetryDelay \in Nat \ {0} /\ kMaxRetryDelay \in Nat /\ kInitRetryDelay <= kMaxRetryDelay
ASSUME SocketAssumption == Fds \subseteq Nat \ {0} /\ IsFiniteSet(Fds)

VARIABLES
  connect_,                     \* connect_
  state,                        \* state_
  channel,                      \* channel_: its descriptor, 0 for a null pointer
  watched,                      \* is channel_ in the Poller?
  retryDelay,                   \* retryDelayMs_
  timers,                       \* retry timers that have not fired
  open,                         \* kernel: the open sockets
  queue,                        \* pendingFunctors_ of the loop
  gaveUp,                       \* history: connect(2) failed for good
  fault                         \* has an assertion failed?

connectorVars == <<connect_, state, channel, watched, retryDelay, timers, open, queue, gaveUp, fault>>

ConnectorInit ==
  /\ connect_ = FALSE /\ state = "kDisconnected" /\ channel = 0 /\ watched = FALSE
  /\ retryDelay = kInitRetryDelay /\ timers = 0 /\ open = {} /\ queue = <<>>
  /\ gaveUp = FALSE /\ fault = FALSE

\* Mutant: no timer is set.
retryNever(sockets, delay, pending, wanted) ==
  /\ open' = sockets /\ state' = "kDisconnected"
  /\ timers' = pending /\ retryDelay' = delay

\* retry(sockfd) when connect_ is "wanted": the socket is closed, which leaves
\* "sockets" open, and a timer for startInLoop joins the "pending" ones.
retry(sockets, delay, pending, wanted) ==
  /\ open' = sockets
  /\ state' = "kDisconnected"
  /\ timers' = IF wanted THEN pending + 1 ELSE pending
  /\ retryDelay' = IF wanted THEN Min({2 * delay, kMaxRetryDelay}) ELSE delay

\* connecting(sockfd).  "ok" stands for the assertions that came before.
connecting(delay, pending, ok) ==
  LET sockfd == Min(Fds \ open)
  IN /\ state' = "kConnecting"
     /\ fault' = ~(ok /\ channel = 0)
     /\ channel' = sockfd /\ watched' = TRUE
     /\ open' = open \cup {sockfd}
     /\ retryDelay' = delay /\ timers' = pending
     /\ UNCHANGED gaveUp

\* connect(): the socket connects, connect(2) fails and is tried again later, or
\* it fails with an error that retrying does not help.  There is a free
\* descriptor: createNonblockingOrDie() ends the process otherwise.
connect(delay, pending, ok) ==
  /\ open # Fds
  /\ \/ connecting(delay, pending, ok)
     \/ /\ retry(open, delay, pending, TRUE)
        /\ fault' = ~ok
        /\ UNCHANGED <<channel, watched, gaveUp>>
     \/ /\ gaveUp' = TRUE
        /\ state' = "kDisconnected" /\ retryDelay' = delay /\ timers' = pending
        /\ fault' = ~ok
        /\ UNCHANGED <<channel, watched, open>>

\* startInLoop()
startInLoop(pending) ==
  \/ connect_ /\ connect(retryDelay, pending, state = "kDisconnected")
  \/ /\ ~connect_
     /\ fault' = (state # "kDisconnected")
     /\ timers' = pending
     /\ UNCHANGED <<state, channel, watched, retryDelay, open, gaveUp>>

\* removeAndResetChannel(): channel_ is reset by a functor.
removeAndResetChannel ==
  /\ watched' = FALSE
  /\ queue' = Append(queue, <<"resetChannel", 0>>)
  /\ UNCHANGED channel

\* stopInLoop()
stopInLoop ==
  \/ /\ state = "kConnecting"
     /\ removeAndResetChannel
     /\ retry(open \ {channel}, retryDelay, timers, connect_)
     /\ UNCHANGED <<gaveUp, fault>>
  \/ /\ state # "kConnecting"
     /\ UNCHANGED <<state, channel, watched, retryDelay, timers, open, queue, gaveUp, fault>>

\* resetChannel()
resetChannel ==
  /\ channel' = 0
  /\ UNCHANGED <<state, watched, retryDelay, timers, open, queue, gaveUp, fault>>

\* handleError(), and handleWrite() on a socket with an error or connected to
\* itself.  After POLLERR handleWrite() may follow and finds kDisconnected.
connectFails ==
  /\ state = "kConnecting"
  /\ removeAndResetChannel
  /\ retry(open \ {channel}, retryDelay, timers, connect_)
  /\ UNCHANGED <<connect_, gaveUp, fault>>

\* Mutant: the socket nobody wants any more stays open.
connectSucceedsLeaks(wanted) ==
  /\ state = "kConnecting"
  /\ removeAndResetChannel
  /\ state' = "kConnected"
  /\ connect_ = wanted
  /\ UNCHANGED <<connect_, open, retryDelay, timers, gaveUp, fault>>

\* handleWrite() on a connected socket; wanted or closed
connectSucceeds(wanted) ==
  /\ state = "kConnecting"
  /\ removeAndResetChannel
  /\ state' = "kConnected"
  /\ connect_ = wanted
  /\ open' = IF wanted THEN open ELSE open \ {channel}
  /\ UNCHANGED <<connect_, retryDelay, timers, gaveUp, fault>>

\* restart()
restart ==
  /\ connect_' = TRUE
  /\ connect(kInitRetryDelay, timers, TRUE)
=============================================================================
