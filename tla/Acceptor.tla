------------------------------ MODULE Acceptor ------------------------------
(***************************************************************************)
(* muduo::net::Acceptor: the listening socket with its backlog, and the    *)
(* idle descriptor that is given up for a moment, when the process is out  *)
(* of descriptors, to take a client from the backlog and close it.  The    *)
(* four system calls of that are four steps: another thread may open or    *)
(* close a descriptor in between.                                          *)
(***************************************************************************)
EXTENDS Integers, Sequences, FiniteSets

CONSTANTS Clients,
          MaxDescriptors,       \* descriptors for connections, idleFd_ and others
          MaxOthers             \* bound: descriptors other code of the process opens

ASSUME AcceptorAssumption ==
  IsFiniteSet(Clients) /\ MaxDescriptors \in Nat \ {0} /\ MaxOthers \in Nat

VARIABLES
  listenning,                   \* listenning_
  backlog,                      \* clients the kernel has not given to accept() yet
  answered,                     \* clients accepted, or closed or gone before they were
  idleFd,                       \* "open", "none" (-1), or the client it was accepted for
  accepting,                    \* the next step of handleRead(), or "idle"
  others,                       \* descriptors other code of the process has open
  stolen                        \* history: another thread opened one in handleRead()

acceptorVars == <<listenning, backlog, answered, idleFd, accepting, others, stolen>>

AcceptorInit ==
  /\ listenning = FALSE /\ backlog = <<>> /\ answered = {} /\ idleFd = "open"
  /\ accepting = "idle" /\ others = 0 /\ stolen = FALSE

\* Is there a free descriptor, when n connections have one?
Available(n) == n + others + (IF idleFd = "none" THEN 0 ELSE 1) < MaxDescriptors

Pending(c) == \E i \in DOMAIN backlog : backlog[i] = c

listen == listenning' = TRUE /\ UNCHANGED <<backlog, answered, idleFd, accepting, others, stolen>>

\* accept(2) gives the first client of the backlog.
accept ==
  /\ answered' = answered \cup {Head(backlog)}
  /\ backlog' = Tail(backlog)

\* handleRead() gets a connection; the caller creates it.
accepts(n) ==
  /\ accepting = "idle" /\ backlog # <<>> /\ Available(n)
  /\ accept
  /\ UNCHANGED <<listenning, idleFd, accepting, others, stolen>>

\* accept() fails because the client is no longer there (ECONNABORTED, EPROTO): it
\* leaves the backlog as in accepts, but the caller creates nothing.  EAGAIN, EINTR and EPERM change
\* nothing, and all but EMFILE of the others end the process.
acceptAborted(n) == accepts(n)

\* handleRead() when accept() fails with EMFILE
outOfDescriptors(n) ==
  /\ accepting = "idle" /\ backlog # <<>> /\ ~Available(n)
  /\ accepting' = "close"
  /\ UNCHANGED <<listenning, backlog, answered, idleFd, others, stolen>>

closeIdle ==
  /\ accepting = "close"
  /\ idleFd' = "none" /\ accepting' = "accept"
  /\ UNCHANGED <<listenning, backlog, answered, others, stolen>>

\* idleFd_ = accept(): fails when another thread was faster.
acceptIdle(n) ==
  /\ accepting = "accept" /\ accepting' = "closeAgain"
  /\ \/ Available(n) /\ accept /\ idleFd' = "client"
     \/ ~Available(n) /\ UNCHANGED <<backlog, answered, idleFd>>
  /\ UNCHANGED <<listenning, others, stolen>>

closeAgain ==
  /\ accepting = "closeAgain"
  /\ idleFd' = "none" /\ accepting' = "open"
  /\ UNCHANGED <<listenning, backlog, answered, others, stolen>>

\* idleFd_ = open("/dev/null"): its result is not looked at.
openIdle(n) ==
  /\ accepting = "open" /\ accepting' = "idle"
  /\ idleFd' = IF Available(n) THEN "open" ELSE "none"
  /\ UNCHANGED <<listenning, backlog, answered, others, stolen>>

\* Mutant: an error of accept() is ignored.
turnAwayNever(n) == FALSE

\* The EMFILE branch, one system call after the other.
turnAway(n) == outOfDescriptors(n) \/ closeIdle \/ acceptIdle(n) \/ closeAgain \/ openIdle(n)

\* A client connects once, and only to a socket that listens.
clientConnects ==
  /\ listenning
  /\ \E c \in Clients : /\ c \notin answered /\ ~Pending(c)
                        /\ backlog' = Append(backlog, c)
  /\ UNCHANGED <<listenning, answered, idleFd, accepting, others, stolen>>

\* Other code of the process opens and closes files.
otherOpens(n) ==
  /\ others < MaxOthers /\ Available(n)
  /\ others' = others + 1 /\ stolen' = (stolen \/ accepting # "idle")
  /\ UNCHANGED <<listenning, backlog, answered, idleFd, accepting>>

otherCloses ==
  /\ others > 0 /\ others' = others - 1
  /\ UNCHANGED <<listenning, backlog, answered, idleFd, accepting, stolen>>

\* ~Acceptor(): clients that were not accepted are reset.
destroyAcceptor ==
  /\ listenning' = FALSE /\ backlog' = <<>> /\ idleFd' = "none"
  /\ UNCHANGED <<answered, accepting, others, stolen>>

=============================================================================
