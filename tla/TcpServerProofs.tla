--------------------------- MODULE TcpServerProofs ---------------------------
(***************************************************************************)
(* Proofs about TcpServer for any clients, thread numbers and descriptors. *)
(***************************************************************************)
EXTENDS TcpServer, FiniteSetTheorems, TLAPS

Ops == {"established", "remove", "destroyed"}
Functors == Ops \X Clients
States == {"none", "kConnecting", "kConnected", "kDisconnecting", "kDisconnected", "gone"}

\* The functors that the loop l holds when the queues are q, each once.
Held(q, l) == Range(q[l])
Once(q, l) == IsInjective(q[l])

TypeInv ==
  /\ alive \in BOOLEAN /\ started \in BOOLEAN
  /\ numThreads \in ThreadNums \cup {0} /\ next \in Nat
  /\ connections \in SUBSET Clients
  /\ conn \in [Clients -> States] /\ loopOf \in [Clients -> Loops]
  /\ queue \in [Loops -> Seq(Functors)]
  /\ backlog \in Seq(Clients) /\ answered \in SUBSET Clients

\* A client is in the backlog once and before it is answered, only what was
\* answered has a connection, and the EMFILE branch still has its client.
BacklogInv ==
  /\ IsInjective(backlog)
  /\ Range(backlog) \cap answered = {}
  /\ \A c \in Clients : conn[c] # "none" => c \in answered
  /\ alive /\ accepting \in {"close", "accept"} => backlog # <<>>

\* The map and the functors of every loop name connections that were made.
MadeInv ==
  /\ \A c \in connections : conn[c] # "none"
  /\ \A l \in Loops : \A f \in Held(queue, l) : conn[f[2]] # "none"

\* What a queued functor says of its connection.
FunctorInv(l, f) ==
  LET c == f[2]
  IN /\ f[1] = "established" => conn[c] = "kConnecting" /\ l = loopOf[c]
     /\ f[1] = "remove" => conn[c] = "kDisconnected" /\ c \in connections /\ l = Base
     /\ f[1] = "destroyed" => conn[c] = "kDisconnected" /\ c \notin connections /\ l = loopOf[c]

\* What a connection's state says of the map and of the functors.
ConnInv(c) ==
  /\ conn[c] \in {"kConnecting", "kConnected", "kDisconnecting"} => c \in connections
  /\ c \in connections => conn[c] \notin {"none", "gone"}
  /\ conn[c] = "kDisconnected" /\ c \in connections => <<"remove", c>> \in Held(queue, Base)
  /\ conn[c] = "kDisconnected" /\ c \notin connections =>
       <<"destroyed", c>> \in Held(queue, loopOf[c])

\* As long as the server is there, the map, the states and the functors of all
\* loops agree.
MatchInv ==
  /\ fault = "none"
  /\ \A l \in Loops : Once(queue, l)
  /\ \A l \in Loops : \A f \in Held(queue, l) : FunctorInv(l, f)
  /\ \A c \in Clients : ConnInv(c)

\* The first next loops of the pool have one connection more than the others.
TurnInv ==
  /\ ~started => next = 0 /\ ~listenning /\ backlog = <<>> /\ \A c \in Clients : conn[c] = "none"
  /\ started /\ numThreads > 0 =>
       /\ next < numThreads /\ Assigned(Base) = 0
       /\ \E b \in Nat : \A k \in Pool : Assigned(k) = IF k <= next THEN b + 1 ELSE b

IInv == TypeInv /\ BacklogInv /\ MadeInv /\ (alive => MatchInv) /\ TurnInv

-----------------------------------------------------------------------------
(* Sequences as sets *)

\* What Append adds to a queue.
LEMMA AppendRange ==
  ASSUME NEW S, NEW s \in Seq(S), NEW f \in S
  PROVE  /\ Append(s, f) \in Seq(S)
         /\ Range(Append(s, f)) = Range(s) \cup {f}
         /\ IsInjective(s) /\ f \notin Range(s) => IsInjective(Append(s, f))
<1>1. Append(s, f) \in Seq(S) /\ Len(s) \in Nat
  OBVIOUS
<1>2. DOMAIN s = 1 .. Len(s) /\ DOMAIN Append(s, f) = 1 .. Len(s) + 1
  OBVIOUS
<1>3. Append(s, f)[Len(s) + 1] = f /\ \A i \in 1 .. Len(s) : Append(s, f)[i] = s[i]
  OBVIOUS
<1> DEFINE a == Append(s, f)
<1> HIDE DEF a
<1>4. Range(a) = Range(s) \cup {f}
  BY <1>1, <1>2, <1>3, SMTT(30), Z3T(30) DEF Range, a
<1>5. IsInjective(s) /\ f \notin Range(s) => IsInjective(a)
  BY <1>1, <1>2, <1>3, SMTT(30), Z3T(30) DEF Range, IsInjective, a
<1> QED
  BY <1>1, <1>4, <1>5, SMTT(30), Z3T(30) DEF a

\* What Tail leaves of a queue.
LEMMA TailRange ==
  ASSUME NEW S, NEW s \in Seq(S), s # <<>>
  PROVE  /\ Tail(s) \in Seq(S) /\ Head(s) \in S /\ Head(s) \in Range(s)
         /\ Range(Tail(s)) \subseteq Range(s)
         /\ IsInjective(s) => Range(Tail(s)) = Range(s) \ {Head(s)} /\ IsInjective(Tail(s))
<1> DEFINE t == Tail(s)
           n == Len(s)
<1>1. t \in Seq(S) /\ n \in Nat /\ n > 0
  OBVIOUS
<1>2. DOMAIN s = 1 .. n /\ DOMAIN t = 1 .. n - 1
  OBVIOUS
<1>3. Head(s) = s[1] /\ s[1] \in S /\ \A i \in 1 .. n - 1 : t[i] = s[i + 1]
  OBVIOUS
<1> HIDE DEF t, n
<1>4. Head(s) \in Range(s) /\ Range(t) \subseteq Range(s)
  BY <1>1, <1>2, <1>3, SMTT(30), Z3T(30) DEF Range
<1>5. ASSUME IsInjective(s) PROVE Range(t) = Range(s) \ {Head(s)} /\ IsInjective(t)
  <2>1. \A i, j \in 1 .. n : s[i] = s[j] => i = j
    BY <1>2, <1>5 DEF IsInjective
  <2>2. IsInjective(t)
    BY <1>1, <1>2, <1>3, <2>1 DEF IsInjective
  <2>3. \A i \in 1 .. n - 1 : t[i] \in Range(s) /\ t[i] # s[1]
    BY <1>1, <1>2, <1>3, <2>1, SMTT(30), Z3T(30) DEF Range
  <2>4. \A i \in 1 .. n : s[i] # s[1] => i - 1 \in 1 .. n - 1 /\ s[i] = t[i - 1]
    BY <1>1, <1>3
  <2>5. Range(s) \ {s[1]} \subseteq Range(t)
    BY <1>2, <2>4 DEF Range
  <2> QED
    BY <1>2, <1>3, <2>2, <2>3, <2>5, SMTT(30), Z3T(30) DEF Range
<1> QED
  BY <1>1, <1>3, <1>4, <1>5, SMTT(30), Z3T(30) DEF t

\* What \o puts together.
LEMMA ConcatRange ==
  ASSUME NEW S, NEW s \in Seq(S), NEW t \in Seq(S)
  PROVE  s \o t \in Seq(S) /\ Range(s \o t) \subseteq Range(s) \cup Range(t)
<1> DEFINE u == s \o t
           m == Len(s)
           n == Len(t)
<1>1. u \in Seq(S) /\ m \in Nat /\ n \in Nat
  OBVIOUS
<1>2. DOMAIN s = 1 .. m /\ DOMAIN t = 1 .. n /\ DOMAIN u = 1 .. m + n
  OBVIOUS
<1>3. \A i \in 1 .. m + n : u[i] = IF i <= m THEN s[i] ELSE t[i - m]
  OBVIOUS
<1> HIDE DEF u, m, n
<1>4. \A i \in 1 .. m + n : u[i] \in Range(s) \cup Range(t)
  <2> SUFFICES ASSUME NEW i \in 1 .. m + n PROVE u[i] \in Range(s) \cup Range(t)
    OBVIOUS
  <2>1. CASE i <= m
    BY <1>1, <1>2, <1>3, <2>1, SMTT(30), Z3T(30) DEF Range
  <2>2. CASE ~(i <= m)
    <3>1. i - m \in 1 .. n /\ u[i] = t[i - m]
      BY <1>1, <1>3, <2>2, SMTT(30), Z3T(30)
    <3> QED
      BY <1>2, <3>1 DEF Range
  <2> QED
    BY <2>1, <2>2
<1>5. Range(u) \subseteq Range(s) \cup Range(t)
  BY <1>2, <1>4 DEF Range
<1> QED
  BY <1>1, <1>5 DEF u

\* A finite set can be put in order.
LEMMA InOrderIs ==
  ASSUME NEW S, IsFiniteSet(S)
  PROVE  inOrder(S) \in Seq(S) /\ Range(inOrder(S)) \subseteq S
<1> DEFINE n == Cardinality(S)
<1>1. n \in Nat /\ ExistsBijection(1 .. n, S)
  BY FS_CardinalityType
<1>2. inOrder(S) \in [1 .. n -> S]
  BY <1>1 DEF inOrder, ExistsBijection, Bijection, Injection
<1> HIDE DEF n
<1>3. inOrder(S) \in Seq(S) /\ DOMAIN inOrder(S) = 1 .. n
  BY <1>1, <1>2
<1> QED
  BY <1>2, <1>3, SMTT(30), Z3T(30) DEF Range

-----------------------------------------------------------------------------
(* The queues of the loops *)

\* The base loop is one of the loops, and so are those of the pool.
LEMMA LoopsAre ==
  ASSUME TypeInv
  PROVE  /\ Base \in Loops /\ Pool \subseteq Loops /\ Loops \subseteq Nat
         /\ numThreads \in Nat
  BY ServerAssumption, SMTT(30), Z3T(30) DEF TypeInv, Loops, Base, Pool

\* The queues r are the queues q with f put at the end of one, or the first
\* functor of one taken; f is the first of a queue.
Puts(q, r, l, f) == r = [q EXCEPT ![l] = Append(@, f)]
Drops(q, r, l) == r = [q EXCEPT ![l] = Tail(@)]
First(q, l, f) == q[l] # <<>> /\ Head(q[l]) = f

\* Queueing a functor in a loop.
LEMMA QueuedIs ==
  ASSUME NEW q \in [Loops -> Seq(Functors)], NEW l \in Loops, NEW f \in Functors, NEW r,
         Puts(q, r, l, f)
  PROVE  /\ r \in [Loops -> Seq(Functors)]
         /\ \A k \in Loops \ {l} : Held(r, k) = Held(q, k) /\ (Once(q, k) => Once(r, k))
         /\ \A g : g \in Held(r, l) <=> g \in Held(q, l) \/ g = f
         /\ Once(q, l) /\ f \notin Held(q, l) => Once(r, l)
<1>1. r[l] = Append(q[l], f) /\ \A k \in Loops \ {l} : r[k] = q[k]
  BY DEF Puts
<1>2. q[l] \in Seq(Functors)
  OBVIOUS
<1>3. Append(q[l], f) \in Seq(Functors)
  BY <1>2, AppendRange
<1>4. r \in [Loops -> Seq(Functors)]
  BY <1>3 DEF Puts
<1> QED
  BY <1>1, <1>2, <1>4, AppendRange, SMTT(30), Z3T(30) DEF Held, Once

\* Taking the first functor of a loop.
LEMMA TakenIs ==
  ASSUME NEW q \in [Loops -> Seq(Functors)], NEW l \in Loops, NEW f, First(q, l, f),
         NEW r, Drops(q, r, l)
  PROVE  /\ r \in [Loops -> Seq(Functors)]
         /\ \A k \in Loops \ {l} : Held(r, k) = Held(q, k) /\ (Once(q, k) => Once(r, k))
         /\ f \in Functors /\ f \in Held(q, l)
         /\ Held(r, l) \subseteq Held(q, l)
         /\ Once(q, l) =>
              /\ \A g : g \in Held(r, l) <=> g \in Held(q, l) /\ g # f
              /\ Once(r, l)
<1>1. r[l] = Tail(q[l]) /\ \A k \in Loops \ {l} : r[k] = q[k]
  BY DEF Drops
<1>2. q[l] \in Seq(Functors) /\ q[l] # <<>> /\ Head(q[l]) = f
  BY DEF First
<1>3. Tail(q[l]) \in Seq(Functors)
  BY <1>2, TailRange
<1>4. r \in [Loops -> Seq(Functors)]
  BY <1>3 DEF Drops
<1> QED
  BY <1>1, <1>2, <1>4, TailRange DEF Held, Once

\* A functor of a queue is an operation of a connection.
LEMMA FunctorsAre ==
  ASSUME TypeInv, NEW l \in Loops, NEW f \in Held(queue, l)
  PROVE  f[1] \in Ops /\ f[2] \in Clients /\ f = <<f[1], f[2]>>
<1>1. queue[l] \in Seq(Functors)
  BY SMTT(30), Z3T(30) DEF TypeInv
<1>2. f \in Functors
  BY <1>1 DEF Held, Range
<1> QED
  BY <1>2 DEF Functors

-----------------------------------------------------------------------------
(* The steps *)

\* A new server satisfies the invariant.
LEMMA InitInv == Init => IInv
<1> SUFFICES ASSUME Init PROVE IInv
  OBVIOUS
<1>0. Base \in Loops
  BY DEF Base, Loops
<1>1. TypeInv
  <2>1. <<>> \in Seq(Functors) /\ <<>> \in Seq(Clients)
    OBVIOUS
  <2> QED
    BY <1>0, <2>1, Zenon DEF Init, AcceptorInit, TypeInv, States
<1>2. IsInjective(<<>>) /\ Range(<<>>) = {}
  BY DEF IsInjective, Range
<1>3. \A l \in Loops : queue[l] = <<>>
  BY DEF Init
<1>4. BacklogInv /\ MadeInv
  BY <1>2, <1>3 DEF Init, AcceptorInit, BacklogInv, MadeInv, Held
<1>5. MatchInv
  BY <1>2, <1>3, SMTT(30), Z3T(30) DEF Init, MatchInv, ConnInv, Held, Once
<1>6. TurnInv
  BY SMTT(30), Z3T(30) DEF Init, AcceptorInit, TurnInv
<1> QED
  BY <1>1, <1>4, <1>5, <1>6 DEF IInv

\* A step of a loop makes no connection.
LEMMA KeptInv ==
  ASSUME TypeInv, BacklogInv, TurnInv,
         UNCHANGED <<backlog, answered, listenning, accepting, loopOf, numThreads, next, started>>,
         alive' => alive,
         \A c \in Clients : conn'[c] = "none" <=> conn[c] = "none"
  PROVE  BacklogInv' /\ TurnInv'
<1>1. BacklogInv'
  BY DEF BacklogInv
<1>2. \A l : Assigned(l)' = Assigned(l)
  <2> TAKE l
  <2>1. {c \in Clients : conn'[c] # "none" /\ loopOf'[c] = l}
          = {c \in Clients : conn[c] # "none" /\ loopOf[c] = l}
    OBVIOUS
  <2> QED
    BY <2>1 DEF Assigned
<1>3. Pool' = Pool
  BY DEF Pool
<1>4. (~started => next = 0 /\ ~listenning /\ backlog = <<>> /\ \A c \in Clients : conn[c] = "none")'
  BY DEF TurnInv
<1>5. ASSUME started', numThreads' > 0
      PROVE  /\ next' < numThreads' /\ Assigned(Base)' = 0
             /\ \E b \in Nat : \A k \in Pool' : Assigned(k)' = IF k <= next' THEN b + 1 ELSE b
  BY <1>2, <1>3, <1>5, SMTT(30), Z3T(30) DEF TurnInv
<1> QED
  BY <1>1, <1>4, <1>5, SMTT(30), Z3T(30) DEF TurnInv

\* Clients, other code and the acceptor's EMFILE branch leave the server alone.
LEMMA FrameInv ==
  ASSUME IInv, UNCHANGED <<alive, started, numThreads, next, connections, conn, loopOf, queue, fault>>,
         backlog' \in Seq(Clients), answered' \in SUBSET Clients, answered \subseteq answered',
         IsInjective(backlog'), Range(backlog') \cap answered' = {},
         alive /\ accepting' \in {"close", "accept"} => backlog' # <<>>,
         ~started => backlog' = backlog /\ (listenning' => listenning)
  PROVE  IInv'
<1>1. TypeInv'
  BY DEF IInv, TypeInv
<1>2. BacklogInv'
  BY DEF IInv, BacklogInv
<1>3. MadeInv'
  BY SMTT(30), Z3T(30) DEF IInv, MadeInv
<1>4. alive' => MatchInv'
  BY DEF IInv, MatchInv, FunctorInv, ConnInv
<1>5. TurnInv'
  <2>1. \A l : Assigned(l)' = Assigned(l)
    BY DEF Assigned
  <2>2. Pool' = Pool
    BY DEF Pool
  <2> QED
    BY <2>1, <2>2, SMTT(30), Z3T(30) DEF IInv, TurnInv
<1> QED
  BY <1>1, <1>2, <1>3, <1>4, <1>5, SMTT(30), Z3T(30) DEF IInv

\* accept(2) takes a client from the backlog, which then counts as answered.
LEMMA AcceptInv ==
  ASSUME TypeInv, BacklogInv, backlog # <<>>, accept
  PROVE  /\ backlog' \in Seq(Clients) /\ answered' \in SUBSET Clients
         /\ answered \subseteq answered' /\ Head(backlog) \in Clients \ answered
         /\ IsInjective(backlog') /\ Range(backlog') \cap answered' = {}
<1>1. backlog \in Seq(Clients) /\ answered \in SUBSET Clients /\ IsInjective(backlog)
        /\ Range(backlog) \cap answered = {}
  BY DEF TypeInv, BacklogInv
<1>2. /\ Tail(backlog) \in Seq(Clients) /\ Head(backlog) \in Clients /\ Head(backlog) \in Range(backlog)
      /\ Range(Tail(backlog)) = Range(backlog) \ {Head(backlog)} /\ IsInjective(Tail(backlog))
  BY <1>1, TailRange
<1>3. backlog' = Tail(backlog) /\ answered' = answered \cup {Head(backlog)}
  BY SMTT(30), Z3T(30) DEF accept
<1> QED
  BY <1>1, <1>2, <1>3, SMTT(30), Z3T(30)

\* An accept() that fails: the client is gone, or the EMFILE branch.
LEMMA TurnAwayInv ==
  ASSUME IInv, handleReadFails
  PROVE  IInv'
<1> USE DEF IInv
<1>0. UNCHANGED <<alive, started, numThreads, next, connections, conn, loopOf, queue, fault>>
  BY DEF handleReadFails, serverVars
<1>1. (acceptAborted(Sockets) \/ turnAway(Sockets)) /\ alive
  BY ZenonT(60) DEF handleReadFails
<1>2. CASE outOfDescriptors(Sockets) \/ closeIdle \/ closeAgain \/ openIdle(Sockets)
  <2>1. UNCHANGED <<backlog, answered, listenning>>
    BY <1>2 DEF outOfDescriptors, closeIdle, closeAgain, openIdle
  <2>2. accepting' \in {"close", "accept"} => backlog # <<>>
    BY <1>1, <1>2 DEF outOfDescriptors, closeIdle, closeAgain, openIdle, BacklogInv
  <2> QED
    BY <1>0, <2>1, <2>2, FrameInv, SMTT(30), Z3T(30) DEF TypeInv, BacklogInv
<1>3. CASE acceptIdle(Sockets)
  <2>1. backlog # <<>> /\ accepting' = "closeAgain" /\ UNCHANGED listenning
    BY <1>1, <1>3 DEF acceptIdle, BacklogInv
  <2>2. started
    BY <2>1 DEF TurnInv, TypeInv
  <2>3. CASE accept
    BY <1>0, <2>1, <2>2, <2>3, AcceptInv, FrameInv, ZenonT(60)
  <2>4. CASE UNCHANGED <<backlog, answered>>
    BY <1>0, <2>1, <2>4, FrameInv, SMTT(30), Z3T(30) DEF TypeInv, BacklogInv
  <2> QED
    BY <1>3, <2>3, <2>4, SMTT(30), Z3T(30) DEF acceptIdle
<1>4. CASE acceptAborted(Sockets)
  <2>1. backlog # <<>> /\ accept /\ UNCHANGED <<accepting, listenning>>
    BY <1>4 DEF acceptAborted, accepts
  <2>2. started
    BY <2>1 DEF TurnInv, TypeInv
  <2> QED
    BY <1>0, <1>4, <2>1, <2>2, AcceptInv, FrameInv, ZenonT(60) DEF acceptAborted, accepts
<1> QED
  BY <1>1, <1>2, <1>3, <1>4, SMTT(30), Z3T(30) DEF turnAway

\* Clients and other code of the process.
LEMMA EnvironmentInv ==
  ASSUME IInv, Environment
  PROVE  IInv'
<1> USE DEF IInv
<1>0. UNCHANGED <<alive, started, numThreads, next, connections, conn, loopOf, queue, fault>>
  BY Zenon DEF Environment, serverVars
<1>1. CASE clientConnects
  <2>1. PICK c \in Clients : c \notin answered /\ ~Pending(c) /\ backlog' = Append(backlog, c)
    BY <1>1 DEF clientConnects
  <2>2. c \notin Range(backlog)
    BY <2>1 DEF Pending, Range
  <2>3. backlog \in Seq(Clients) /\ IsInjective(backlog)
    BY DEF TypeInv, BacklogInv
  <2>4. backlog' \in Seq(Clients) /\ IsInjective(backlog') /\ Range(backlog') = Range(backlog) \cup {c}
    BY <2>1, <2>2, <2>3, AppendRange, SMTT(30), Z3T(30)
  <2>5. Range(backlog') \cap answered = {} /\ answered' = answered
    BY <1>1, <2>1, <2>4, SMTT(30), Z3T(30) DEF BacklogInv, clientConnects
  <2>6. backlog' # <<>>
    BY <2>1, <2>3, SMTT(30), Z3T(30)
  <2>7. started
    BY <1>1, SMTT(30), Z3T(30) DEF clientConnects, TurnInv, TypeInv
  <2> QED
    BY <1>0, <2>4, <2>5, <2>6, <2>7, FrameInv, SMTT(30), Z3T(30) DEF TypeInv
<1>2. CASE otherOpens(Sockets) \/ otherCloses
  <2>1. UNCHANGED <<backlog, answered, listenning, accepting>>
    BY <1>2 DEF otherOpens, otherCloses
  <2> QED
    BY <1>0, <2>1, FrameInv DEF TypeInv, BacklogInv
<1> QED
  BY <1>1, <1>2 DEF Environment

\* ~Acceptor() and a client that closes
LEMMA EndInv ==
  ASSUME IInv, endServer \/ (\E c \in Clients : clientCloses(c)) \/ UNCHANGED vars
  PROVE  IInv'
<1> USE DEF IInv
<1>0. UNCHANGED <<alive, started, numThreads, next, connections, conn, loopOf, queue, fault>>
  BY Zenon DEF endServer, clientCloses, vars, serverVars
<1>1. CASE endServer
  <2>1. backlog' = <<>> /\ listenning' = FALSE /\ answered' = answered /\ ~alive
    BY <1>1 DEF endServer, destroyAcceptor
  <2>2. backlog' \in Seq(Clients) /\ IsInjective(backlog') /\ Range(backlog') = {}
    BY <2>1 DEF IsInjective, Range
  <2>3. ~started => backlog' = backlog /\ (listenning' => listenning)
    BY <2>1, ZenonT(60) DEF TurnInv
  <2> QED
    BY <1>0, <2>1, <2>2, <2>3, FrameInv, SMTT(30), Z3T(30) DEF TypeInv
<1>2. CASE (\E c \in Clients : clientCloses(c)) \/ UNCHANGED vars
  <2>1. UNCHANGED <<backlog, answered, listenning, accepting>>
    BY <1>2, Zenon DEF clientCloses, vars, acceptorVars
  <2> QED
    BY <1>0, <2>1, FrameInv, SMTT(30), Z3T(30) DEF TypeInv, BacklogInv
<1> QED
  BY <1>1, <1>2

\* setThreadNum() and start(): there is no connection yet.
LEMMA StartInv ==
  ASSUME IInv, start \/ \E n \in ThreadNums : setThreadNum(n)
  PROVE  IInv'
<1> USE DEF IInv
<1>0. /\ ~started /\ UNCHANGED <<alive, next, connections, conn, loopOf, queue, fault>>
      /\ UNCHANGED <<backlog, answered, accepting>>
  BY DEF start, listen, setThreadNum, acceptorVars
<1>1. TypeInv'
  BY <1>0, Zenon DEF TypeInv, start, setThreadNum
<1>2. BacklogInv' /\ MadeInv'
  BY <1>0, SMTT(30), Z3T(30) DEF BacklogInv, MadeInv
<1>3. alive' => MatchInv'
  BY <1>0 DEF MatchInv, FunctorInv, ConnInv
<1>4. TurnInv'
  <2>1. next = 0 /\ \A c \in Clients : conn[c] = "none"
    BY <1>0, SMTT(30), Z3T(30) DEF TurnInv
  <2>2. \A l : Assigned(l)' = 0
    <3> TAKE l
    <3>1. {c \in Clients : conn'[c] # "none" /\ loopOf'[c] = l} = {}
      BY <1>0, <2>1, SMTT(30), Z3T(30)
    <3> QED
      BY <3>1, FS_EmptySet, SMTT(30), Z3T(30) DEF Assigned
  <2>3. numThreads' \in Nat
    BY <1>1, ServerAssumption, SMTT(30), Z3T(30) DEF TypeInv
  <2>4. CASE start
    <3>1. started' /\ next' = 0
      BY <1>0, <2>1, <2>4 DEF start
    <3>2. \A k \in Pool' : Assigned(k)' = IF k <= next' THEN 0 + 1 ELSE 0
      BY <2>2, <2>3, <3>1, SMTT(30), Z3T(30) DEF Pool
    <3> QED
      BY <2>2, <2>3, <3>1, <3>2, SMTT(30), Z3T(30) DEF TurnInv
  <2>5. CASE \E n \in ThreadNums : setThreadNum(n)
    <3>1. ~started' /\ UNCHANGED listenning
      BY <1>0, <2>5, SMTT(30), Z3T(30) DEF setThreadNum, acceptorVars
    <3> QED
      BY <1>0, <3>1, SMTT(30), Z3T(30) DEF TurnInv
  <2> QED
    BY <2>4, <2>5, SMTT(30), Z3T(30)
<1> QED
  BY <1>1, <1>2, <1>3, <1>4, SMTT(30), Z3T(30)

\* getNextLoop() keeps the loops of the pool even when a connection is made in
\* the loop that it returns.
LEMMA NextLoopInv ==
  ASSUME TypeInv, TurnInv, started, NEW c \in Clients, conn[c] = "none",
         NEW l \in Loops, getNextLoop(l), UNCHANGED <<started, numThreads>>,
         loopOf' = [loopOf EXCEPT ![c] = l],
         \A d \in Clients \ {c} : conn'[d] = conn[d], conn'[c] # "none"
  PROVE  TurnInv' /\ next' \in Nat
<1> DEFINE Of(k) == {d \in Clients : conn[d] # "none" /\ loopOf[d] = k}
           OfNext(k) == {d \in Clients : conn'[d] # "none" /\ loopOf'[d] = k}
<1>0. numThreads \in Nat /\ next \in Nat
  BY LoopsAre DEF TypeInv
<1>1. next' \in Nat
  BY <1>0, SMTT(30), Z3T(30) DEF getNextLoop, nextAfter
<1>2. \A k : IsFiniteSet(Of(k)) /\ Cardinality(Of(k)) \in Nat
  BY AcceptorAssumption, FS_Subset, FS_CardinalityType, SMTT(30), Z3T(30)
<1>3. \A k : k # l => OfNext(k) = Of(k)
  BY SMTT(30), Z3T(30) DEF TypeInv
<1>4. OfNext(l) = Of(l) \cup {c} /\ c \notin Of(l)
  BY SMTT(30), Z3T(30) DEF TypeInv
<1>5. \A k : Assigned(k) = Cardinality(Of(k)) /\ Assigned(k)' = Cardinality(OfNext(k))
  BY SMTT(30), Z3T(30) DEF Assigned
<1> HIDE DEF Of, OfNext
<1>6. Cardinality(OfNext(l)) = Cardinality(Of(l)) + 1
  <2>1. IsFiniteSet(Of(l))
    BY <1>2
  <2>2. Cardinality(Of(l) \cup {c}) = Cardinality(Of(l)) + 1
    BY <1>4, <2>1, FS_AddElement, ZenonT(60)
  <2> QED
    BY <1>4, <2>2, SMTT(30), Z3T(30)
<1>7. Assigned(l) \in Nat /\ Assigned(l)' = Assigned(l) + 1 /\ \A k : k # l => Assigned(k)' = Assigned(k)
  BY <1>2, <1>3, <1>5, <1>6, SMTT(30), Z3T(30)
<1>8. ASSUME numThreads > 0
      PROVE  /\ next' < numThreads /\ Assigned(Base)' = 0
             /\ \E b \in Nat : \A k \in Pool : Assigned(k)' = IF k <= next' THEN b + 1 ELSE b
  <2>1. l = next + 1 /\ next' = nextAfter
    BY <1>8, SMTT(30), Z3T(30) DEF getNextLoop
  <2>2. next < numThreads /\ Assigned(Base) = 0
    BY <1>8 DEF TurnInv
  <2>3. PICK b \in Nat : \A k \in Pool : Assigned(k) = IF k <= next THEN b + 1 ELSE b
    BY <1>8, Zenon DEF TurnInv
  <2>4. Assigned(Base)' = 0
    BY <1>0, <1>7, <2>1, <2>2, SMTT(30), Z3T(30) DEF Base
  <2>5. \A k \in Pool : Assigned(k)' = IF k <= next + 1 THEN b + 1 ELSE b
    BY <1>0, <1>7, <2>1, <2>2, <2>3, SMTT(30), Z3T(30) DEF Pool
  <2>6. CASE next + 1 >= numThreads
    <3>1. next' = 0
      BY <2>1, <2>6, SMTT(30), Z3T(30) DEF nextAfter
    <3>2. \A k \in Pool : Assigned(k)' = IF k <= next' THEN (b + 1) + 1 ELSE b + 1
      BY <1>0, <2>2, <2>5, <2>6, <3>1, SMTT(30), Z3T(30) DEF Pool
    <3> QED
      BY <1>0, <1>8, <2>4, <3>1, <3>2, SMTT(30), Z3T(30)
  <2>7. CASE ~(next + 1 >= numThreads)
    <3>1. next' = next + 1 /\ next' < numThreads
      BY <1>0, <2>1, <2>7, SMTT(30), Z3T(30) DEF nextAfter
    <3> QED
      BY <2>4, <2>5, <3>1, SMTT(30), Z3T(30)
  <2> QED
    BY <2>6, <2>7, SMTT(30), Z3T(30)
<1>9. Pool' = Pool
  BY DEF Pool
<1> QED
  BY <1>1, <1>8, <1>9, SMTT(30), Z3T(30) DEF TurnInv

\* A new connection is in the map, and established at once or by a functor.
LEMMA NewConnectionInv ==
  ASSUME IInv, newConnection
  PROVE  IInv'
<1> USE DEF IInv
<1> DEFINE c == Head(backlog)
<1>1. alive /\ backlog # <<>> /\ accept /\ accepting' = "idle"
  BY DEF newConnection, accepts
<1>2. /\ backlog' \in Seq(Clients) /\ answered' \in SUBSET Clients /\ answered \subseteq answered'
      /\ c \in Clients \ answered /\ IsInjective(backlog') /\ Range(backlog') \cap answered' = {}
  BY <1>1, AcceptInv, SMTT(30), Z3T(30)
<1>3. answered' = answered \cup {c} /\ connections' = connections \cup {c}
        /\ UNCHANGED <<alive, started, numThreads, fault, listenning>>
  BY DEF newConnection, accepts, accept
<1>4. PICK l \in Loops :
        /\ getNextLoop(l) /\ loopOf' = [loopOf EXCEPT ![c] = l]
        /\ \/ l = Base /\ conn' = [conn EXCEPT ![c] = "kConnected"] /\ UNCHANGED queue
           \/ /\ l # Base /\ conn' = [conn EXCEPT ![c] = "kConnecting"]
              /\ queue' = Queued(l, <<"established", c>>)
  BY Zenon DEF newConnection
<1> HIDE DEF c
<1>5. c \in Clients /\ conn[c] = "none" /\ started
  BY <1>1, <1>2 DEF BacklogInv, TurnInv, TypeInv
<1>6. /\ conn' \in [Clients -> States] /\ conn'[c] \in {"kConnecting", "kConnected"}
      /\ \A d \in Clients \ {c} : conn'[d] = conn[d]
      /\ loopOf' \in [Clients -> Loops] /\ loopOf'[c] = l
      /\ \A d \in Clients \ {c} : loopOf'[d] = loopOf[d]
  BY <1>4, <1>5, Zenon DEF TypeInv, States
<1>7. \A k \in Loops : \A f \in Held(queue, k) : f[2] \in Clients \ {c} /\ f[1] \in Ops
  BY <1>5, FunctorsAre, SMTT(30), Z3T(30) DEF MadeInv
<1>8. c \notin connections
  BY <1>5 DEF MadeInv
<1>9. TurnInv' /\ next' \in Nat
  BY <1>3, <1>4, <1>5, <1>6, NextLoopInv, ZenonT(60)
<1>10. BacklogInv'
  BY <1>1, <1>2, <1>3, <1>5, <1>6 DEF BacklogInv
<1>11. MatchInv /\ Base \in Loops
  BY <1>1, LoopsAre, Zenon
<1> DEFINE f0 == <<"established", c>>
<1>12. /\ queue' \in [Loops -> Seq(Functors)]
       /\ \A k \in Loops : Once(queue', k)
       /\ \A k \in Loops : Held(queue, k) \subseteq Held(queue', k)
       /\ \A k \in Loops : \A f \in Held(queue', k) :
            \/ f \in Held(queue, k)
            \/ k = l /\ f = f0 /\ conn'[c] = "kConnecting"
  <2>1. CASE UNCHANGED queue
    BY <1>11, <2>1, SMTT(30), Z3T(30) DEF MatchInv, TypeInv
  <2>2. CASE queue' = Queued(l, f0) /\ conn' = [conn EXCEPT ![c] = "kConnecting"]
    <3>0. conn'[c] = "kConnecting"
      BY <1>5, <2>2 DEF TypeInv
    <3>1. f0 \in Functors /\ Puts(queue, queue', l, f0)
      BY <1>5, <2>2 DEF Functors, Ops, Queued, Puts
    <3>2. f0 \notin Held(queue, l)
      BY <1>7, SMTT(30), Z3T(30)
    <3> HIDE DEF f0
    <3>3. /\ queue' \in [Loops -> Seq(Functors)] 
          /\ \A k \in Loops \ {l} : Held(queue', k) = Held(queue, k) /\ (Once(queue, k) => Once(queue', k))
          /\ \A g : g \in Held(queue', l) <=> g \in Held(queue, l) \/ g = f0
          /\ Once(queue, l) /\ f0 \notin Held(queue, l) => Once(queue', l)
      <4>1. queue \in [Loops -> Seq(Functors)]
        BY SMTT(30), Z3T(30) DEF TypeInv
      <4> QED
        BY <3>1, <4>1, QueuedIs
    <3> QED
      BY <1>11, <3>0, <3>2, <3>3, SMTT(30), Z3T(30) DEF MatchInv
  <2> QED
    BY <1>4, <2>1, <2>2, Zenon
<1>13. TypeInv'
  BY <1>2, <1>3, <1>5, <1>6, <1>9, <1>12, SMTT(30), Z3T(30) DEF TypeInv
<1>14. MadeInv'
  BY <1>3, <1>6, <1>7, <1>12, SMTT(30), Z3T(30) DEF MadeInv, TypeInv
<1>15. \A k \in Loops : \A f \in Held(queue', k) : FunctorInv(k, f)'
  <2> SUFFICES ASSUME NEW k \in Loops, NEW f \in Held(queue', k) PROVE FunctorInv(k, f)'
    BY ZenonT(60)
  <2>1. CASE f \in Held(queue, k)
    BY <1>3, <1>6, <1>7, <1>11, <2>1, SMTT(30), Z3T(30) DEF MatchInv, FunctorInv
  <2>2. CASE k = l /\ f = f0 /\ conn'[c] = "kConnecting"
    BY <1>6, <2>2 DEF FunctorInv
  <2> QED
    BY <1>12, <2>1, <2>2, SMTT(30), Z3T(30)
<1>16. \A d \in Clients : ConnInv(d)'
  <2> SUFFICES ASSUME NEW d \in Clients PROVE ConnInv(d)'
    OBVIOUS
  <2>1. CASE d = c
    BY <1>3, <1>6, <2>1, ZenonT(60) DEF ConnInv
  <2>2. CASE d # c
    BY <1>3, <1>6, <1>11, <1>12, <2>2, SMTT(30), Z3T(30) DEF MatchInv, ConnInv, TypeInv
  <2> QED
    BY <2>1, <2>2, SMTT(30), Z3T(30)
<1>17. MatchInv'
  BY <1>3, <1>11, <1>12, <1>15, <1>16, SMTT(30), Z3T(30) DEF MatchInv
<1> QED
  BY <1>9, <1>10, <1>13, <1>14, <1>17, SMTT(30), Z3T(30)

\* A loop takes its next functor.
LEMMA TakesIs ==
  ASSUME TypeInv, MadeInv, NEW l \in Loops, NEW op, NEW c \in Clients, Takes(l, op, c),
         NEW r, Drops(queue, r, l)
  PROVE  /\ r \in [Loops -> Seq(Functors)]
         /\ \A k \in Loops \ {l} : Held(r, k) = Held(queue, k) /\ (Once(queue, k) => Once(r, k))
         /\ <<op, c>> \in Held(queue, l) /\ conn[c] # "none"
         /\ Held(r, l) \subseteq Held(queue, l)
         /\ Once(queue, l) =>
              /\ \A g : g \in Held(r, l) <=> g \in Held(queue, l) /\ g # <<op, c>>
              /\ Once(r, l)
<1>1. queue \in [Loops -> Seq(Functors)]
  BY Zenon DEF TypeInv
<1>2. First(queue, l, <<op, c>>)
  BY DEF Takes, First
<1>3. /\ r \in [Loops -> Seq(Functors)]
      /\ \A k \in Loops \ {l} : Held(r, k) = Held(queue, k) /\ (Once(queue, k) => Once(r, k))
      /\ <<op, c>> \in Held(queue, l)
      /\ Held(r, l) \subseteq Held(queue, l)
      /\ Once(queue, l) =>
           /\ \A g : g \in Held(r, l) <=> g \in Held(queue, l) /\ g # <<op, c>>
           /\ Once(r, l)
  BY <1>1, <1>2, TakenIs, Zenon
<1>4. <<op, c>>[2] = c
  BY Zenon
<1>5. conn[c] # "none"
  BY <1>3, <1>4, SMTT(30), Z3T(30) DEF MadeInv
<1> QED
  BY <1>3, <1>5

\* connectEstablished() finds its connection in kConnecting.
LEMMA EstablishedInv ==
  ASSUME IInv, NEW l \in Loops, NEW c \in Clients, connectEstablished(l, c)
  PROVE  IInv'
<1> USE DEF IInv
<1> DEFINE f0 == <<"established", c>>
<1>1. /\ Takes(l, "established", c) /\ Drops(queue, queue', l)
      /\ conn' = [conn EXCEPT ![c] = "kConnected"]
      /\ fault' = IF conn[c] = "kConnecting" THEN fault ELSE "establishedAssert"
      /\ UNCHANGED <<backlog, answered, listenning, accepting>>
      /\ UNCHANGED <<alive, started, numThreads, next, connections, loopOf>>
  BY ZenonT(60) DEF connectEstablished, Drops, acceptorVars
<1>2. /\ queue' \in [Loops -> Seq(Functors)]
      /\ \A k \in Loops \ {l} : Held(queue', k) = Held(queue, k) /\ (Once(queue, k) => Once(queue', k))
      /\ f0 \in Held(queue, l) /\ conn[c] # "none"
      /\ Held(queue', l) \subseteq Held(queue, l)
      /\ Once(queue, l) =>
           /\ \A g : g \in Held(queue', l) <=> g \in Held(queue, l) /\ g # f0
           /\ Once(queue', l)
  BY <1>1, TakesIs, SMTT(30), Z3T(30)
<1>3. conn' \in [Clients -> States] /\ conn'[c] = "kConnected" /\ \A d \in Clients \ {c} : conn'[d] = conn[d]
  BY <1>1 DEF TypeInv, States
<1>4. TypeInv'
  BY <1>1, <1>2, <1>3, Zenon DEF TypeInv
<1>5. \A d \in Clients : conn'[d] = "none" <=> conn[d] = "none"
  BY <1>2, <1>3, SMTT(30), Z3T(30)
<1>6. BacklogInv' /\ TurnInv'
  BY <1>1, <1>5, KeptInv, SMTT(30), Z3T(30)
<1>7. \A k \in Loops : Held(queue', k) \subseteq Held(queue, k)
  BY <1>2
<1>8. MadeInv'
  BY <1>1, <1>5, <1>7, FunctorsAre, ZenonT(60) DEF MadeInv, TypeInv
<1>9. ASSUME alive' PROVE MatchInv'
  <2>1. MatchInv
    BY <1>1, <1>9
  <2>2. f0[1] = "established" /\ f0[2] = c
    BY ZenonT(60)
  <2>3. conn[c] = "kConnecting" /\ l = loopOf[c] /\ Once(queue, l)
    BY <1>2, <2>1, <2>2 DEF MatchInv, FunctorInv
  <2>4. c \in connections
    BY <2>1, <2>3, Zenon DEF MatchInv, ConnInv
  <2>5. \A k \in Loops : \A f \in Held(queue', k) : f \in Held(queue, k) /\ f # f0 /\ f[2] # c
    <3> SUFFICES ASSUME NEW k \in Loops, NEW f \in Held(queue', k)
                 PROVE  f \in Held(queue, k) /\ f # f0 /\ f[2] # c
      OBVIOUS
    <3>1. f \in Held(queue, k) /\ f[1] \in Ops /\ f = <<f[1], f[2]>>
      BY <1>7, FunctorsAre, SMTT(30), Z3T(30)
    <3>2. FunctorInv(k, f)
      BY <2>1, <3>1 DEF MatchInv
    <3>3. k = l => f # f0
      BY <1>2, <2>3, ZenonT(60)
    <3> QED
      BY <2>3, <3>1, <3>2, <3>3, SMTT(30), Z3T(30) DEF FunctorInv, Ops
  <2>6. \A k \in Loops : \A f \in Held(queue', k) : FunctorInv(k, f)'
    <3>1. \A k \in Loops : \A f \in Held(queue', k) : FunctorInv(k, f)
      BY <2>1, <2>5, ZenonT(60) DEF MatchInv
    <3> QED
      BY <1>1, <1>3, <2>1, <2>5, <3>1, FunctorsAre, SMTT(30), Z3T(30) DEF FunctorInv
  <2>7. \A k \in Loops : \A g : g \in Held(queue, k) /\ g # f0 => g \in Held(queue', k)
    BY <1>2, <2>3
  <2>8. \A d \in Clients : ConnInv(d)'
    <3> SUFFICES ASSUME NEW d \in Clients PROVE ConnInv(d)'
      OBVIOUS
    <3>1. CASE d = c
      BY <1>1, <1>3, <2>4, <3>1, ZenonT(60) DEF ConnInv
    <3>2. CASE d # c
      <4>1. ConnInv(d) /\ loopOf[d] \in Loops /\ Base \in Loops
        BY <2>1, LoopsAre, SMTT(30), Z3T(30) DEF MatchInv, TypeInv
      <4> QED
        BY <1>1, <1>3, <2>7, <3>2, <4>1, SMTT(30), Z3T(30) DEF ConnInv
    <3> QED
      BY <3>1, <3>2
  <2> QED
    BY <1>1, <1>2, <2>1, <2>3, <2>6, <2>8, SMTT(30), Z3T(30) DEF MatchInv
<1> QED
  BY <1>4, <1>6, <1>8, <1>9, SMTT(30), Z3T(30)

\* connectDestroyed() finds its connection in kDisconnected and out of the map.
LEMMA DestroyedInv ==
  ASSUME IInv, NEW l \in Loops, NEW c \in Clients, connectDestroyed(l, c)
  PROVE  IInv'
<1> USE DEF IInv
<1> DEFINE f0 == <<"destroyed", c>>
<1>1. /\ Takes(l, "destroyed", c) /\ Drops(queue, queue', l)
      /\ conn' = [conn EXCEPT ![c] = "gone"]
      /\ UNCHANGED <<backlog, answered, listenning, accepting>>
      /\ UNCHANGED <<alive, started, numThreads, next, connections, loopOf>>
  BY SMTT(30), Z3T(30) DEF connectDestroyed, Drops, acceptorVars
<1>2. /\ queue' \in [Loops -> Seq(Functors)]
      /\ \A k \in Loops \ {l} : Held(queue', k) = Held(queue, k) /\ (Once(queue, k) => Once(queue', k))
      /\ f0 \in Held(queue, l) /\ conn[c] # "none"
      /\ Held(queue', l) \subseteq Held(queue, l)
      /\ Once(queue, l) =>
           /\ \A g : g \in Held(queue', l) <=> g \in Held(queue, l) /\ g # f0
           /\ Once(queue', l)
  BY <1>1, TakesIs, SMTT(30), Z3T(30)
<1>3. conn' \in [Clients -> States] /\ conn'[c] = "gone" /\ \A d \in Clients \ {c} : conn'[d] = conn[d]
  BY <1>1 DEF TypeInv, States
<1>4. TypeInv'
  BY <1>1, <1>2, <1>3, Zenon DEF TypeInv
<1>5. \A d \in Clients : conn'[d] = "none" <=> conn[d] = "none"
  BY <1>2, <1>3, SMTT(30), Z3T(30)
<1>6. BacklogInv' /\ TurnInv'
  BY <1>1, <1>5, KeptInv, SMTT(30), Z3T(30)
<1>7. \A k \in Loops : Held(queue', k) \subseteq Held(queue, k)
  BY <1>2, SMTT(30), Z3T(30)
<1>8. MadeInv'
  BY <1>1, <1>5, <1>7, FunctorsAre, SMTT(30), Z3T(30) DEF MadeInv, TypeInv
<1>9. ASSUME alive' PROVE MatchInv'
  <2>1. MatchInv
    BY <1>1, <1>9, SMTT(30), Z3T(30)
  <2>2. f0[1] = "destroyed" /\ f0[2] = c
    BY ZenonT(60)
  <2>3. conn[c] = "kDisconnected" /\ c \notin connections /\ l = loopOf[c] /\ Once(queue, l)
    BY <1>2, <2>1, <2>2, SMTT(30), Z3T(30) DEF MatchInv, FunctorInv
  <2>4. fault' = "none"
    BY <2>1, <2>3, SMTT(30), Z3T(30) DEF connectDestroyed, MatchInv
  <2>5. \A k \in Loops : \A f \in Held(queue', k) : f \in Held(queue, k) /\ f[2] # c
    <3> SUFFICES ASSUME NEW k \in Loops, NEW f \in Held(queue', k)
                 PROVE  f \in Held(queue, k) /\ f[2] # c
      BY Zenon
    <3>1. f \in Held(queue, k) /\ f[1] \in Ops /\ f = <<f[1], f[2]>>
      BY <1>7, FunctorsAre
    <3>2. FunctorInv(k, f)
      BY <2>1, <3>1 DEF MatchInv
    <3>3. k = l => f # f0
      BY <1>2, <2>3, ZenonT(60)
    <3> QED
      BY <2>3, <3>1, <3>2, <3>3, SMTT(30), Z3T(30) DEF FunctorInv, Ops
  <2>6. \A k \in Loops : \A f \in Held(queue', k) : FunctorInv(k, f)'
    <3>1. \A k \in Loops : \A f \in Held(queue', k) : FunctorInv(k, f)
      BY <2>1, <2>5, Zenon DEF MatchInv
    <3> QED
      BY <1>1, <1>3, <2>1, <2>5, <3>1, FunctorsAre, SMTT(30), Z3T(30) DEF FunctorInv
  <2>7. \A k \in Loops : \A g : g \in Held(queue, k) /\ g # f0 => g \in Held(queue', k)
    BY <1>2, <2>3, Zenon
  <2>8. \A d \in Clients : ConnInv(d)'
    <3> SUFFICES ASSUME NEW d \in Clients PROVE ConnInv(d)'
      OBVIOUS
    <3>1. CASE d = c
      BY <1>1, <1>3, <2>3, <3>1, ZenonT(60) DEF ConnInv
    <3>2. CASE d # c
      <4>1. ConnInv(d) /\ loopOf[d] \in Loops /\ Base \in Loops
        BY <2>1, LoopsAre DEF MatchInv, TypeInv
      <4> QED
        BY <1>1, <1>3, <2>7, <3>2, <4>1, SMTT(30), Z3T(30) DEF ConnInv
    <3> QED
      BY <3>1, <3>2
  <2> QED
    BY <1>2, <2>1, <2>3, <2>4, <2>6, <2>8, ZenonT(60) DEF MatchInv
<1> QED
  BY <1>4, <1>6, <1>8, <1>9

\* No functor is queued for a connection that is up.
LEMMA UpHasNone ==
  ASSUME TypeInv, MatchInv, NEW c \in Clients, conn[c] \in {"kConnected", "kDisconnecting"}
  PROVE  c \in connections /\ \A k \in Loops : \A f \in Held(queue, k) : f[2] # c
  BY FunctorsAre, ZenonT(60) DEF MatchInv, FunctorInv, ConnInv, Ops

\* shutdown() of a connection that is up.
LEMMA ShutdownInv ==
  ASSUME IInv, NEW c \in Clients, shutdown(c)
  PROVE  IInv'
<1> USE DEF IInv
<1>1. /\ conn[c] = "kConnected" /\ conn' = [conn EXCEPT ![c] = "kDisconnecting"]
      /\ UNCHANGED <<backlog, answered, listenning, accepting>>
      /\ UNCHANGED <<alive, started, numThreads, next, connections, loopOf, queue, fault>>
  BY DEF shutdown, acceptorVars
<1>2. conn' \in [Clients -> States] /\ conn'[c] = "kDisconnecting"
        /\ \A d \in Clients \ {c} : conn'[d] = conn[d]
  BY <1>1, ZenonT(60) DEF TypeInv, States
<1>3. TypeInv'
  BY <1>1, <1>2, SMTT(30), Z3T(30) DEF TypeInv
<1>4. \A d \in Clients : conn'[d] = "none" <=> conn[d] = "none"
  BY <1>1, <1>2, SMTT(30), Z3T(30)
<1>5. BacklogInv' /\ TurnInv'
  BY <1>1, <1>4, KeptInv, SMTT(30), Z3T(30)
<1>6. MadeInv'
  BY <1>1, <1>4, FunctorsAre, SMTT(30), Z3T(30) DEF MadeInv, TypeInv
<1>7. ASSUME alive' PROVE MatchInv'
  <2>1. MatchInv
    BY <1>1, <1>7
  <2>2. c \in connections /\ \A k \in Loops : \A f \in Held(queue, k) : f[2] # c
    BY <1>1, <2>1, UpHasNone, ZenonT(60)
  <2>3. \A k \in Loops : \A f \in Held(queue, k) : FunctorInv(k, f)'
    BY <1>1, <1>2, <2>1, <2>2, FunctorsAre, SMTT(30), Z3T(30) DEF MatchInv, FunctorInv
  <2>4. \A d \in Clients : ConnInv(d)'
    BY <1>1, <1>2, <2>1, <2>2, Zenon DEF MatchInv, ConnInv
  <2> QED
    BY <1>1, <2>1, <2>3, <2>4, SMTT(30), Z3T(30) DEF MatchInv
<1> QED
  BY <1>3, <1>5, <1>6, <1>7, SMTT(30), Z3T(30)

\* handleClose(): the connection is in kDisconnected, and either still in the map
\* with its removal queued, or out of it with its connectDestroyed() queued.
LEMMA CloseInv ==
  ASSUME IInv, NEW c \in Clients, handleClose(c)
  PROVE  IInv'
<1> USE DEF IInv
<1>0. loopOf[c] \in Loops /\ Base \in Loops /\ queue \in [Loops -> Seq(Functors)]
  BY LoopsAre DEF TypeInv
<1>1. /\ conn[c] \in {"kConnected", "kDisconnecting"} /\ conn' = [conn EXCEPT ![c] = "kDisconnected"]
      /\ UNCHANGED <<backlog, answered, listenning, accepting>>
      /\ UNCHANGED <<alive, started, numThreads, next, loopOf>>
  BY Zenon DEF handleClose, acceptorVars
<1>2. conn' \in [Clients -> States] /\ conn'[c] = "kDisconnected"
        /\ \A d \in Clients \ {c} : conn'[d] = conn[d]
  BY <1>1, SMTT(30), Z3T(30) DEF TypeInv, States
<1>3. \A d \in Clients : conn'[d] = "none" <=> conn[d] = "none"
  BY <1>1, <1>2, SMTT(30), Z3T(30)
<1>4. BacklogInv' /\ TurnInv'
  BY <1>1, <1>3, KeptInv, SMTT(30), Z3T(30)
<1>5. \E l \in Loops, op \in Ops :
        /\ Puts(queue, queue', l, <<op, c>>)
        /\ \/ op = "destroyed" /\ l = loopOf[c] /\ connections' = connections \ {c}
           \/ op = "remove" /\ l = Base /\ UNCHANGED connections
        /\ alive /\ c \in connections => UNCHANGED fault
  <2>1. CASE loopOf[c] = Base /\ removeConnectionInLoop(c, queue)
    <3>1. Puts(queue, queue', loopOf[c], <<"destroyed", c>>)
      BY <2>1, SMTT(30), Z3T(30) DEF removeConnectionInLoop, destroyIn, Puts
    <3>2. connections' = connections \ {c} /\ (alive /\ c \in connections => fault' = fault)
      BY <2>1, SMTT(30), Z3T(30) DEF removeConnectionInLoop
    <3> QED
      BY <1>0, <3>1, <3>2, SMTT(30), Z3T(30) DEF Ops
  <2>2. CASE queue' = Queued(Base, <<"remove", c>>) /\ UNCHANGED <<connections, fault>>
    <3>1. Puts(queue, queue', Base, <<"remove", c>>)
      BY <2>2, SMTT(30), Z3T(30) DEF Queued, Puts
    <3> QED
      BY <1>0, <2>2, <3>1, SMTT(30), Z3T(30) DEF Ops
  <2> QED
    BY <2>1, <2>2, ZenonT(60) DEF handleClose
<1>6. PICK l \in Loops, op \in Ops :
        /\ Puts(queue, queue', l, <<op, c>>)
        /\ \/ op = "destroyed" /\ l = loopOf[c] /\ connections' = connections \ {c}
           \/ op = "remove" /\ l = Base /\ UNCHANGED connections
        /\ alive /\ c \in connections => UNCHANGED fault
  BY <1>5
<1> DEFINE f0 == <<op, c>>
<1>7. f0 \in Functors /\ f0[1] = op /\ f0[2] = c
  BY Zenon DEF Functors
<1> HIDE DEF f0
<1>8. /\ queue' \in [Loops -> Seq(Functors)]
      /\ \A k \in Loops \ {l} : Held(queue', k) = Held(queue, k) /\ (Once(queue, k) => Once(queue', k))
      /\ \A g : g \in Held(queue', l) <=> g \in Held(queue, l) \/ g = f0
      /\ Once(queue, l) /\ f0 \notin Held(queue, l) => Once(queue', l)
  <2>1. Puts(queue, queue', l, f0)
    BY <1>6, Zenon DEF f0
  <2> QED
    BY <1>0, <1>7, <2>1, QueuedIs, Zenon
<1>9. TypeInv'
  BY <1>1, <1>2, <1>6, <1>8, ZenonT(60) DEF TypeInv
<1>10. \A k \in Loops : \A f \in Held(queue', k) : f \in Held(queue, k) \/ (k = l /\ f = f0)
  BY <1>8
<1>11. MadeInv'
  <2>1. \A k \in Loops : \A f \in Held(queue', k) : conn'[f[2]] # "none"
    BY <1>2, <1>3, <1>7, <1>10, FunctorsAre, ZenonT(60) DEF MadeInv
  <2> QED
    BY <1>3, <1>6, <2>1, Zenon DEF MadeInv, TypeInv
<1>12. ASSUME alive' PROVE MatchInv'
  <2>1. MatchInv
    BY <1>1, <1>12
  <2>2. c \in connections /\ \A k \in Loops : \A f \in Held(queue, k) : f[2] # c
    BY <1>1, <2>1, UpHasNone, Zenon
  <2>3. fault' = "none"
    BY <1>1, <1>6, <1>12, <2>1, <2>2, ZenonT(60) DEF MatchInv
  <2>4. \A k \in Loops : Once(queue', k)
    BY <1>7, <1>8, <2>1, <2>2, SMTT(30), Z3T(30) DEF MatchInv
  <2>5. \A k \in Loops : \A f \in Held(queue', k) : FunctorInv(k, f)'
    <3> SUFFICES ASSUME NEW k \in Loops, NEW f \in Held(queue', k) PROVE FunctorInv(k, f)'
      BY ZenonT(60)
    <3>1. CASE f \in Held(queue, k)
      <4>1. FunctorInv(k, f) /\ f[2] \in Clients \ {c}
        BY <2>1, <2>2, <3>1, FunctorsAre, ZenonT(60) DEF MatchInv
      <4> QED
        BY <1>1, <1>2, <1>6, <4>1, SMTT(30), Z3T(30) DEF FunctorInv
    <3>2. CASE k = l /\ f = f0
      BY <1>1, <1>2, <1>6, <1>7, <2>2, <3>2, SMTT(30), Z3T(30) DEF FunctorInv
    <3> QED
      BY <1>10, <3>1, <3>2, SMTT(30), Z3T(30)
  <2>6. \A k \in Loops : \A g \in Held(queue, k) : g \in Held(queue', k)
    BY <1>8, SMTT(30), Z3T(30)
  <2>7. \A d \in Clients : ConnInv(d)'
    <3> SUFFICES ASSUME NEW d \in Clients PROVE ConnInv(d)'
      BY ZenonT(60)
    <3>1. CASE d = c
      <4>1. f0 \in Held(queue', l)
        BY <1>8, ZenonT(60)
      <4> QED
        BY <1>1, <1>2, <1>6, <2>2, <3>1, <4>1, SMTT(30), Z3T(30) DEF ConnInv, f0
    <3>2. CASE d # c
      <4>1. ConnInv(d) /\ loopOf[d] \in Loops
        BY <2>1, SMTT(30), Z3T(30) DEF MatchInv, TypeInv
      <4> QED
        BY <1>0, <1>1, <1>2, <1>6, <2>6, <3>2, <4>1, SMTT(30), Z3T(30) DEF ConnInv
    <3> QED
      BY <3>1, <3>2, SMTT(30), Z3T(30)
  <2> QED
    BY <2>3, <2>4, <2>5, <2>7, SMTT(30), Z3T(30) DEF MatchInv
<1> QED
  BY <1>4, <1>9, <1>11, <1>12, SMTT(30), Z3T(30)

\* removeConnectionInLoop() erases one connection and queues its end.
LEMMA RemoveInv ==
  ASSUME IInv, NEW c \in Clients, removeConnection(c)
  PROVE  IInv'
<1> USE DEF IInv
<1> DEFINE q == [queue EXCEPT ![Base] = Tail(@)]
           g0 == <<"remove", c>>
           f0 == <<"destroyed", c>>
           l == loopOf[c]
<1>0. l \in Loops /\ Base \in Loops
  BY LoopsAre, SMTT(30), Z3T(30) DEF TypeInv
<1>1. /\ Takes(Base, "remove", c) /\ Drops(queue, q, Base) /\ Puts(q, queue', l, f0)
      /\ connections' = connections \ {c}
      /\ (alive /\ c \in connections => fault' = fault)
      /\ UNCHANGED <<backlog, answered, listenning, accepting>>
      /\ UNCHANGED <<alive, started, numThreads, next, conn, loopOf>>
  BY DEF removeConnection, removeConnectionInLoop, destroyIn, Drops, Puts, acceptorVars
<1>2. f0 \in Functors /\ f0[1] = "destroyed" /\ f0[2] = c /\ g0[1] = "remove" /\ g0[2] = c /\ f0 # g0
  BY Zenon DEF Functors, Ops
<1> HIDE DEF q, f0, l
<1>3. /\ q \in [Loops -> Seq(Functors)]
      /\ \A k \in Loops \ {Base} : Held(q, k) = Held(queue, k) /\ (Once(queue, k) => Once(q, k))
      /\ g0 \in Held(queue, Base) /\ conn[c] # "none"
      /\ Held(q, Base) \subseteq Held(queue, Base)
      /\ Once(queue, Base) =>
           /\ \A g : g \in Held(q, Base) <=> g \in Held(queue, Base) /\ g # g0
           /\ Once(q, Base)
  BY <1>0, <1>1, TakesIs, Zenon
<1>4. /\ queue' \in [Loops -> Seq(Functors)]
      /\ \A k \in Loops \ {l} : Held(queue', k) = Held(q, k) /\ (Once(q, k) => Once(queue', k))
      /\ \A g : g \in Held(queue', l) <=> g \in Held(q, l) \/ g = f0
      /\ Once(q, l) /\ f0 \notin Held(q, l) => Once(queue', l)
  BY <1>0, <1>1, <1>2, <1>3, QueuedIs, ZenonT(60)
<1> HIDE DEF g0
<1>5. TypeInv'
  BY <1>1, <1>4, SMTT(30), Z3T(30) DEF TypeInv
<1>6. BacklogInv' /\ TurnInv'
  BY <1>1, KeptInv, SMTT(30), Z3T(30)
<1>7. \A k \in Loops : \A f \in Held(queue', k) : f \in Held(q, k) \/ (k = l /\ f = f0)
  BY <1>4, SMTT(30), Z3T(30)
<1>8. \A k \in Loops : Held(q, k) \subseteq Held(queue, k)
  BY <1>3, SMTT(30), Z3T(30)
<1>9. MadeInv'
  BY <1>1, <1>2, <1>3, <1>7, <1>8, SMTT(30), Z3T(30) DEF MadeInv
<1>10. ASSUME alive' PROVE MatchInv'
  <2>1. MatchInv
    BY <1>1, <1>10, SMTT(30), Z3T(30)
  <2>2. conn[c] = "kDisconnected" /\ c \in connections /\ Once(queue, Base)
    BY <1>0, <1>2, <1>3, <2>1, ZenonT(60) DEF MatchInv, FunctorInv
  <2>3. fault' = "none"
    BY <1>1, <1>10, <2>1, <2>2, SMTT(30), Z3T(30) DEF MatchInv
  <2>4. \A k \in Loops : \A f \in Held(q, k) : f[2] # c
    <3> SUFFICES ASSUME NEW k \in Loops, NEW f \in Held(q, k) PROVE f[2] # c
      BY SMTT(30), Z3T(30)
    <3>1. f \in Held(queue, k) /\ f[1] \in Ops /\ f = <<f[1], f[2]>>
      BY <1>8, FunctorsAre, SMTT(30), Z3T(30)
    <3>2. FunctorInv(k, f)
      BY <2>1, <3>1, SMTT(30), Z3T(30) DEF MatchInv
    <3>3. k = Base => f # g0
      BY <1>3, <2>2
    <3> QED
      BY <2>2, <3>1, <3>2, <3>3, SMTT(30), Z3T(30) DEF FunctorInv, Ops, g0
  <2>5. \A k \in Loops : Once(queue', k)
    <3>1. \A k \in Loops : Once(q, k)
      BY <1>3, <2>1, SMTT(30), Z3T(30) DEF MatchInv
    <3> QED
      BY <1>0, <1>2, <1>4, <2>4, <3>1, ZenonT(30)
  <2>6. \A k \in Loops : \A f \in Held(queue', k) : FunctorInv(k, f)'
    <3> SUFFICES ASSUME NEW k \in Loops, NEW f \in Held(queue', k) PROVE FunctorInv(k, f)'
      BY ZenonT(60)
    <3>1. CASE f \in Held(q, k)
      <4>1. FunctorInv(k, f) /\ f[2] # c
        BY <1>8, <2>1, <2>4, <3>1, Zenon DEF MatchInv
      <4> QED
        BY <1>1, <4>1 DEF FunctorInv
    <3>2. CASE k = l /\ f = f0
      BY <1>1, <1>2, <2>2, <3>2, ZenonT(60) DEF FunctorInv, l
    <3> QED
      BY <1>7, <3>1, <3>2
  <2>7. \A k \in Loops : \A g \in Held(queue, k) : g # g0 => g \in Held(queue', k)
    BY <1>3, <1>4, <2>2, SMTT(30), Z3T(30)
  <2>8. \A d \in Clients : ConnInv(d)'
    <3> SUFFICES ASSUME NEW d \in Clients PROVE ConnInv(d)'
      BY Zenon
    <3>1. CASE d = c
      <4>1. f0 \in Held(queue', l)
        BY <1>4
      <4> QED
        BY <1>1, <2>2, <3>1, <4>1, ZenonT(60) DEF ConnInv, f0, l
    <3>2. CASE d # c
      <4>1. ConnInv(d) /\ loopOf[d] \in Loops
        BY <2>1 DEF MatchInv, TypeInv
      <4>2. <<"remove", d>> # g0 /\ <<"destroyed", d>> # g0
        BY <3>2 DEF g0
      <4> QED
        BY <1>0, <1>1, <2>7, <3>2, <4>1, <4>2, ZenonT(60) DEF ConnInv
    <3> QED
      BY <3>1, <3>2
  <2> QED
    BY <2>3, <2>5, <2>6, <2>8, SMTT(30), Z3T(30) DEF MatchInv
<1> QED
  BY <1>5, <1>6, <1>9, <1>10

\* ~TcpServer() queues connectDestroyed() for connections that were made.
LEMMA DestroyServerInv ==
  ASSUME IInv, destroyServer
  PROVE  IInv'
<1> USE DEF IInv
<1> DEFINE in(l) == {c \in connections : loopOf[c] = l}
           S(l) == {<<"destroyed", c>> : c \in in(l)}
<1>1. /\ alive' = FALSE /\ connections' = {}
      /\ queue' = [l \in Loops |-> IF l = Base THEN queue[l] ELSE queue[l] \o inOrder(S(l))]
      /\ conn' = [c \in Clients |-> IF c \in in(Base) THEN "gone" ELSE conn[c]]
      /\ UNCHANGED <<backlog, answered, listenning, accepting>>
      /\ UNCHANGED <<started, numThreads, next, loopOf>>
  BY Zenon DEF destroyServer, acceptorVars
<1>2. \A c \in connections : conn[c] # "none" /\ c \in Clients
  BY ZenonT(60) DEF MadeInv, TypeInv
<1>3. conn' \in [Clients -> States] /\ \A c \in Clients : conn'[c] = "none" <=> conn[c] = "none"
  BY <1>1, <1>2 DEF TypeInv, States
<1>4. ASSUME NEW l \in Loops
      PROVE  /\ queue'[l] \in Seq(Functors)
             /\ \A f \in Held(queue', l) : f \in Held(queue, l) \/ f \in S(l)
  <2>1. IsFiniteSet(S(l)) /\ S(l) \subseteq Functors
    <3>1. S(l) \subseteq {"destroyed"} \X Clients
      BY <1>2
    <3>2. IsFiniteSet({"destroyed"} \X Clients)
      BY AcceptorAssumption, FS_Singleton, FS_Product, Zenon
    <3> QED
      BY <3>1, <3>2, FS_Subset, SMTT(30), Z3T(30) DEF Functors, Ops
  <2> HIDE DEF S
  <2>2. inOrder(S(l)) \in Seq(Functors) /\ Range(inOrder(S(l))) \subseteq S(l)
    <3>1. inOrder(S(l)) \in Seq(S(l)) /\ Range(inOrder(S(l))) \subseteq S(l)
      BY <2>1, InOrderIs, SMTT(30), Z3T(30)
    <3> QED
      BY <2>1, <3>1, SMTT(30), Z3T(30)
  <2>3. queue[l] \in Seq(Functors)
    BY DEF TypeInv
  <2>4. CASE l = Base
    BY <1>1, <2>3, <2>4, ZenonT(60) DEF Held
  <2>5. CASE l # Base
    <3>1. queue'[l] = queue[l] \o inOrder(S(l))
      BY <1>1, <2>5, ZenonT(60)
    <3>2. queue'[l] \in Seq(Functors) /\ Range(queue'[l]) \subseteq Range(queue[l]) \cup Range(inOrder(S(l)))
      BY <2>2, <2>3, <3>1, ConcatRange, SMTT(30), Z3T(30)
    <3> QED
      BY <2>2, <3>2, SMTT(30), Z3T(30) DEF Held
  <2> QED
    BY <2>4, <2>5, ZenonT(60)
<1>5. TypeInv'
  <2>1. queue' \in [Loops -> Seq(Functors)]
    BY <1>1, <1>4, Zenon
  <2> QED
    BY <1>1, <1>3, <2>1, Zenon DEF TypeInv
<1>6. BacklogInv' /\ TurnInv'
  BY <1>1, <1>3, KeptInv, Zenon
<1>7. MadeInv'
  <2>1. ASSUME NEW l \in Loops, NEW f \in Held(queue', l) PROVE conn'[f[2]] # "none"
    <3>1. CASE f \in Held(queue, l)
      BY <1>3, <3>1, FunctorsAre, SMTT(30), Z3T(30) DEF MadeInv
    <3>2. CASE f \in S(l)
      BY <1>2, <1>3, <3>2, SMTT(30), Z3T(30)
    <3> QED
      BY <1>4, <3>1, <3>2, SMTT(30), Z3T(30)
  <2> QED
    BY <1>1, <2>1, ZenonT(60) DEF MadeInv
<1> QED
  BY <1>1, <1>5, <1>6, <1>7, Zenon

\* A loop that ends drops its functors and forgets no connection's loop.
LEMMA StopLoopInv ==
  ASSUME IInv, NEW l \in Loops, stopLoop(l)
  PROVE  IInv'
<1> USE DEF IInv
<1>1. /\ ~alive /\ queue' = [queue EXCEPT ![l] = <<>>]
      /\ UNCHANGED <<backlog, answered, listenning, accepting>>
      /\ UNCHANGED <<alive, started, numThreads, next, connections, loopOf>>
  BY SMTT(30), Z3T(30) DEF stopLoop, acceptorVars
<1>2. conn' \in [Clients -> States] /\ \A c \in Clients : conn'[c] = "none" <=> conn[c] = "none"
  BY DEF stopLoop, TypeInv, States
<1>3. queue' \in [Loops -> Seq(Functors)] /\ \A k \in Loops : Held(queue', k) \subseteq Held(queue, k)
  <2>1. <<>> \in Seq(Functors) /\ queue \in [Loops -> Seq(Functors)]
    BY SMTT(30), Z3T(30) DEF TypeInv
  <2>2. queue'[l] = <<>> /\ \A k \in Loops \ {l} : queue'[k] = queue[k]
    BY <1>1, <2>1, SMTT(30), Z3T(30)
  <2>3. Range(<<>>) = {}
    BY SMTT(30), Z3T(30) DEF Range
  <2>4. \A k \in Loops : Held(queue', k) \subseteq Held(queue, k)
    BY <2>2, <2>3, SMTT(30), Z3T(30) DEF Held
  <2> QED
    BY <1>1, <2>1, <2>4, Zenon
<1>4. TypeInv'
  BY <1>1, <1>2, <1>3, ZenonT(60) DEF TypeInv
<1>5. BacklogInv' /\ TurnInv'
  BY <1>1, <1>2, KeptInv, SMTT(30), Z3T(30)
<1>6. MadeInv'
  BY <1>1, <1>2, <1>3, FunctorsAre, ZenonT(60) DEF MadeInv, TypeInv
<1> QED
  BY <1>1, <1>4, <1>5, <1>6, ZenonT(60)

\* Every step keeps the invariant.
LEMMA NextInv == IInv /\ [Next]_vars => IInv'
<1> SUFFICES ASSUME IInv, [Next]_vars PROVE IInv'
  OBVIOUS
<1>1. CASE start \/ \E n \in ThreadNums : setThreadNum(n)
  BY <1>1, StartInv
<1>2. CASE AcceptStep
  BY <1>2, NewConnectionInv, TurnAwayInv, SMTT(30), Z3T(30) DEF AcceptStep
<1>3. CASE destroyServer
  BY <1>3, DestroyServerInv, SMTT(30), Z3T(30)
<1>4. CASE EndStep
  BY <1>4, EndInv, StopLoopInv, SMTT(30), Z3T(30) DEF EndStep
<1>5. CASE Environment
  BY <1>5, EnvironmentInv
<1>6. CASE \E l \in Loops : LoopStep(l)
  BY <1>6, EstablishedInv, DestroyedInv, RemoveInv, CloseInv, SMTT(30), Z3T(30) DEF LoopStep
<1>7. CASE \E c \in Clients : shutdown(c) \/ clientCloses(c)
  BY <1>7, ShutdownInv, EndInv, SMTT(30), Z3T(30)
<1>8. CASE UNCHANGED vars
  BY <1>8, EndInv
<1> QED
  BY <1>1, <1>2, <1>3, <1>4, <1>5, <1>6, <1>7, <1>8, SMTT(30), Z3T(30) DEF Next

\* The invariant holds in every state of the server.
LEMMA Invariant == Spec => []IInv
  BY InitInv, NextInv, PTL DEF Spec

-----------------------------------------------------------------------------
\* Until ~TcpServer(), connections_, the states and the functors queued in all
\* loops agree and no assertion fails (removeConnectionInLoop,
\* connectEstablished, connectDestroyed).
THEOREM MapMatchesConnections == Spec => []ConnectionsMatch
<1>1. ASSUME IInv, alive PROVE ConnectionsMatch
  <2>0. TypeInv /\ MadeInv /\ MatchInv /\ Base \in Loops
    BY <1>1, LoopsAre, SMTT(30), Z3T(30) DEF IInv
  <2>1. \A op, c : \A l \in Loops : l \in InQueue(op, c) <=> <<op, c>> \in Held(queue, l)
    BY DEF InQueue, Held
  <2>2. fault = "none"
    BY <2>0, SMTT(30), Z3T(30) DEF MatchInv
  <2>3. ASSUME NEW c \in Clients
        PROVE  /\ c \in connections <=>
                    \/ conn[c] \in {"kConnecting", "kConnected", "kDisconnecting"}
                    \/ conn[c] = "kDisconnected" /\ InQueue("remove", c) = {Base}
               /\ InQueue("destroyed", c) =
                    IF conn[c] = "kDisconnected" /\ c \notin connections THEN {loopOf[c]} ELSE {}
    <3>1. ConnInv(c) /\ conn[c] \in States /\ loopOf[c] \in Loops
      BY <2>0 DEF MatchInv, TypeInv
    <3>2. \A l \in Loops : \A op \in Ops : <<op, c>> \in Held(queue, l) => FunctorInv(l, <<op, c>>)
      BY <2>0, Zenon DEF MatchInv
    <3>3. \A l \in Loops : <<"remove", c>> \in Held(queue, l) => l = Base /\ c \in connections
      BY <3>2, SMTT(30), Z3T(30) DEF FunctorInv, Ops
    <3>4. \A l \in Loops : <<"destroyed", c>> \in Held(queue, l) =>
            l = loopOf[c] /\ conn[c] = "kDisconnected" /\ c \notin connections
      BY <3>2 DEF FunctorInv, Ops
    <3>5. InQueue("remove", c) \subseteq Loops /\ InQueue("destroyed", c) \subseteq Loops
      BY Zenon DEF InQueue
    <3>6. conn[c] = "kDisconnected" => (c \in connections <=> InQueue("remove", c) = {Base})
      BY <2>0, <2>1, <3>1, <3>3, <3>5, Zenon DEF ConnInv
    <3>7. c \in connections <=>
            \/ conn[c] \in {"kConnecting", "kConnected", "kDisconnecting"}
            \/ conn[c] = "kDisconnected" /\ InQueue("remove", c) = {Base}
      BY <3>1, <3>6, Zenon DEF ConnInv, States
    <3>8. InQueue("destroyed", c) =
            IF conn[c] = "kDisconnected" /\ c \notin connections THEN {loopOf[c]} ELSE {}
      BY <2>1, <3>1, <3>4, <3>5, ZenonT(60) DEF ConnInv
    <3> QED
      BY <3>7, <3>8, SMTT(30), Z3T(30)
  <2> QED
    BY <2>2, <2>3 DEF ConnectionsMatch
<1>2. IInv => ConnectionsMatch
  BY <1>1, SMTT(30), Z3T(30) DEF ConnectionsMatch
<1> QED
  BY <1>2, Invariant, PTL

\* getNextLoop() deals the connections out evenly over the threads of the pool,
\* for any number of threads and connections.
THEOREM PoolInTurn == Spec => []RoundRobin
<1>1. ASSUME IInv, started, numThreads > 0
      PROVE  Assigned(Base) = 0 /\ \A k, l \in Pool : Assigned(k) <= Assigned(l) + 1
  <2>1. Assigned(Base) = 0
    BY <1>1, SMTT(30), Z3T(30) DEF IInv, TurnInv
  <2>2. PICK b \in Nat : \A k \in Pool : Assigned(k) = IF k <= next THEN b + 1 ELSE b
    BY <1>1 DEF IInv, TurnInv
  <2> QED
    BY <2>1, <2>2, SMTT(30), Z3T(30)
<1>2. IInv => RoundRobin
  BY <1>1 DEF RoundRobin
<1> QED
  BY <1>2, Invariant, PTL
=============================================================================
