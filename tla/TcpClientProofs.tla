--------------------------- MODULE TcpClientProofs ---------------------------
(***************************************************************************)
(* Proofs about TcpClient and its Connector for any descriptors and delays *)
(* of the retries.                                                         *)
(***************************************************************************)
EXTENDS TcpClient, FiniteSetTheorems, WellFoundedInduction, TLAPS

-----------------------------------------------------------------------------
(* Counting in a queue *)

Places(q, f) == {i \in 1 .. Len(q) : q[i] = f}

\* How often f is in the queue q.
N(q, f) == Cardinality(Places(q, f))

One(b) == IF b THEN 1 ELSE 0

\* A queue is finite, so what is in it is counted by a number.
LEMMA CountType ==
  ASSUME NEW S, NEW q \in Seq(S), NEW f
  PROVE  /\ IsFiniteSet(Places(q, f)) /\ N(q, f) \in Nat
         /\ N(q, f) = 0 <=> \A i \in 1 .. Len(q) : q[i] # f
<1>0. Len(q) \in Nat
  OBVIOUS
<1>1. IsFiniteSet(1 .. Len(q))
  BY <1>0, FS_Interval
<1>2. Places(q, f) \in SUBSET (1 .. Len(q))
  BY DEF Places
<1>3. IsFiniteSet(Places(q, f))
  BY <1>1, <1>2, FS_Subset
<1>4. N(q, f) \in Nat
  BY <1>3, FS_CardinalityType DEF N
<1>5. N(q, f) = 0 <=> Places(q, f) = {}
  BY <1>3, FS_EmptySet DEF N
<1> QED
  BY <1>3, <1>4, <1>5 DEF Places

\* Nothing is in the empty queue.
LEMMA CountNone == \A f : N(<<>>, f) = 0
<1> SUFFICES ASSUME NEW f PROVE N(<<>>, f) = 0
  OBVIOUS
<1>1. Places(<<>>, f) = {}
  BY DEF Places
<1> QED
  BY <1>1, FS_EmptySet DEF N

\* queueInLoop() adds one.
LEMMA CountAppend ==
  ASSUME NEW S, NEW q \in Seq(S), NEW x \in S, NEW f
  PROVE  N(Append(q, x), f) = N(q, f) + One(x = f)
<1>0. Len(q) \in Nat /\ IsFiniteSet(Places(q, f)) /\ N(q, f) \in Nat
  BY CountType
<1>1. Len(Append(q, x)) = Len(q) + 1
  OBVIOUS
<1>2. \A i \in 1 .. Len(q) : Append(q, x)[i] = q[i]
  OBVIOUS
<1>3. Append(q, x)[Len(q) + 1] = x
  OBVIOUS
<1> DEFINE p == Places(q, f)
           n == Len(q) + 1
<1>4. CASE x = f
  <2>1. Places(Append(q, x), f) = p \cup {n}
    BY <1>0, <1>1, <1>2, <1>3, <1>4, SMTT(30), Z3T(30) DEF Places
  <2>2. n \notin p
    BY <1>0 DEF Places
  <2>3. IsFiniteSet(p)
    BY <1>0
  <2> HIDE DEF p, n
  <2>4. Cardinality(p \cup {n}) = Cardinality(p) + 1
    BY <2>2, <2>3, FS_AddElement, Zenon
  <2> QED
    BY <1>4, <2>1, <2>4 DEF N, One, p
<1>5. CASE x # f
  <2>1. Places(Append(q, x), f) = p
    BY <1>0, <1>1, <1>2, <1>3, <1>5 DEF Places
  <2> QED
    BY <1>0, <1>5, <2>1 DEF N, One
<1> QED
  BY <1>4, <1>5

\* doPendingFunctors() takes the first one off.
LEMMA CountTail ==
  ASSUME NEW S, NEW q \in Seq(S), q # <<>>, NEW f
  PROVE  N(q, f) = N(Tail(q), f) + One(Head(q) = f)
<1>0. Len(q) \in Nat \ {0} /\ Tail(q) \in Seq(S) /\ Len(Tail(q)) = Len(q) - 1 /\ Head(q) = q[1]
  OBVIOUS
<1>1. \A i \in 1 .. Len(q) - 1 : Tail(q)[i] = q[i + 1]
  OBVIOUS
<1> DEFINE t == Places(Tail(q), f)
           p == Places(q, f)
           g == [i \in t |-> i + 1]
<1>2. IsFiniteSet(t) /\ Cardinality(t) \in Nat /\ IsFiniteSet(p) /\ Cardinality(p) \in Nat
  BY <1>0, CountType, Zenon DEF N
<1>3. g \in [t -> p \ {1}]
  <2> SUFFICES ASSUME NEW i \in t PROVE i + 1 \in p \ {1}
    OBVIOUS
  <2>1. i \in 1 .. Len(q) - 1 /\ Tail(q)[i] = f
    BY <1>0 DEF Places
  <2>2. q[i + 1] = f /\ i + 1 \in 1 .. Len(q) /\ i + 1 # 1
    BY <1>0, <1>1, <2>1
  <2> QED
    BY <2>2 DEF Places
<1>4. \A j \in p \ {1} : \E i \in t : g[i] = j
  <2> SUFFICES ASSUME NEW j \in p \ {1} PROVE \E i \in t : g[i] = j
    OBVIOUS
  <2>1. j \in 1 .. Len(q) /\ q[j] = f /\ j # 1
    BY DEF Places
  <2>2. j - 1 \in 1 .. Len(q) - 1 /\ (j - 1) + 1 = j
    BY <1>0, <2>1
  <2>3. j - 1 \in t
    BY <1>0, <1>1, <2>1, <2>2, SMTT(30), Z3T(30) DEF Places
  <2> QED
    BY <2>2, <2>3
<1>5. t \subseteq Int
  BY DEF Places
<1>6. \A i, j \in t : g[i] = g[j] => i = j
  BY <1>5
<1>7. g \in Bijection(t, p \ {1})
  BY <1>3, <1>4, <1>6 DEF Bijection, Injection, Surjection, IsInjective
<1>8. Cardinality(p \ {1}) = Cardinality(t)
  BY <1>2, <1>7, FS_Bijection DEF ExistsBijection
<1>9. 1 \in p <=> Head(q) = f
  BY <1>0 DEF Places
<1> HIDE DEF p, t
<1>10. Cardinality(p \ {1}) = IF 1 \in p THEN Cardinality(p) - 1 ELSE Cardinality(p)
  BY <1>2, FS_RemoveElement, Zenon
<1>11. Cardinality(p) = Cardinality(t) + One(Head(q) = f)
  BY <1>2, <1>8, <1>9, <1>10 DEF One
<1> QED
  BY <1>11 DEF N, p, t

\* A set of numbers that is not empty has a least one.
LEMMA LeastIsIn ==
  ASSUME NEW S \in SUBSET Nat, S # {}
  PROVE  Min(S) \in S
<1> DEFINE R == {p \in Nat \X Nat : p[1] < p[2]}
<1>1. IsWellFoundedOn(R, Nat)
  BY NatLessThanWellFounded DEF OpToRel
<1>2. \E x \in S : \A y \in S : ~(<<y, x>> \in R)
  BY <1>1, WFMin, Zenon
<1>3. \A x, y \in S : ~(<<y, x>> \in R) => x =< y
  OBVIOUS
<1>4. \E x \in S : \A y \in S : x =< y
  BY <1>2, <1>3, Zenon
<1> QED
  BY <1>4, Zenon DEF Min
-----------------------------------------------------------------------------
(* The functors *)

Start == <<"startInLoop", 0>>
Stop == <<"stopInLoop", 0>>
Reset == <<"resetChannel", 0>>
Destroy(fd) == <<"connectDestroyed", fd>>
ForceClose(fd) == <<"forceCloseInLoop", fd>>

Posted == {Start, Stop}
Functor == {Start, Stop, Reset} \cup {Destroy(fd) : fd \in Fds} \cup {ForceClose(fd) : fd \in Fds}

\* Different functors are told apart.
LEMMA FunctorsDiffer ==
  /\ Start # Stop /\ Start # Reset /\ Stop # Reset
  /\ \A fd : /\ Start # Destroy(fd) /\ Stop # Destroy(fd) /\ Reset # Destroy(fd)
             /\ Start # ForceClose(fd) /\ Stop # ForceClose(fd) /\ Reset # ForceClose(fd)
  /\ \A fd, g : Destroy(fd) # ForceClose(g) /\ (Destroy(fd) = Destroy(g) => fd = g)
                /\ (ForceClose(fd) = ForceClose(g) => fd = g)
  /\ Start \in Functor /\ Stop \in Functor /\ Reset \in Functor
  /\ \A fd \in Fds : Destroy(fd) \in Functor /\ ForceClose(fd) \in Functor
  /\ Start \in Posted /\ Stop \in Posted /\ Posted \subseteq Functor
  BY DEF Start, Stop, Reset, Destroy, ForceClose, Functor, Posted

\* The first component names the functor.
LEMMA FunctorNames ==
  ASSUME NEW f \in Functor
  PROVE  /\ f[1] = "startInLoop" <=> f = Start
         /\ f[1] = "stopInLoop" <=> f = Stop
         /\ f[1] = "resetChannel" <=> f = Reset
         /\ f[1] = "connectDestroyed" => f[2] \in Fds /\ f = Destroy(f[2])
         /\ f[1] = "forceCloseInLoop" => f[2] \in Fds /\ f = ForceClose(f[2])
  BY DEF Start, Stop, Reset, Destroy, ForceClose, Functor

\* What a queue holds once a functor is added.
LEMMA AddIs ==
  ASSUME NEW S, NEW q \in Seq(S), NEW x \in S
  PROVE  /\ Append(q, x) \in Seq(S) /\ Range(Append(q, x)) = Range(q) \cup {x}
         /\ N(Append(q, x), x) = N(q, x) + 1
         /\ \A f : f # x => N(Append(q, x), f) = N(q, f)
         /\ \A f : N(q, f) \in Nat /\ N(Append(q, x), f) \in Nat
<1>1. Append(q, x) \in Seq(S)
  OBVIOUS
<1>2. \A f : N(q, f) \in Nat /\ N(Append(q, x), f) \in Nat
  BY <1>1, CountType, Zenon
<1>3. \A f : N(Append(q, x), f) = N(q, f) + One(x = f)
  BY CountAppend
<1>4. Range(Append(q, x)) = Range(q) \cup {x}
  <2>1. Len(q) \in Nat /\ DOMAIN q = 1 .. Len(q) /\ DOMAIN Append(q, x) = 1 .. Len(q) + 1
    OBVIOUS
  <2>2. \A i \in 1 .. Len(q) : Append(q, x)[i] = q[i]
    OBVIOUS
  <2>3. Append(q, x)[Len(q) + 1] = x
    OBVIOUS
  <2>4. 1 .. Len(q) + 1 = (1 .. Len(q)) \cup {Len(q) + 1}
    BY <2>1
  <2> QED
    BY <2>1, <2>2, <2>3, <2>4, ZenonT(60) DEF Range
<1>5. \A f : f # x => N(Append(q, x), f) = N(q, f)
  BY <1>2, <1>3 DEF One
<1>6. N(Append(q, x), x) = N(q, x) + 1
  BY <1>3 DEF One
<1> QED
  BY <1>1, <1>2, <1>4, <1>5, <1>6

\* What a queue holds once its first functor is taken off.
LEMMA TakeIs ==
  ASSUME NEW S, NEW q \in Seq(S), q # <<>>
  PROVE  /\ Tail(q) \in Seq(S) /\ Range(Tail(q)) \subseteq Range(q)
         /\ Head(q) \in S /\ Head(q) \in Range(q)
         /\ N(q, Head(q)) = N(Tail(q), Head(q)) + 1
         /\ \A f : f # Head(q) => N(Tail(q), f) = N(q, f)
         /\ \A f : N(q, f) \in Nat /\ N(Tail(q), f) \in Nat
<1>1. Tail(q) \in Seq(S) /\ Head(q) \in S /\ Head(q) = q[1] /\ 1 \in DOMAIN q
  OBVIOUS
<1>2. \A f : N(q, f) \in Nat /\ N(Tail(q), f) \in Nat
  BY <1>1, CountType, Zenon
<1>3. \A f : N(q, f) = N(Tail(q), f) + One(Head(q) = f)
  BY CountTail
<1>4. Range(Tail(q)) \subseteq Range(q)
  <2> SUFFICES ASSUME NEW i \in DOMAIN Tail(q) PROVE \E j \in DOMAIN q : q[j] = Tail(q)[i]
    BY DEF Range
  <2>1. i + 1 \in DOMAIN q /\ q[i + 1] = Tail(q)[i]
    OBVIOUS
  <2> QED
    BY <2>1
<1>5. Head(q) \in Range(q)
  BY <1>1 DEF Range
<1>6. \A f : f # Head(q) => N(Tail(q), f) = N(q, f)
  BY <1>2, <1>3 DEF One
<1>7. N(q, Head(q)) = N(Tail(q), Head(q)) + 1
  BY <1>3 DEF One
<1> QED
  BY <1>1, <1>2, <1>4, <1>5, <1>6, <1>7
-----------------------------------------------------------------------------
(* The inductive invariant *)

TypeInv ==
  /\ connect_ \in BOOLEAN /\ clientConnect \in BOOLEAN /\ alive \in BOOLEAN /\ fault \in BOOLEAN
  /\ stopped \in BOOLEAN /\ late \in BOOLEAN /\ overtaken \in BOOLEAN
  /\ state \in {"kDisconnected", "kConnecting", "kConnected"}
  /\ channel \in Fds \cup {0} /\ connection \in Fds \cup {0} /\ timers \in Nat
  /\ queue \in Seq(Functor) /\ batch \in Seq(Functor) /\ posting \in Seq(Posted)
  /\ phase \in {"poll", "events", "restart", "functors"}
  /\ connState \in [Fds -> {"none", "kConnected", "kDisconnecting", "kDisconnected"}]
  /\ closeCallback \in [Fds -> {"client", "detail"}]

\* What a place in the loop's iteration says.
PhaseInv ==
  /\ phase # "functors" => batch = <<>>
  /\ phase \in {"poll", "functors"} => active = {}
  /\ phase = "restart" => connection = 0 /\ channel = 0 /\ alive /\ ("stop" \in called => overtaken)

Starts == N(posting, Start) + N(queue, Start) + N(batch, Start)
Restarting == connection # 0 \/ phase = "restart"
Attempts == Starts + timers + One(state = "kConnecting") + One(Restarting)

\* There is one attempt; one that has not opened its socket finds the connector
\* disconnected.
AttemptInv ==
  /\ Attempts <= 1
  /\ Starts > 0 => state = "kDisconnected" /\ channel = 0
  /\ timers > 0 => state = "kDisconnected"
  /\ state = "kConnecting" => channel # 0
  /\ "connect" \notin called =>
       /\ Attempts = 0 /\ alive /\ "stop" \notin called
       /\ state = "kDisconnected" /\ channel = 0

\* A channel that is not connecting is about to be reset, in the iteration in
\* which it was done with: before a timer fires, unless restart() has overtaken
\* stop(), and before the connection is closed.
ResetInv ==
  /\ fault \/ N(queue, Reset) + N(batch, Reset) = One(channel # 0 /\ state # "kConnecting")
  /\ phase \in {"poll", "functors"} =>
       /\ timers > 0 => N(queue, Reset) = 0 \/ overtaken
       /\ connection # 0 => N(queue, Reset) = 0

\* What was reported by poll() is still so when it is handled.
ActiveInv ==
  /\ <<"timer", 0>> \in active => timers > 0 /\ (N(queue, Reset) = 0 \/ overtaken)
  /\ \A fd \in Fds : <<"close", fd>> \in active =>
       Live(fd) /\ (closeCallback[fd] = "client" => N(queue, Reset) = 0)

\* connection_ is the one connection that would tell the client, and a closed
\* connection is destroyed once.
ConnInv ==
  /\ \A fd \in Fds : Live(fd) /\ closeCallback[fd] = "client" => connection = fd /\ alive
  /\ \A fd \in Fds : closeCallback[fd] = "detail" => ~alive /\ connection # 0
  /\ \A fd \in Fds : ForceClose(fd) \in Range(queue) \cup Range(batch) => closeCallback[fd] = "detail"
  /\ \A fd \in Fds :
       N(queue, Destroy(fd)) + N(batch, Destroy(fd)) = One(connState[fd] = "kDisconnected")

Halted == "stop" \in called \/ (~alive /\ connection = 0)

\* Nobody wants a connection after a stop, except where restart() has overtaken it.
StopInv ==
  /\ "stop" \in called /\ connect_ => overtaken
  /\ ~alive /\ connection = 0 => ~connect_
  /\ "stop" \in called => ~clientConnect
  /\ overtaken => "stop" \in called
  /\ stopped \/ Stop \in Range(queue) \cup Range(batch) \cup Range(posting) => Halted
  /\ late => overtaken
  /\ fault => overtaken

IInv ==
  TypeInv /\ PhaseInv /\ AttemptInv /\ ResetInv /\ ActiveInv /\ ConnInv /\ StopInv /\ SocketsOwned

\* Where one queue has the only copy, the two have one.
LEMMA OneAndNone == 1 + 0 = 1
  OBVIOUS

\* The counts of the queues are numbers.
LEMMA CountsAreNat ==
  ASSUME TypeInv
  PROVE  \A f : N(queue, f) \in Nat /\ N(batch, f) \in Nat /\ N(posting, f) \in Nat
  BY CountType DEF TypeInv

\* An attempt of one kind excludes the others.
LEMMA OneKind ==
  ASSUME TypeInv, AttemptInv
  PROVE  /\ Starts \in Nat /\ timers \in Nat
         /\ Starts > 0 => timers = 0 /\ state # "kConnecting" /\ ~Restarting /\ Starts = 1
         /\ timers > 0 => Starts = 0 /\ state # "kConnecting" /\ ~Restarting /\ timers = 1
         /\ state = "kConnecting" => Starts = 0 /\ timers = 0 /\ ~Restarting
         /\ Restarting => Starts = 0 /\ timers = 0 /\ state # "kConnecting"
         /\ Starts = 0 => N(posting, Start) = 0 /\ N(queue, Start) = 0 /\ N(batch, Start) = 0
<1>1. /\ N(posting, Start) \in Nat /\ N(queue, Start) \in Nat /\ N(batch, Start) \in Nat
      /\ timers \in Nat
  BY CountsAreNat DEF TypeInv
<1>2. Starts \in Nat
  BY <1>1 DEF Starts
<1>3. Starts = 0 => N(posting, Start) = 0 /\ N(queue, Start) = 0 /\ N(batch, Start) = 0
  BY <1>1 DEF Starts
<1>4. Starts + timers + One(state = "kConnecting") + One(Restarting) <= 1
  BY DEF AttemptInv, Attempts
<1> HIDE DEF Starts, Restarting
<1> QED
  BY <1>1, <1>2, <1>3, <1>4 DEF One

\* A new client satisfies the invariant.
LEMMA InitInv == Init => IInv
<1> SUFFICES ASSUME Init PROVE IInv
  OBVIOUS
<1> USE DEF Init, ConnectorInit
<1>1. \A f : N(queue, f) = 0 /\ N(batch, f) = 0 /\ N(posting, f) = 0
  BY CountNone
<1>2. Range(queue) = {} /\ Range(batch) = {} /\ Range(posting) = {}
  BY DEF Range
<1>3. TypeInv
  <2>1. queue \in Seq(Functor) /\ batch \in Seq(Functor) /\ posting \in Seq(Posted)
    OBVIOUS
  <2>2. connState \in [Fds -> {"none", "kConnected", "kDisconnecting", "kDisconnected"}]
    OBVIOUS
  <2>3. closeCallback \in [Fds -> {"client", "detail"}]
    OBVIOUS
  <2> QED
    BY <2>1, <2>2, <2>3, Zenon DEF TypeInv
<1>4. 0 \notin Fds
  BY SocketAssumption
<1>5. PhaseInv
  BY DEF PhaseInv
<1>6. AttemptInv
  BY <1>1 DEF AttemptInv, Attempts, Starts, Restarting, One
<1>7. ResetInv
  BY <1>1 DEF ResetInv, One
<1>8. ActiveInv
  BY DEF ActiveInv
<1>9. ConnInv
  BY <1>1, <1>2 DEF ConnInv, Live, One
<1>10. StopInv
  BY <1>2 DEF StopInv, Halted
<1>11. SocketsOwned
  BY DEF SocketsOwned
<1> QED
  BY <1>3, <1>5, <1>6, <1>7, <1>8, <1>9, <1>10, <1>11, SMTT(30), Z3T(30) DEF IInv
-----------------------------------------------------------------------------
(* The calls of the user *)

\* connect() posts the only start.
LEMMA userConnectInv == IInv /\ ~fault /\ userConnect => IInv'
<1> SUFFICES ASSUME IInv, ~fault, userConnect PROVE IInv'
  OBVIOUS
<1> USE DEF userConnect, loopVars
<1>1. TypeInv /\ PhaseInv /\ AttemptInv /\ ResetInv /\ ActiveInv /\ ConnInv /\ StopInv /\ SocketsOwned
  BY DEF IInv
<1>2. /\ posting' \in Seq(Posted) /\ Range(posting') = Range(posting) \cup {Start}
      /\ N(posting', Start) = N(posting, Start) + 1
  <2>1. posting' = Append(posting, Start) /\ posting \in Seq(Posted)
    BY <1>1 DEF TypeInv, Start
  <2>2. Start \in Posted /\ Stop \in Posted /\ Start # Stop
    BY FunctorsDiffer
  <2> HIDE DEF userConnect
  <2>3. /\ Append(posting, Start) \in Seq(Posted)
        /\ Range(Append(posting, Start)) = Range(posting) \cup {Start}
        /\ N(Append(posting, Start), Start) = N(posting, Start) + 1
    BY <2>1, <2>2, AddIs, SMTT(30), Z3T(30)
  <2> QED
    BY <2>1, <2>3, Zenon
<1>3. /\ Attempts = 0 /\ alive /\ "stop" \notin called
      /\ state = "kDisconnected" /\ channel = 0
  BY <1>1, SMTT(30), Z3T(30) DEF AttemptInv
<1>4. /\ N(posting, Start) \in Nat /\ N(queue, Start) \in Nat /\ N(batch, Start) \in Nat
      /\ timers \in Nat /\ Starts' = Starts + 1
  <2>1. /\ N(posting, Start) \in Nat /\ N(queue, Start) \in Nat /\ N(batch, Start) \in Nat
    BY <1>1, CountsAreNat
  <2> QED
    BY <1>1, <1>2, <2>1, SMTT(30), Z3T(30) DEF TypeInv, Starts
<1>5. TypeInv'
  BY <1>1, <1>2 DEF TypeInv
<1>6. PhaseInv'
  BY <1>1, SMTT(30), Z3T(30) DEF PhaseInv
<1>7. AttemptInv'
  <2>1. Starts \in Nat /\ Starts' = Starts + 1
    BY <1>4, SMTT(30), Z3T(30) DEF Starts
  <2>2. Restarting' <=> Restarting
    BY DEF Restarting
  <2>3. Starts + timers + One(state = "kConnecting") + One(Restarting) = 0
    BY <1>3 DEF Attempts
  <2>4. Starts' + timers' + One(state' = "kConnecting") + One(Restarting') = 1 /\ timers = 0
    <3> HIDE DEF Starts, Restarting
    <3> QED
      BY <1>4, <2>1, <2>2, <2>3, SMTT(30), Z3T(30) DEF One
  <2> QED
    BY <1>3, <1>4, <2>4, SMTT(30), Z3T(30) DEF AttemptInv, Attempts
<1>8. ResetInv'
  BY <1>1, SMTT(30), Z3T(30) DEF ResetInv
<1>9. ActiveInv'
  BY <1>1, SMTT(30), Z3T(30) DEF ActiveInv, Live
<1>10. ConnInv'
  BY <1>1, SMTT(30), Z3T(30) DEF ConnInv, Live
<1>11. StopInv'
  BY <1>1, <1>2, <1>3, FunctorsDiffer, SMTT(30), Z3T(30) DEF StopInv, Halted
<1>12. SocketsOwned'
  BY <1>1 DEF SocketsOwned, Live
<1> QED
  BY <1>5, <1>6, <1>7, <1>8, <1>9, <1>10, <1>11, <1>12, SMTT(30), Z3T(30) DEF IInv

\* disconnect() keeps the connection live.
LEMMA userDisconnectInv == IInv /\ ~fault /\ userDisconnect => IInv'
<1> SUFFICES ASSUME IInv, ~fault, userDisconnect PROVE IInv'
  OBVIOUS
<1> USE DEF userDisconnect, loopVars, connectorVars
<1>1. TypeInv /\ PhaseInv /\ AttemptInv /\ ResetInv /\ ActiveInv /\ ConnInv /\ StopInv /\ SocketsOwned
  BY SMTT(30), Z3T(30) DEF IInv
<1>2. /\ connState' \in [Fds -> {"none", "kConnected", "kDisconnecting", "kDisconnected"}]
      /\ \A fd \in Fds : /\ Live(fd)' <=> Live(fd)
                         /\ connState'[fd] = "kDisconnected" <=> connState[fd] = "kDisconnected"
                         /\ connState'[fd] = "none" <=> connState[fd] = "none"
  BY <1>1 DEF TypeInv, Live
<1>3. TypeInv'
  BY <1>1, <1>2, ZenonT(60) DEF TypeInv
<1>4. PhaseInv'
  BY <1>1 DEF PhaseInv
<1>5. AttemptInv'
  BY <1>1, SMTT(30), Z3T(30) DEF AttemptInv, Attempts, Starts, Restarting
<1>6. ResetInv'
  BY <1>1, SMTT(30), Z3T(30) DEF ResetInv
<1>7. ActiveInv'
  BY <1>1, <1>2, SMTT(30), Z3T(30) DEF ActiveInv
<1>8. ConnInv'
  BY <1>1, <1>2, SMTT(30), Z3T(30) DEF ConnInv, One
<1>9. StopInv'
  BY <1>1, SMTT(30), Z3T(30) DEF StopInv, Halted
<1>10. SocketsOwned'
  <2>1. connection \in Fds \cup {0}
    BY <1>1, SMTT(30), Z3T(30) DEF TypeInv
  <2> QED
    BY <1>1, <1>2, <2>1, SMTT(30), Z3T(30) DEF SocketsOwned
<1> QED
  BY <1>3, <1>4, <1>5, <1>6, <1>7, <1>8, <1>9, <1>10, SMTT(30), Z3T(30) DEF IInv

\* stop() in another thread takes connect_ back, or has been overtaken.
LEMMA userStopInv == IInv /\ ~fault /\ userStop => IInv'
<1> SUFFICES ASSUME IInv, ~fault, userStop PROVE IInv'
  OBVIOUS
<1> USE DEF userStop, loopVars
<1>1. TypeInv /\ PhaseInv /\ AttemptInv /\ ResetInv /\ ActiveInv /\ ConnInv /\ StopInv /\ SocketsOwned
  BY DEF IInv
<1>2. /\ posting' \in Seq(Posted) /\ Range(posting') = Range(posting) \cup {Stop}
      /\ N(posting', Start) = N(posting, Start)
  <2>1. posting' = Append(posting, Stop) /\ posting \in Seq(Posted)
    BY <1>1, SMTT(30), Z3T(30) DEF TypeInv, Stop
  <2>2. Start \in Posted /\ Stop \in Posted /\ Start # Stop
    BY FunctorsDiffer
  <2> HIDE DEF userStop
  <2>3. /\ Append(posting, Stop) \in Seq(Posted)
        /\ Range(Append(posting, Stop)) = Range(posting) \cup {Stop}
        /\ N(Append(posting, Stop), Start) = N(posting, Start)
    BY <2>1, <2>2, AddIs, SMTT(30), Z3T(30)
  <2> QED
    BY <2>1, <2>3, Zenon
<1>3. ~overtaken /\ ~late
  BY <1>1 DEF StopInv
<1>4. TypeInv'
  BY <1>1, <1>2, Zenon DEF TypeInv
<1>5. PhaseInv'
  BY <1>1, ZenonT(60) DEF PhaseInv
<1>6. AttemptInv'
  BY <1>1, <1>2, SMTT(30), Z3T(30) DEF AttemptInv, Attempts, Starts, Restarting
<1>7. ResetInv'
  BY <1>1, <1>3, ZenonT(60) DEF ResetInv
<1>8. ActiveInv'
  BY <1>1, <1>3, SMTT(30), Z3T(30) DEF ActiveInv, Live
<1>9. ConnInv'
  BY <1>1, SMTT(30), Z3T(30) DEF ConnInv, Live
<1>10. StopInv'
  BY <1>1, <1>2, <1>3, SMTT(30), Z3T(30) DEF StopInv, Halted
<1>11. SocketsOwned'
  BY <1>1 DEF SocketsOwned, Live
<1> QED
  BY <1>4, <1>5, <1>6, <1>7, <1>8, <1>9, <1>10, <1>11, SMTT(30), Z3T(30) DEF IInv

\* queueInLoop(x)
LEMMA QueueAdds ==
  ASSUME TypeInv, NEW x \in Functor, queue' = Append(queue, x)
  PROVE  /\ queue' \in Seq(Functor) /\ Range(queue') = Range(queue) \cup {x}
         /\ N(queue', x) = N(queue, x) + 1
         /\ \A f : f # x => N(queue', f) = N(queue, f)
         /\ \A f : N(queue, f) \in Nat /\ N(queue', f) \in Nat
<1>1. queue \in Seq(Functor)
  BY DEF TypeInv
<1>2. /\ Append(queue, x) \in Seq(Functor) /\ Range(Append(queue, x)) = Range(queue) \cup {x}
      /\ N(Append(queue, x), x) = N(queue, x) + 1
      /\ \A f : f # x => N(Append(queue, x), f) = N(queue, f)
      /\ \A f : N(queue, f) \in Nat /\ N(Append(queue, x), f) \in Nat
  BY <1>1, AddIs, SMTT(30), Z3T(30)
<1> QED
  BY <1>2, Zenon

\* What another thread was about to queue is queued.
LEMMA userPostsInv == IInv /\ ~fault /\ userPosts => IInv'
<1> SUFFICES ASSUME IInv, ~fault, userPosts PROVE IInv'
  OBVIOUS
<1> USE DEF userPosts, loopVars
<1>1. TypeInv /\ PhaseInv /\ AttemptInv /\ ResetInv /\ ActiveInv /\ ConnInv /\ StopInv /\ SocketsOwned
  BY DEF IInv
<1> DEFINE x == Head(posting)
<1>2. /\ posting' \in Seq(Posted) /\ Range(posting') \subseteq Range(posting)
      /\ x \in Posted /\ x \in Range(posting)
      /\ N(posting, x) = N(posting', x) + 1
      /\ \A f : f # x => N(posting', f) = N(posting, f)
      /\ \A f : N(posting, f) \in Nat /\ N(posting', f) \in Nat
  <2>1. posting' = Tail(posting) /\ posting # <<>>
    BY SMTT(30), Z3T(30)
  <2>2. posting \in Seq(Posted)
    BY <1>1 DEF TypeInv
  <2> HIDE DEF userPosts
  <2> QED
    BY <2>1, <2>2, TakeIs, ZenonT(60)
<1>3. queue' = Append(queue, x)
  BY Zenon
<1>4. x \in Functor /\ (x = Start \/ x = Stop)
  BY <1>2, Zenon DEF Posted, Functor
<1> HIDE DEF x
<1>5. /\ queue' \in Seq(Functor) /\ Range(queue') = Range(queue) \cup {x}
      /\ N(queue', x) = N(queue, x) + 1
      /\ \A f : f # x => N(queue', f) = N(queue, f)
      /\ \A f : N(queue, f) \in Nat /\ N(queue', f) \in Nat
  BY <1>1, <1>3, <1>4, QueueAdds, SMTT(30), Z3T(30)
<1>6. \A f : N(posting', f) + N(queue', f) = N(posting, f) + N(queue, f)
  <2> SUFFICES ASSUME NEW f PROVE N(posting', f) + N(queue', f) = N(posting, f) + N(queue, f)
    BY SMTT(30), Z3T(30)
  <2>1. CASE f = x
    BY <1>2, <1>5, <2>1
  <2>2. CASE f # x
    BY <1>2, <1>5, <2>2, Zenon
  <2> QED
    BY <2>1, <2>2, SMTT(30), Z3T(30)
<1>7. N(queue', Reset) = N(queue, Reset) /\ \A fd : N(queue', Destroy(fd)) = N(queue, Destroy(fd))
  BY <1>4, <1>5, FunctorsDiffer, ZenonT(60)
<1>8. TypeInv'
  BY <1>1, <1>2, <1>5, SMTT(30), Z3T(30) DEF TypeInv
<1>9. PhaseInv'
  BY <1>1 DEF PhaseInv
<1>10. AttemptInv'
  <2>1. N(posting', Start) + N(queue', Start) = N(posting, Start) + N(queue, Start)
    BY <1>6
  <2>2. Starts' = Starts
    BY <2>1, SMTT(30), Z3T(30) DEF Starts
  <2>3. Restarting' <=> Restarting
    BY SMTT(30), Z3T(30) DEF Restarting
  <2> QED
    BY <1>1, <2>2, <2>3, SMTT(30), Z3T(30) DEF AttemptInv, Attempts, One
<1>11. ResetInv'
  BY <1>1, <1>7 DEF ResetInv
<1>12. ActiveInv'
  BY <1>1, <1>7, Zenon DEF ActiveInv, Live
<1>13. ConnInv'
  BY <1>1, <1>4, <1>5, <1>7, FunctorsDiffer, ZenonT(60) DEF ConnInv, Live
<1>14. StopInv'
  BY <1>1, <1>2, <1>5, SMTT(30), Z3T(30) DEF StopInv, Halted
<1>15. SocketsOwned'
  BY <1>1 DEF SocketsOwned, Live
<1> QED
  BY <1>8, <1>9, <1>10, <1>11, <1>12, <1>13, <1>14, <1>15, SMTT(30), Z3T(30) DEF IInv

\* stop() in the loop thread takes connect_ back.
LEMMA loopStopInv == IInv /\ ~fault /\ loopStop => IInv'
<1> SUFFICES ASSUME IInv, ~fault, loopStop PROVE IInv'
  OBVIOUS
<1> USE DEF loopStop, loopVars
<1>1. TypeInv /\ PhaseInv /\ AttemptInv /\ ResetInv /\ ActiveInv /\ ConnInv /\ StopInv /\ SocketsOwned
  BY DEF IInv
<1>2. queue' = Append(queue, Stop) /\ phase # "restart"
  BY Zenon DEF Stop, InCallback
<1>3. /\ queue' \in Seq(Functor) /\ Range(queue') = Range(queue) \cup {Stop}
      /\ \A f : f # Stop => N(queue', f) = N(queue, f)
  BY <1>1, <1>2, QueueAdds, FunctorsDiffer, SMTT(30), Z3T(30)
<1>4. /\ N(queue', Start) = N(queue, Start) /\ N(queue', Reset) = N(queue, Reset)
      /\ \A fd : N(queue', Destroy(fd)) = N(queue, Destroy(fd))
  BY <1>3, FunctorsDiffer
<1>5. TypeInv'
  BY <1>1, <1>3, Zenon DEF TypeInv
<1>6. PhaseInv'
  BY <1>1, <1>2 DEF PhaseInv
<1>7. AttemptInv'
  BY <1>1, <1>4, Zenon DEF AttemptInv, Attempts, Starts, Restarting
<1>8. ResetInv'
  BY <1>1, <1>4, Zenon DEF ResetInv
<1>9. ActiveInv'
  BY <1>1, <1>4, ZenonT(60) DEF ActiveInv, Live
<1>10. ConnInv'
  BY <1>1, <1>3, <1>4, FunctorsDiffer, SMTT(30), Z3T(30) DEF ConnInv, Live
<1>11. StopInv'
  BY <1>1, <1>3, SMTT(30), Z3T(30) DEF StopInv, Halted
<1>12. SocketsOwned'
  BY <1>1 DEF SocketsOwned, Live
<1> QED
  BY <1>5, <1>6, <1>7, <1>8, <1>9, <1>10, <1>11, <1>12, SMTT(30), Z3T(30) DEF IInv

\* ~TcpClient leaves its connection to detail::removeConnection, or stops the
\* connector.
LEMMA destroyClientInv == IInv /\ ~fault /\ destroyClient => IInv'
<1> SUFFICES ASSUME IInv, ~fault, destroyClient PROVE IInv'
  OBVIOUS
<1> USE DEF loopVars
<1>1. TypeInv /\ PhaseInv /\ AttemptInv /\ ResetInv /\ ActiveInv /\ ConnInv /\ StopInv /\ SocketsOwned
  BY DEF IInv
<1>2. 0 \notin Fds
  BY SocketAssumption, SMTT(30), Z3T(30)
<1>3. /\ phase = "functors" /\ alive /\ ~alive' /\ "connect" \in called
      /\ UNCHANGED <<state, channel, watched, retryDelay, timers, open, gaveUp, fault, phase, active,
                     batch, clientConnect, connection, called, posting, stopped, late, overtaken>>
  BY DEF destroyClient
<1>4. active = {} /\ active' = {} /\ alive' \in BOOLEAN
  BY <1>1, <1>3, Zenon DEF PhaseInv, destroyClient
<1>5. PhaseInv'
  BY <1>1, <1>3, SMTT(30), Z3T(30) DEF PhaseInv
<1>6. ActiveInv'
  BY <1>4 DEF ActiveInv
<1>7. CASE connection # 0
  <2>1. /\ connection \in Fds /\ closeCallback' = [closeCallback EXCEPT ![connection] = "detail"]
        /\ connect_' = connect_
    BY <1>1, <1>7, SMTT(30), Z3T(30) DEF destroyClient, TypeInv
  <2>2. closeCallback' \in [Fds -> {"client", "detail"}] /\ closeCallback'[connection] = "detail"
        /\ \A fd \in Fds : fd # connection => closeCallback'[fd] = closeCallback[fd]
    BY <1>1, <2>1, SMTT(30), Z3T(30) DEF TypeInv
  <2>3. CASE Live(connection) /\ connState' = [connState EXCEPT ![connection] = "kDisconnecting"]
             /\ queue' = Append(queue, <<"forceCloseInLoop", connection>>)
    <3>1. queue' = Append(queue, ForceClose(connection)) /\ ForceClose(connection) \in Functor
      BY <2>1, <2>3, FunctorsDiffer, SMTT(30), Z3T(30) DEF ForceClose
    <3>2. /\ queue' \in Seq(Functor) /\ Range(queue') = Range(queue) \cup {ForceClose(connection)}
          /\ \A f : f # ForceClose(connection) => N(queue', f) = N(queue, f)
      BY <1>1, <3>1, QueueAdds, ZenonT(60)
    <3>3. /\ N(queue', Start) = N(queue, Start) /\ N(queue', Reset) = N(queue, Reset)
          /\ \A fd : N(queue', Destroy(fd)) = N(queue, Destroy(fd))
      BY <3>2, FunctorsDiffer, SMTT(30), Z3T(30)
    <3>4. /\ connState' \in [Fds -> {"none", "kConnected", "kDisconnecting", "kDisconnected"}]
          /\ \A fd \in Fds : /\ Live(fd)' <=> Live(fd)
                             /\ connState'[fd] = "kDisconnected" <=> connState[fd] = "kDisconnected"
                             /\ connState'[fd] = "none" <=> connState[fd] = "none"
      BY <1>1, <2>1, <2>3 DEF TypeInv, Live
    <3>5. TypeInv'
      BY <1>1, <1>3, <1>4, <2>1, <2>2, <3>2, <3>4, ZenonT(60) DEF TypeInv
    <3>6. AttemptInv'
      BY <1>1, <1>3, <3>3, ZenonT(60) DEF AttemptInv, Attempts, Starts, Restarting
    <3>7. ResetInv'
      BY <1>1, <1>3, <3>3, SMTT(30), Z3T(30) DEF ResetInv
    <3>8. ConnInv'
      <4>1. \A fd \in Fds : Live(fd)' /\ closeCallback'[fd] = "client" => FALSE
        BY <1>1, <2>2, <3>4, ZenonT(60) DEF ConnInv
      <4>2. \A fd \in Fds : ForceClose(fd) \in Range(queue') \cup Range(batch') => closeCallback'[fd] = "detail"
        BY <1>1, <1>3, <2>2, <3>2, FunctorsDiffer, SMTT(30), Z3T(30) DEF ConnInv
      <4>3. \A fd \in Fds :
              N(queue', Destroy(fd)) + N(batch', Destroy(fd)) = One(connState'[fd] = "kDisconnected")
        BY <1>1, <1>3, <3>3, <3>4, ZenonT(30) DEF ConnInv, One
      <4> QED
        BY <1>3, <1>7, <4>1, <4>2, <4>3, SMTT(30), Z3T(30) DEF ConnInv
    <3>9. StopInv'
      BY <1>1, <1>3, <1>7, <2>1, <3>2, FunctorsDiffer, Zenon DEF StopInv, Halted
    <3>10. SocketsOwned'
      BY <1>1, <1>3, <3>4, SMTT(30), Z3T(30) DEF SocketsOwned
    <3> QED
      BY <1>5, <1>6, <3>5, <3>6, <3>7, <3>8, <3>9, <3>10, SMTT(30), Z3T(30) DEF IInv
  <2>4. CASE UNCHANGED <<connState, queue>>
    <3>1. TypeInv'
      BY <1>1, <1>3, <1>4, <2>1, <2>2, <2>4, ZenonT(60) DEF TypeInv
    <3>2. AttemptInv'
      BY <1>1, <1>3, <2>4, SMTT(30), Z3T(30) DEF AttemptInv, Attempts, Starts, Restarting
    <3>3. ResetInv'
      BY <1>1, <1>3, <2>4, SMTT(30), Z3T(30) DEF ResetInv
    <3>4. ConnInv'
      BY <1>1, <1>3, <1>7, <2>2, <2>4, SMTT(30), Z3T(30) DEF ConnInv, Live
    <3>5. StopInv'
      BY <1>1, <1>3, <1>7, <2>1, <2>4, SMTT(30), Z3T(30) DEF StopInv, Halted
    <3>6. SocketsOwned'
      BY <1>1, <1>3, <2>4, SMTT(30), Z3T(30) DEF SocketsOwned
    <3> QED
      BY <1>5, <1>6, <3>1, <3>2, <3>3, <3>4, <3>5, <3>6 DEF IInv
  <2> QED
    BY <1>7, <2>3, <2>4, ZenonT(60) DEF destroyClient
<1>8. CASE connection = 0
  <2>1. /\ queue' = Append(queue, Stop) /\ connect_' = FALSE
        /\ UNCHANGED <<closeCallback, connState>>
    BY <1>8, SMTT(30), Z3T(30) DEF destroyClient, Stop
  <2>2. /\ queue' \in Seq(Functor) /\ Range(queue') = Range(queue) \cup {Stop}
        /\ \A f : f # Stop => N(queue', f) = N(queue, f)
    BY <1>1, <2>1, QueueAdds, FunctorsDiffer, SMTT(30), Z3T(30)
  <2>3. /\ N(queue', Start) = N(queue, Start) /\ N(queue', Reset) = N(queue, Reset)
        /\ \A fd : N(queue', Destroy(fd)) = N(queue, Destroy(fd))
    BY <2>2, FunctorsDiffer
  <2>4. TypeInv'
    BY <1>1, <1>3, <1>4, <2>1, <2>2, ZenonT(30) DEF TypeInv
  <2>5. AttemptInv'
    BY <1>1, <1>3, <2>3, Zenon DEF AttemptInv, Attempts, Starts, Restarting
  <2>6. ResetInv'
    BY <1>1, <1>3, <2>3 DEF ResetInv
  <2>7. ConnInv'
    BY <1>1, <1>2, <1>3, <1>8, <2>1, <2>2, <2>3, FunctorsDiffer, SMTT(30), Z3T(30) DEF ConnInv, Live
  <2>8. StopInv'
    BY <1>1, <1>3, <1>8, <2>1, <2>2, SMTT(30), Z3T(30) DEF StopInv, Halted
  <2>9. SocketsOwned'
    BY <1>1, <1>3, <2>1, SMTT(30), Z3T(30) DEF SocketsOwned
  <2> QED
    BY <1>5, <1>6, <2>4, <2>5, <2>6, <2>7, <2>8, <2>9 DEF IInv
<1> QED
  BY <1>7, <1>8
-----------------------------------------------------------------------------
(* The iteration of the loop *)

\* poll() reports what is so.
LEMMA pollInv == IInv /\ ~fault /\ poll => IInv'
<1> SUFFICES ASSUME IInv, ~fault, poll PROVE IInv'
  OBVIOUS
<1> USE DEF poll, connectorVars, clientVars
<1>1. TypeInv /\ PhaseInv /\ AttemptInv /\ ResetInv /\ ActiveInv /\ ConnInv /\ StopInv /\ SocketsOwned
  BY SMTT(30), Z3T(30) DEF IInv
<1>2. 0 \notin Fds
  BY SocketAssumption, SMTT(30), Z3T(30)
<1>3. TypeInv'
  BY <1>1 DEF TypeInv
<1>4. PhaseInv'
  BY <1>1, ZenonT(60) DEF PhaseInv
<1>5. AttemptInv'
  BY <1>1, SMTT(30), Z3T(30) DEF AttemptInv, Attempts, Starts, Restarting
<1>6. ResetInv'
  BY <1>1, SMTT(30), Z3T(30) DEF ResetInv
<1>7. ActiveInv'
  <2>1. <<"timer", 0>> \in active' => timers > 0
    BY Zenon DEF Eligible
  <2>2. \A fd \in Fds : <<"close", fd>> \in active' => Live(fd)
    BY Zenon DEF Eligible
  <2>3. timers > 0 => N(queue, Reset) = 0 \/ overtaken
    BY <1>1, Zenon DEF ResetInv
  <2>4. \A fd \in Fds : Live(fd) /\ closeCallback[fd] = "client" => N(queue, Reset) = 0
    BY <1>1, <1>2, Zenon DEF ConnInv, ResetInv
  <2> QED
    BY <2>1, <2>2, <2>3, <2>4, Zenon DEF ActiveInv, Live
<1>8. ConnInv'
  BY <1>1, ZenonT(60) DEF ConnInv, Live
<1>9. StopInv'
  BY <1>1, SMTT(30), Z3T(30) DEF StopInv, Halted
<1>10. SocketsOwned'
  BY <1>1, SMTT(30), Z3T(30) DEF SocketsOwned, Live
<1> QED
  BY <1>3, <1>4, <1>5, <1>6, <1>7, <1>8, <1>9, <1>10, SMTT(30), Z3T(30) DEF IInv

\* The swap takes all functors over.
LEMMA swapFunctorsInv == IInv /\ ~fault /\ swapFunctors => IInv'
<1> SUFFICES ASSUME IInv, ~fault, swapFunctors PROVE IInv'
  OBVIOUS
<1> USE DEF swapFunctors, clientVars
<1>1. TypeInv /\ PhaseInv /\ AttemptInv /\ ResetInv /\ ActiveInv /\ ConnInv /\ StopInv /\ SocketsOwned
  BY SMTT(30), Z3T(30) DEF IInv
<1>2. batch = <<>>
  BY <1>1, SMTT(30), Z3T(30) DEF PhaseInv
<1>3. \A f : N(batch, f) = 0 /\ N(queue', f) = 0 /\ N(batch', f) = N(queue, f) /\ N(queue, f) \in Nat
  BY <1>1, <1>2, CountNone, CountsAreNat, SMTT(30), Z3T(30)
<1>4. Range(batch) = {} /\ Range(queue') = {} /\ Range(batch') = Range(queue)
  BY <1>2, SMTT(30), Z3T(30) DEF Range
<1>5. queue' \in Seq(Functor) /\ batch' \in Seq(Functor)
  BY <1>1, SMTT(30), Z3T(30) DEF TypeInv
<1>6. \A f : N(queue', f) + N(batch', f) = N(queue, f) + N(batch, f)
  BY <1>3, SMTT(30), Z3T(30)
<1>7. TypeInv'
  BY <1>1, <1>5 DEF TypeInv
<1>8. PhaseInv'
  BY <1>1, Zenon DEF PhaseInv
<1>9. AttemptInv'
  <2>1. N(posting, Start) \in Nat /\ N(queue, Start) \in Nat
    BY <1>1, CountsAreNat, Zenon
  <2>2. Starts' = Starts
    BY <1>3, <2>1 DEF Starts
  <2>3. Restarting' <=> Restarting
    BY ZenonT(60) DEF Restarting
  <2> QED
    BY <1>1, <2>2, <2>3 DEF AttemptInv, Attempts, One
<1>10. ResetInv'
  BY <1>1, <1>3, <1>6 DEF ResetInv
<1>11. ActiveInv'
  BY Zenon DEF ActiveInv
<1>12. ConnInv'
  BY <1>1, <1>4, <1>6, Zenon DEF ConnInv, Live
<1>13. StopInv'
  BY <1>1, <1>4, ZenonT(60) DEF StopInv, Halted
<1>14. SocketsOwned'
  BY <1>1, SMTT(30), Z3T(30) DEF SocketsOwned, Live
<1> QED
  BY <1>7, <1>8, <1>9, <1>10, <1>11, <1>12, <1>13, <1>14, SMTT(30), Z3T(30) DEF IInv

\* The end of an iteration changes nothing but the place.
LEMMA endIterationInv == IInv /\ ~fault /\ endIteration => IInv'
<1> SUFFICES ASSUME IInv, ~fault, endIteration PROVE IInv'
  OBVIOUS
<1> USE DEF endIteration, connectorVars, clientVars
<1>1. TypeInv /\ PhaseInv /\ AttemptInv /\ ResetInv /\ ActiveInv /\ ConnInv /\ StopInv /\ SocketsOwned
  BY ZenonT(60) DEF IInv
<1>2. TypeInv'
  BY <1>1 DEF TypeInv
<1>3. PhaseInv'
  BY <1>1, ZenonT(60) DEF PhaseInv
<1>4. AttemptInv'
  BY <1>1, SMTT(30), Z3T(30) DEF AttemptInv, Attempts, Starts, Restarting
<1>5. ResetInv'
  BY <1>1 DEF ResetInv
<1>6. ActiveInv'
  BY <1>1, ZenonT(60) DEF ActiveInv, Live
<1>7. ConnInv'
  BY <1>1 DEF ConnInv, Live
<1>8. StopInv'
  BY <1>1, ZenonT(60) DEF StopInv, Halted
<1>9. SocketsOwned'
  BY <1>1 DEF SocketsOwned, Live
<1> QED
  BY <1>2, <1>3, <1>4, <1>5, <1>6, <1>7, <1>8, <1>9, SMTT(30), Z3T(30) DEF IInv

\* doPendingFunctors() calls the functor x.
LEMMA BatchTakes ==
  ASSUME TypeInv, batch # <<>>, batch' = Tail(batch), NEW x, x = Head(batch)
  PROVE  /\ batch' \in Seq(Functor) /\ Range(batch') \subseteq Range(batch)
         /\ x \in Functor /\ x \in Range(batch)
         /\ N(batch, x) = N(batch', x) + 1
         /\ \A f : f # x => N(batch', f) = N(batch, f)
         /\ \A f : N(batch, f) \in Nat /\ N(batch', f) \in Nat
<1>1. batch \in Seq(Functor)
  BY SMTT(30), Z3T(30) DEF TypeInv
<1>2. /\ Tail(batch) \in Seq(Functor) /\ Range(Tail(batch)) \subseteq Range(batch)
      /\ Head(batch) \in Functor /\ Head(batch) \in Range(batch)
      /\ N(batch, Head(batch)) = N(Tail(batch), Head(batch)) + 1
      /\ \A f : f # Head(batch) => N(Tail(batch), f) = N(batch, f)
      /\ \A f : N(batch, f) \in Nat /\ N(Tail(batch), f) \in Nat
  BY <1>1, TakeIs
<1> QED
  BY <1>2, Zenon
-----------------------------------------------------------------------------
(* A new attempt *)

\* What an attempt made by startInLoop() or restart() may do: it opens a socket,
\* it sets a timer or it ends.
Tried ==
  \/ /\ state' = "kConnecting" /\ channel' \in Fds \ open /\ open' = open \cup {channel'}
     /\ timers' = 0 /\ fault' = (channel # 0)
  \/ /\ state' = "kDisconnected" /\ channel' = channel /\ open' = open
     /\ timers' \in {0, 1} /\ fault' = FALSE

\* connect() with no other timer set tries.
LEMMA ConnectTries ==
  ASSUME IInv, NEW delay, connect(delay, 0, TRUE)
  PROVE  Tried
<1>1. CASE connecting(delay, 0, TRUE)
  <2>1. open \subseteq Fds
    <3>1. channel \in Fds \cup {0} /\ (state = "kConnecting" => channel # 0)
      BY DEF IInv, TypeInv, AttemptInv
    <3> QED
      BY <3>1, SMTT(30), Z3T(30) DEF IInv, SocketsOwned
  <2>2. Fds \ open # {} /\ Fds \ open \in SUBSET Nat
    BY <2>1, SocketAssumption, Zenon DEF connect
  <2>3. Min(Fds \ open) \in Fds \ open
    BY <2>2, LeastIsIn, SMTT(30), Z3T(30)
  <2> QED
    BY <1>1, <2>3, SMTT(30), Z3T(30) DEF connecting, Tried
<1>2. CASE retry(open, delay, 0, TRUE) /\ fault' = ~TRUE /\ UNCHANGED <<channel, watched, gaveUp>>
  <2>1. open' = open /\ state' = "kDisconnected" /\ timers' = 0 + 1
    BY <1>2, Zenon DEF retry
  <2>2. channel' = channel /\ fault' = FALSE
    BY <1>2, Zenon
  <2> QED
    BY <2>1, <2>2 DEF Tried
<1>3. CASE /\ gaveUp' = TRUE
           /\ state' = "kDisconnected" /\ retryDelay' = delay /\ timers' = 0
           /\ fault' = ~TRUE
           /\ UNCHANGED <<channel, watched, open>>
  BY <1>3, Zenon DEF Tried
<1> QED
  BY <1>1, <1>2, <1>3, ZenonT(60) DEF connect

\* So does startInLoop() on a connector that is disconnected.
LEMMA StartTries ==
  ASSUME IInv, state = "kDisconnected", startInLoop(0)
  PROVE  Tried
<1>1. CASE connect_ /\ connect(retryDelay, 0, state = "kDisconnected")
  <2>1. connect(retryDelay, 0, TRUE)
    BY <1>1, Zenon DEF connect, connecting
  <2> QED
    BY <2>1, ConnectTries, Zenon
<1>2. CASE ~connect_ /\ fault' = (state # "kDisconnected") /\ timers' = 0
           /\ UNCHANGED <<state, channel, watched, retryDelay, open, gaveUp>>
  BY <1>2, Zenon DEF Tried
<1> QED
  BY <1>1, <1>2 DEF startInLoop

\* An attempt that takes the place of the only other one keeps the invariant.  If
\* it finds a channel, restart() has overtaken stop().
LEMMA TriedInv ==
  ASSUME IInv, ~fault, Tried, state # "kConnecting", connection = 0, Starts' = 0,
         channel = 0 \/ overtaken, "connect" \in called,
         connect_' \in BOOLEAN, "stop" \in called /\ connect_' => overtaken, ~alive => ~connect_',
         phase' \in {"events", "functors"}, phase' = "events" => batch' = <<>>,
         phase' = "functors" => active' = {}, active' \subseteq active, <<"timer", 0>> \notin active',
         batch' \in Seq(Functor), Range(batch') \subseteq Range(batch),
         N(batch', Reset) = N(batch, Reset), \A fd \in Fds : N(batch', Destroy(fd)) = N(batch, Destroy(fd)),
         UNCHANGED <<queue, clientVars>>
  PROVE  IInv'
<1>1. TypeInv /\ PhaseInv /\ AttemptInv /\ ResetInv /\ ActiveInv /\ ConnInv /\ StopInv /\ SocketsOwned
  BY DEF IInv
<1>2. 0 \notin Fds
  BY SocketAssumption, ZenonT(60)
<1>3. UNCHANGED <<queue, clientConnect, connection, connState, closeCallback, alive, called,
                  posting, stopped, late, overtaken>>
  BY DEF clientVars
<1>4. /\ state' \in {"kConnecting", "kDisconnected"} /\ channel' \in Fds \cup {0} /\ timers' \in {0, 1}
      /\ state' = "kConnecting" => channel' # 0 /\ timers' = 0
      /\ fault' \in BOOLEAN /\ (fault' => channel # 0)
  BY <1>1, <1>2, Zenon DEF Tried, TypeInv
<1>5. ~Restarting'
  BY <1>3, Zenon DEF Restarting
<1>6. TypeInv'
  <2>1. /\ state' \in {"kDisconnected", "kConnecting", "kConnected"} /\ timers' \in Nat
        /\ phase' \in {"poll", "events", "restart", "functors"}
    BY <1>4
  <2> QED
    BY <1>1, <1>3, <1>4, <2>1, ZenonT(60) DEF TypeInv
<1>7. PhaseInv'
  BY Zenon DEF PhaseInv
<1>8. AttemptInv'
  <2>1. Starts' + timers' + One(state' = "kConnecting") + One(Restarting') <= 1
    <3>1. One(Restarting') = 0
      BY <1>5, ZenonT(60) DEF One
    <3>2. timers' + One(state' = "kConnecting") <= 1 /\ timers' \in Nat /\ One(state' = "kConnecting") \in Nat
      <4>1. timers' \in {0, 1}
        BY <1>4, SMTT(30), Z3T(30)
      <4>2. CASE state' = "kConnecting"
        <5>1. One(state' = "kConnecting") = 1 /\ timers' = 0
          BY <1>4, <4>2, SMTT(30), Z3T(30) DEF One
        <5> QED
          BY <5>1, SMTT(30), Z3T(30)
      <4>3. CASE state' # "kConnecting"
        <5>1. One(state' = "kConnecting") = 0
          BY <4>3 DEF One
        <5> QED
          BY <4>1, <5>1, SMTT(30), Z3T(30)
      <4> QED
        BY <4>2, <4>3, SMTT(30), Z3T(30)
    <3>3. Starts' = 0
      BY Zenon
    <3> HIDE DEF Starts, Restarting
    <3> QED
      BY <3>1, <3>2, <3>3, SMTT(30), Z3T(30)
  <2>2. ~(Starts' > 0)
    <3> HIDE DEF Starts
    <3> QED
      BY SMTT(30), Z3T(30)
  <2>3. timers' > 0 => state' = "kDisconnected"
    BY <1>4
  <2> QED
    BY <1>3, <1>4, <2>1, <2>2, <2>3, ZenonT(60) DEF AttemptInv, Attempts
<1>9. ResetInv'
  <2>1. N(queue, Reset) \in Nat /\ N(batch, Reset) \in Nat
    BY <1>1, CountsAreNat, Zenon
  <2>2. N(queue, Reset) + N(batch, Reset) = One(channel # 0)
    BY <1>1, Zenon DEF ResetInv, One
  <2>3. N(queue, Reset) = 0 \/ overtaken
    BY <2>1, <2>2 DEF One
  <2>4. fault' \/ N(queue', Reset) + N(batch', Reset) = One(channel' # 0 /\ state' # "kConnecting")
    BY <1>3, <2>2, ZenonT(30) DEF Tried, One
  <2> QED
    BY <1>3, <2>3, <2>4, Zenon DEF ResetInv
<1>10. ActiveInv'
  BY <1>1, <1>3, Zenon DEF ActiveInv, Live
<1>11. ConnInv'
  BY <1>1, <1>3, ZenonT(60) DEF ConnInv, Live
<1>12. StopInv'
  BY <1>1, <1>3, <1>4, SMTT(30), Z3T(30) DEF StopInv, Halted
<1>13. SocketsOwned'
  BY <1>1, <1>3, ZenonT(60) DEF SocketsOwned, Live, Tried
<1> QED
  BY <1>6, <1>7, <1>8, <1>9, <1>10, <1>11, <1>12, <1>13, ZenonT(60) DEF IInv

\* A retry timer fires: the attempt was that timer.
LEMMA handleTimerInv == IInv /\ ~fault /\ handleTimer => IInv'
<1> SUFFICES ASSUME IInv, ~fault, handleTimer PROVE IInv'
  OBVIOUS
<1>1. TypeInv /\ PhaseInv /\ AttemptInv /\ ResetInv /\ ActiveInv /\ ConnInv /\ StopInv /\ SocketsOwned
  BY DEF IInv
<1>2. /\ phase = "events" /\ <<"timer", 0>> \in active /\ active' = active \ {<<"timer", 0>>}
      /\ startInLoop(timers - 1)
      /\ UNCHANGED <<connect_, queue, phase, batch, clientVars>>
  BY Zenon DEF handleTimer
<1>3. timers > 0 /\ (N(queue, Reset) = 0 \/ overtaken) /\ batch = <<>>
  BY <1>1, <1>2, SMTT(30), Z3T(30) DEF ActiveInv, PhaseInv
<1>4. /\ timers = 1 /\ Starts = 0 /\ ~Restarting /\ state = "kDisconnected"
  BY <1>1, <1>3, OneKind, SMTT(30), Z3T(30) DEF AttemptInv
<1>5. startInLoop(0)
  <2>1. timers - 1 = 0
    BY <1>4
  <2> QED
    BY <1>2, <2>1, SMTT(30), Z3T(30)
<1>6. Tried
  BY <1>4, <1>5, StartTries, SMTT(30), Z3T(30)
<1>7. channel = 0 \/ overtaken
  <2>1. N(batch, Reset) = 0
    BY <1>3, CountNone, SMTT(30), Z3T(30)
  <2>2. N(queue, Reset) + N(batch, Reset) = One(channel # 0 /\ state # "kConnecting")
    BY <1>1, SMTT(30), Z3T(30) DEF ResetInv
  <2> QED
    BY <1>3, <1>4, <2>1, <2>2, SMTT(30), Z3T(30) DEF One
<1>8. connection = 0 /\ "connect" \in called
  <2>1. "connect" \notin called => Starts + timers + One(state = "kConnecting") + One(Restarting) = 0
    BY <1>1 DEF AttemptInv, Attempts
  <2>2. "connect" \notin called => FALSE
    BY <1>4, <2>1 DEF One
  <2> QED
    BY <1>4, <2>2, SMTT(30), Z3T(30) DEF Restarting
<1>9. Starts' = 0
  BY <1>2, <1>4, ZenonT(60) DEF Starts, clientVars
<1>10. connect_' \in BOOLEAN /\ ("stop" \in called /\ connect_' => overtaken) /\ (~alive => ~connect_')
  BY <1>1, <1>2, <1>8, SMTT(30), Z3T(30) DEF StopInv, TypeInv
<1>11. batch' \in Seq(Functor)
  BY <1>1, <1>2, ZenonT(60) DEF TypeInv
<1> QED
  BY <1>2, <1>3, <1>4, <1>6, <1>7, <1>8, <1>9, <1>10, <1>11, TriedInv, SMTT(30), Z3T(30)

\* restart() after a close: the attempt was the connection.
LEMMA clientRestartsInv == IInv /\ ~fault /\ clientRestarts => IInv'
<1> SUFFICES ASSUME IInv, ~fault, clientRestarts PROVE IInv'
  OBVIOUS
<1>1. TypeInv /\ PhaseInv /\ AttemptInv /\ ResetInv /\ ActiveInv /\ ConnInv /\ StopInv /\ SocketsOwned
  BY DEF IInv
<1>2. /\ phase = "restart" /\ phase' = "events" /\ connect_' = TRUE
      /\ connect(kInitRetryDelay, timers, TRUE)
      /\ UNCHANGED <<queue, active, batch, clientVars>>
  BY Zenon DEF clientRestarts, restart
<1>3. connection = 0 /\ channel = 0 /\ alive /\ ("stop" \in called => overtaken) /\ batch = <<>>
  BY <1>1, <1>2, SMTT(30), Z3T(30) DEF PhaseInv
<1>4. timers = 0 /\ Starts = 0 /\ state # "kConnecting"
  BY <1>1, <1>2, OneKind, SMTT(30), Z3T(30) DEF Restarting
<1>5. Tried
  BY <1>2, <1>4, ConnectTries, ZenonT(60)
<1>6. "connect" \in called
  <2>1. "connect" \notin called => Starts + timers + One(state = "kConnecting") + One(Restarting) = 0
    BY <1>1 DEF AttemptInv, Attempts
  <2>2. Restarting
    BY <1>2, SMTT(30), Z3T(30) DEF Restarting
  <2> QED
    BY <1>4, <2>1, <2>2, SMTT(30), Z3T(30) DEF One
<1>7. Starts' = 0
  BY <1>2, <1>4, SMTT(30), Z3T(30) DEF Starts, clientVars
<1>8. <<"timer", 0>> \notin active'
  BY <1>1, <1>2, <1>4, SMTT(30), Z3T(30) DEF ActiveInv
<1>9. batch' \in Seq(Functor)
  BY <1>1, <1>2, Zenon DEF TypeInv
<1> QED
  BY <1>2, <1>3, <1>4, <1>5, <1>6, <1>7, <1>8, <1>9, TriedInv, SMTT(30), Z3T(30)
-----------------------------------------------------------------------------
(* The end of an attempt *)

\* The socket that was connecting is closed, and the channel will be reset.  A
\* timer that is set in a functor means that restart() has overtaken stop().
LEMMA EndedInv ==
  ASSUME IInv, ~fault, state = "kConnecting",
         queue' = Append(queue, Reset), channel' = channel, open' = open \ {channel},
         state' \in {"kDisconnected", "kConnected"}, timers' \in {0, 1},
         timers' = 1 => state' = "kDisconnected" /\ (phase = "functors" => overtaken),
         phase \in {"events", "functors"}, phase = "events" => batch' = batch,
         active' \subseteq active, stopped' \in BOOLEAN, stopped' => stopped \/ Halted,
         batch' \in Seq(Functor), Range(batch') \subseteq Range(batch),
         N(batch', Start) = N(batch, Start), N(batch', Reset) = N(batch, Reset),
         \A fd \in Fds : N(batch', Destroy(fd)) = N(batch, Destroy(fd)),
         UNCHANGED <<connect_, fault, phase, clientConnect, connection, connState, closeCallback,
                     alive, called, posting, late, overtaken>>
  PROVE  IInv'
<1>1. TypeInv /\ PhaseInv /\ AttemptInv /\ ResetInv /\ ActiveInv /\ ConnInv /\ StopInv /\ SocketsOwned
  BY DEF IInv
<1>2. 0 \notin Fds
  BY SocketAssumption, ZenonT(60)
<1>3. Starts = 0 /\ timers = 0 /\ ~Restarting /\ connection = 0 /\ channel # 0
  BY <1>1, OneKind DEF Restarting, AttemptInv
<1>4. /\ queue' \in Seq(Functor) /\ Range(queue') = Range(queue) \cup {Reset}
      /\ N(queue', Reset) = N(queue, Reset) + 1
      /\ \A f : f # Reset => N(queue', f) = N(queue, f)
      /\ \A f : N(queue, f) \in Nat /\ N(queue', f) \in Nat
  BY <1>1, QueueAdds, FunctorsDiffer, ZenonT(30)
<1>5. N(queue', Start) = N(queue, Start) /\ \A fd : N(queue', Destroy(fd)) = N(queue, Destroy(fd))
  BY <1>4, FunctorsDiffer, Zenon
<1>6. "connect" \in called
  BY <1>1, Zenon DEF AttemptInv
<1>7. Starts' = 0 /\ ~Restarting'
  BY <1>3, <1>5, Zenon DEF Starts, Restarting
<1>8. TypeInv'
  <2>1. state' \in {"kDisconnected", "kConnecting", "kConnected"} /\ timers' \in Nat
    OBVIOUS
  <2> QED
    BY <1>1, <1>4, <2>1, ZenonT(60) DEF TypeInv
<1>9. PhaseInv'
  BY <1>1, Zenon DEF PhaseInv
<1>10. AttemptInv'
  <2>1. One(Restarting') = 0
    BY <1>7, Zenon DEF One
  <2>2. One(state' = "kConnecting") = 0
    BY ZenonT(60) DEF One
  <2>3. Starts' + timers' + One(state' = "kConnecting") + One(Restarting') <= 1
    <3>1. Starts' = 0 /\ timers' \in {0, 1}
      BY <1>7, ZenonT(60)
    <3> HIDE DEF Starts, Restarting
    <3> QED
      BY <2>1, <2>2, <3>1, SMTT(30), Z3T(30)
  <2>4. ~(Starts' > 0)
    <3> HIDE DEF Starts
    <3> QED
      BY <1>7, SMTT(30), Z3T(30)
  <2>5. (timers' > 0 => state' = "kDisconnected") /\ state' # "kConnecting"
    OBVIOUS
  <2> QED
    BY <1>6, <2>3, <2>4, <2>5, Zenon DEF AttemptInv, Attempts
<1>11. ResetInv'
  <2>1. N(queue, Reset) + N(batch, Reset) = 0
    BY <1>1, Zenon DEF ResetInv, One
  <2>2. N(batch, Reset) \in Nat
    BY <1>1, CountsAreNat, ZenonT(60)
  <2>3. N(queue', Reset) + N(batch', Reset) = 1
    BY <1>4, <2>1, <2>2, SMTT(30), Z3T(30)
  <2>4. state' # "kConnecting"
    OBVIOUS
  <2>5. One(channel' # 0 /\ state' # "kConnecting") = 1
    BY <1>3, <2>4, ZenonT(60) DEF One
  <2>6. timers' > 0 /\ phase' = "functors" => overtaken'
    BY SMTT(30), Z3T(30)
  <2>7. phase' # "poll"
    OBVIOUS
  <2> QED
    BY <1>3, <2>3, <2>5, <2>6, <2>7, Zenon DEF ResetInv
<1>12. ActiveInv'
  <2>1. <<"timer", 0>> \notin active'
    <3>1. ~(timers > 0)
      BY <1>3, SMTT(30), Z3T(30)
    <3> QED
      BY <1>1, <3>1, ZenonT(60) DEF ActiveInv
  <2>2. \A fd \in Fds : <<"close", fd>> \in active' => Live(fd) /\ closeCallback[fd] # "client"
    BY <1>1, <1>2, <1>3, Zenon DEF ActiveInv, ConnInv
  <2> QED
    BY <2>1, <2>2, Zenon DEF ActiveInv, Live
<1>13. ConnInv'
  BY <1>1, <1>4, <1>5, FunctorsDiffer, Zenon DEF ConnInv, Live
<1>14. StopInv'
  BY <1>1, <1>4, FunctorsDiffer, ZenonT(30) DEF StopInv, Halted
<1>15. SocketsOwned'
  BY <1>1 DEF SocketsOwned, Live
<1> QED
  BY <1>8, <1>9, <1>10, <1>11, <1>12, <1>13, <1>14, <1>15, ZenonT(60) DEF IInv

\* What retry() does to the state.
LEMMA RetryIs ==
  ASSUME NEW sockets, NEW delay, NEW wanted \in BOOLEAN, retry(sockets, delay, 0, wanted)
  PROVE  /\ open' = sockets /\ state' = "kDisconnected"
         /\ timers' \in {0, 1} /\ (timers' = 1 => wanted)
<1>1. open' = sockets /\ state' = "kDisconnected" /\ timers' = IF wanted THEN 0 + 1 ELSE 0
  BY Zenon DEF retry
<1>2. CASE wanted
  BY <1>1, <1>2, SMTT(30), Z3T(30)
<1>3. CASE ~wanted
  BY <1>1, <1>3, SMTT(30), Z3T(30)
<1> QED
  BY <1>2, <1>3

\* The connector's channel is ready and the connection is not made.
LEMMA connectorEndsInv ==
  ASSUME IInv, ~fault, phase = "events", active' \subseteq active,
         connectSucceeds(FALSE) \/ connectFails, UNCHANGED <<clientVars, phase, batch>>
  PROVE  IInv'
<1>1. TypeInv /\ AttemptInv
  BY SMTT(30), Z3T(30) DEF IInv
<1>2. /\ state = "kConnecting" /\ queue' = Append(queue, Reset) /\ channel' = channel
      /\ UNCHANGED <<connect_, fault>>
  BY SMTT(30), Z3T(30) DEF connectSucceeds, connectFails, removeAndResetChannel, Reset
<1>3. timers = 0
  BY <1>1, <1>2, OneKind, SMTT(30), Z3T(30)
<1>4. /\ open' = open \ {channel} /\ state' \in {"kDisconnected", "kConnected"} /\ timers' \in {0, 1}
      /\ timers' = 1 => state' = "kDisconnected"
  <2>1. CASE connectSucceeds(FALSE)
    BY <1>3, <2>1 DEF connectSucceeds
  <2>2. CASE connectFails
    <3>1. retry(open \ {channel}, retryDelay, 0, connect_) /\ connect_ \in BOOLEAN
      BY <1>1, <1>3, <2>2, ZenonT(60) DEF connectFails, TypeInv
    <3> QED
      BY <3>1, RetryIs, Zenon
  <2> QED
    BY <2>1, <2>2, ZenonT(60)
<1>5. /\ stopped' \in BOOLEAN /\ stopped' = stopped /\ batch' \in Seq(Functor) /\ batch' = batch
      /\ UNCHANGED <<phase, clientConnect, connection, connState, closeCallback,
                     alive, called, posting, late, overtaken>>
  BY <1>1, SMTT(30), Z3T(30) DEF TypeInv, clientVars
<1> QED
  BY <1>2, <1>4, <1>5, EndedInv, SMTT(30), Z3T(30)

\* newConnection(): the connecting socket becomes the connection's.  After a stop
\* only an overtaken one gets here.
LEMMA newConnectionInv ==
  ASSUME IInv, ~fault, phase = "events", active' \subseteq active,
         newConnection, UNCHANGED <<phase, batch>>
  PROVE  IInv'
<1>1. TypeInv /\ PhaseInv /\ AttemptInv /\ ResetInv /\ ActiveInv /\ ConnInv /\ StopInv /\ SocketsOwned
  BY SMTT(30), Z3T(30) DEF IInv
<1>2. 0 \notin Fds
  BY SocketAssumption, SMTT(30), Z3T(30)
<1>3. /\ state = "kConnecting" /\ state' = "kConnected" /\ connect_ = TRUE
      /\ queue' = Append(queue, Reset) /\ open' = open /\ connection' = channel
      /\ connState' = [connState EXCEPT ![channel] = "kConnected"]
      /\ closeCallback' = [closeCallback EXCEPT ![channel] = "client"]
      /\ late' = (late \/ stopped)
      /\ UNCHANGED <<channel, connect_, timers, fault, clientConnect, alive, called, posting, stopped, overtaken>>
  BY SMTT(30), Z3T(30) DEF newConnection, connectSucceeds, removeAndResetChannel, Reset
<1>4. /\ Starts = 0 /\ timers = 0 /\ connection = 0 /\ phase # "restart"
      /\ channel \in Fds /\ connState[channel] = "none"
  <2>1. Starts = 0 /\ timers = 0 /\ connection = 0 /\ phase # "restart" /\ channel \in Fds
    BY <1>1, <1>3, OneKind, ZenonT(60) DEF Restarting, AttemptInv, TypeInv
  <2>2. connState[channel] = "none"
    BY <1>1, <1>3, <2>1, SMTT(30), Z3T(30) DEF SocketsOwned
  <2> QED
    BY <2>1, <2>2
<1>5. /\ queue' \in Seq(Functor) /\ Range(queue') = Range(queue) \cup {Reset}
      /\ N(queue', Reset) = N(queue, Reset) + 1
      /\ \A f : f # Reset => N(queue', f) = N(queue, f)
      /\ \A f : N(queue, f) \in Nat /\ N(queue', f) \in Nat
  BY <1>1, <1>3, QueueAdds, FunctorsDiffer, ZenonT(30)
<1>6. N(queue', Start) = N(queue, Start) /\ \A fd : N(queue', Destroy(fd)) = N(queue, Destroy(fd))
  BY <1>5, FunctorsDiffer, Zenon
<1>7. /\ "connect" \in called /\ alive /\ ("stop" \in called => overtaken)
  BY <1>1, <1>3, <1>4, ZenonT(60) DEF AttemptInv, StopInv
<1>8. /\ connState' \in [Fds -> {"none", "kConnected", "kDisconnecting", "kDisconnected"}]
      /\ closeCallback' \in [Fds -> {"client", "detail"}]
      /\ connState'[channel] = "kConnected" /\ closeCallback'[channel] = "client"
      /\ \A fd \in Fds : fd # channel => connState'[fd] = connState[fd] /\ closeCallback'[fd] = closeCallback[fd]
  BY <1>1, <1>3, <1>4, SMTT(30), Z3T(30) DEF TypeInv
<1>9. \A fd \in Fds : ~(Live(fd) /\ closeCallback[fd] = "client") /\ closeCallback[fd] # "detail"
  BY <1>1, <1>2, <1>4, ZenonT(60) DEF ConnInv
<1>10. late' \in BOOLEAN /\ (late' => overtaken)
  BY <1>1, <1>3, <1>7, SMTT(30), Z3T(30) DEF StopInv, TypeInv, Halted
<1>11. TypeInv'
  BY <1>1, <1>3, <1>4, <1>5, <1>8, <1>10, ZenonT(60) DEF TypeInv
<1>12. PhaseInv'
  BY <1>1, <1>3, Zenon DEF PhaseInv
<1>13. AttemptInv'
  <2>1. Starts' = 0
    BY <1>3, <1>4, <1>6, SMTT(30), Z3T(30) DEF Starts
  <2>2. One(state' = "kConnecting") = 0 /\ One(Restarting') = 1 /\ timers' = 0
    BY <1>2, <1>3, <1>4, SMTT(30), Z3T(30) DEF One, Restarting
  <2>3. Starts' + timers' + One(state' = "kConnecting") + One(Restarting') <= 1
    <3> HIDE DEF Starts, Restarting
    <3> QED
      BY <2>1, <2>2, SMTT(30), Z3T(30)
  <2>4. ~(Starts' > 0) /\ ~(timers' > 0)
    BY <2>1, <2>2
  <2> QED
    BY <1>3, <1>7, <2>3, <2>4, ZenonT(60) DEF AttemptInv, Attempts
<1>14. ResetInv'
  <2>1. N(queue, Reset) + N(batch, Reset) = 0
    BY <1>1, <1>3 DEF ResetInv, One
  <2>2. N(batch, Reset) \in Nat
    BY <1>1, CountsAreNat, ZenonT(60)
  <2>3. N(queue', Reset) + N(batch', Reset) = One(channel' # 0 /\ state' # "kConnecting")
    BY <1>2, <1>3, <1>4, <1>5, <2>1, <2>2, SMTT(30), Z3T(30) DEF One
  <2> QED
    BY <2>3, ZenonT(60) DEF ResetInv
<1>15. ActiveInv'
  <2>1. <<"timer", 0>> \notin active'
    BY <1>1, <1>4 DEF ActiveInv
  <2>2. \A fd \in Fds : <<"close", fd>> \notin active'
    <3>1. \A fd \in Fds : <<"close", fd>> \in active => Live(fd)
      BY <1>1 DEF ActiveInv
    <3>2. \A fd \in Fds : closeCallback[fd] \in {"client", "detail"}
      BY <1>1, Zenon DEF TypeInv
    <3> QED
      BY <1>9, <3>1, <3>2, Zenon
  <2> QED
    BY <2>1, <2>2, ZenonT(60) DEF ActiveInv
<1>16. ConnInv'
  <2>1. \A fd \in Fds : Live(fd)' /\ closeCallback'[fd] = "client" => connection' = fd /\ alive'
    BY <1>3, <1>7, <1>8, <1>9, SMTT(30), Z3T(30) DEF Live
  <2>2. \A fd \in Fds : closeCallback'[fd] # "detail"
    BY <1>8, <1>9
  <2>3. \A fd \in Fds : ForceClose(fd) \notin Range(queue') \cup Range(batch')
    BY <1>1, <1>5, <1>9, FunctorsDiffer, ZenonT(30) DEF ConnInv
  <2>4. \A fd \in Fds :
          N(queue', Destroy(fd)) + N(batch', Destroy(fd)) = One(connState'[fd] = "kDisconnected")
    BY <1>1, <1>4, <1>6, <1>8, SMTT(30), Z3T(30) DEF ConnInv, One
  <2> QED
    BY <2>1, <2>2, <2>3, <2>4, ZenonT(60) DEF ConnInv
<1>17. StopInv'
  BY <1>1, <1>3, <1>5, <1>7, <1>10, FunctorsDiffer, ZenonT(60) DEF StopInv, Halted
<1>18. SocketsOwned'
  <2>1. open = {fd \in Fds : connState[fd] # "none"} \cup {channel}
    BY <1>1, <1>3, ZenonT(60) DEF SocketsOwned
  <2>2. open' = {fd \in Fds : connState'[fd] # "none"}
    BY <1>3, <1>4, <1>8, <2>1, SMTT(30), Z3T(30)
  <2> QED
    BY <1>3, <1>8, <2>2, Zenon DEF SocketsOwned, Live
<1> QED
  BY <1>11, <1>12, <1>13, <1>14, <1>15, <1>16, <1>17, <1>18, SMTT(30), Z3T(30) DEF IInv

\* The connector's channel is ready.
LEMMA handleConnectorInv == IInv /\ ~fault /\ handleConnector => IInv'
<1> SUFFICES ASSUME IInv, ~fault, handleConnector PROVE IInv'
  OBVIOUS
<1>1. phase = "events" /\ active' \subseteq active /\ UNCHANGED <<phase, batch>>
  BY DEF handleConnector
<1>2. CASE newConnection
  BY <1>1, <1>2, newConnectionInv
<1>3. CASE (connectSucceeds(FALSE) \/ connectFails) /\ UNCHANGED clientVars
  BY <1>1, <1>3, connectorEndsInv, ZenonT(30)
<1> QED
  BY <1>2, <1>3, Zenon DEF handleConnector
-----------------------------------------------------------------------------
(* The end of a connection *)

\* handleClose(): the connection is queued for its destruction; the client's one
\* leaves a restart behind, and finds the channel reset.
LEMMA CloseInv ==
  ASSUME IInv, ~fault, NEW fd \in Fds, Live(fd), handleClose(fd),
         phase = "events" \/ (phase = "functors" /\ closeCallback[fd] = "detail"),
         phase = "events" => batch' = batch,
         closeCallback[fd] = "client" => N(queue, Reset) = 0,
         active' \subseteq active, <<"close", fd>> \notin active',
         batch' \in Seq(Functor), Range(batch') \subseteq Range(batch),
         N(batch', Start) = N(batch, Start), N(batch', Reset) = N(batch, Reset),
         \A g \in Fds : N(batch', Destroy(g)) = N(batch, Destroy(g))
  PROVE  IInv'
<1>1. TypeInv /\ PhaseInv /\ AttemptInv /\ ResetInv /\ ActiveInv /\ ConnInv /\ StopInv /\ SocketsOwned
  BY ZenonT(60) DEF IInv
<1>2. 0 \notin Fds
  BY SocketAssumption, SMTT(30), Z3T(30)
<1>3. /\ connState' = [connState EXCEPT ![fd] = "kDisconnected"]
      /\ queue' = Append(queue, Destroy(fd))
      /\ UNCHANGED <<connect_, state, channel, timers, open,
                     clientConnect, closeCallback, alive, called, posting, stopped, late, overtaken>>
  BY Zenon DEF handleClose, Destroy
<1>4. /\ queue' \in Seq(Functor) /\ Range(queue') = Range(queue) \cup {Destroy(fd)}
      /\ N(queue', Destroy(fd)) = N(queue, Destroy(fd)) + 1
      /\ \A f : f # Destroy(fd) => N(queue', f) = N(queue, f)
      /\ \A f : N(queue, f) \in Nat /\ N(queue', f) \in Nat
  BY <1>1, <1>3, QueueAdds, FunctorsDiffer, Zenon
<1>5. /\ N(queue', Start) = N(queue, Start) /\ N(queue', Reset) = N(queue, Reset)
      /\ \A g : g # fd => N(queue', Destroy(g)) = N(queue, Destroy(g))
  BY <1>4, FunctorsDiffer, ZenonT(30)
<1>6. /\ connState' \in [Fds -> {"none", "kConnected", "kDisconnecting", "kDisconnected"}]
      /\ connState'[fd] = "kDisconnected" /\ connState[fd] \notin {"none", "kDisconnected"}
      /\ \A g \in Fds : g # fd => connState'[g] = connState[g]
  BY <1>1, <1>3, ZenonT(60) DEF TypeInv, Live
<1>7. closeCallback[fd] \in {"client", "detail"}
  BY <1>1 DEF TypeInv
<1>8. /\ closeCallback[fd] = "detail" => UNCHANGED <<connection, fault, phase>> /\ ~alive
      /\ closeCallback[fd] = "client" =>
           /\ connection = fd /\ alive /\ connection' = 0 /\ fault' = FALSE
           /\ phase' = IF clientConnect THEN "restart" ELSE phase
           /\ phase = "events" /\ channel = 0
  <2>1. closeCallback[fd] = "detail" => UNCHANGED <<connection, fault, phase>> /\ ~alive
    BY <1>1, ZenonT(60) DEF ConnInv, handleClose
  <2>2. ASSUME closeCallback[fd] = "client" PROVE connection = fd /\ alive /\ phase = "events"
    BY <1>1, <2>2 DEF ConnInv
  <2>3. ASSUME closeCallback[fd] = "client"
        PROVE  connection' = 0 /\ fault' = FALSE /\ phase' = IF clientConnect THEN "restart" ELSE phase
    <3>1. closeCallback[fd] # "detail"
      BY <2>3
    <3>2. connection' = 0 /\ fault' = (connection # fd) /\ phase' = IF clientConnect THEN "restart" ELSE phase
      BY <3>1, ZenonT(30) DEF handleClose
    <3> QED
      BY <2>2, <2>3, <3>2, ZenonT(30)
  <2>4. ASSUME closeCallback[fd] = "client" PROVE channel = 0
    <3>1. connection = fd /\ phase = "events"
      BY <2>2, <2>4, Zenon
    <3>2. state # "kConnecting"
      BY <1>1, <1>2, <3>1, OneKind, Zenon DEF Restarting
    <3>3. N(queue, Reset) = 0 /\ N(batch, Reset) = 0
      BY <1>1, <2>4, <3>1, CountNone, Zenon DEF PhaseInv
    <3> QED
      BY <1>1, <3>2, <3>3, SMTT(30), Z3T(30) DEF ResetInv, One
  <2> QED
    BY <2>1, <2>2, <2>3, <2>4, Zenon
<1>9. /\ connection' \in Fds \cup {0} /\ fault' \in BOOLEAN /\ (fault' => FALSE)
      /\ phase' \in {"events", "functors", "restart"}
  <2>1. CASE closeCallback[fd] = "detail"
    BY <1>1, <1>8, <2>1, SMTT(30), Z3T(30) DEF TypeInv
  <2>2. CASE closeCallback[fd] = "client"
    <3>1. connection' = 0 /\ fault' = FALSE
      BY <1>8, <2>2
    <3>2. phase' \in {"events", "restart"}
      <4>1. phase' = IF clientConnect THEN "restart" ELSE phase
        BY <1>8, <2>2
      <4>2. CASE clientConnect
        BY <4>1, <4>2, ZenonT(60)
      <4>3. CASE ~clientConnect
        BY <1>8, <2>2, <4>1, <4>3, SMTT(30), Z3T(30)
      <4> QED
        BY <4>2, <4>3, ZenonT(60)
    <3> QED
      BY <3>1, <3>2, ZenonT(60)
  <2> QED
    BY <1>7, <2>1, <2>2, ZenonT(60)
<1>10. TypeInv'
  BY <1>1, <1>3, <1>4, <1>6, <1>9, ZenonT(60) DEF TypeInv
<1>11. PhaseInv'
  <2>1. CASE closeCallback[fd] = "detail"
    BY <1>1, <1>3, <1>8, <2>1, Zenon DEF PhaseInv
  <2>2. CASE closeCallback[fd] = "client"
    <3>1. phase' \in {"events", "restart"} /\ (phase' = "restart" => clientConnect)
      BY <1>8, <2>2, SMTT(30), Z3T(30)
    <3>2. clientConnect => "stop" \notin called
      BY <1>1, Zenon DEF StopInv
    <3>3. batch' = <<>>
      BY <1>1, <1>8, <2>2, ZenonT(60) DEF PhaseInv
    <3> QED
      BY <1>3, <1>8, <2>2, <3>1, <3>2, <3>3, ZenonT(30) DEF PhaseInv
  <2> QED
    BY <1>7, <2>1, <2>2, Zenon
<1>12. AttemptInv'
  <2>1. Starts' = Starts
    BY <1>3, <1>5, Zenon DEF Starts
  <2>2. Restarting' => Restarting
    BY <1>2, <1>7, <1>8, ZenonT(60) DEF Restarting
  <2>3. Attempts' <= 1
    <3>1. Starts \in Nat /\ timers \in Nat /\ Starts + timers + One(state = "kConnecting") + One(Restarting) <= 1
      BY <1>1, OneKind, ZenonT(60) DEF AttemptInv, Attempts
    <3>2. Starts + timers + One(state = "kConnecting") + One(Restarting') <= 1
      <4> HIDE DEF Starts, Restarting
      <4> QED
        BY <2>2, <3>1, SMTT(30), Z3T(30) DEF One
    <3> QED
      BY <1>3, <2>1, <3>2, SMTT(30), Z3T(30) DEF Attempts
  <2>4. "connect" \in called
    <3>1. ASSUME "connect" \notin called PROVE alive /\ connection = 0
      <4>1. alive /\ Starts \in Nat /\ timers \in Nat
            /\ Starts + timers + One(state = "kConnecting") + One(Restarting) = 0
        BY <1>1, <3>1, OneKind, ZenonT(60) DEF AttemptInv, Attempts
      <4>2. ~Restarting
        <5> HIDE DEF Starts, Restarting
        <5> QED
          BY <4>1, SMTT(30), Z3T(30) DEF One
      <4> QED
        BY <4>1, <4>2, SMTT(30), Z3T(30) DEF Restarting
    <3> QED
      BY <1>2, <1>7, <1>8, <3>1, ZenonT(30)
  <2> QED
    BY <1>1, <1>3, <2>1, <2>3, <2>4, SMTT(30), Z3T(30) DEF AttemptInv
<1>13. ResetInv'
  <2>1. CASE closeCallback[fd] = "detail"
    BY <1>1, <1>3, <1>5, <1>8, <2>1, ZenonT(60) DEF ResetInv
  <2>2. CASE closeCallback[fd] = "client"
    BY <1>1, <1>3, <1>5, <1>8, <2>2, ZenonT(60) DEF ResetInv
  <2> QED
    BY <1>7, <2>1, <2>2, SMTT(30), Z3T(30)
<1>14. ActiveInv'
  BY <1>1, <1>3, <1>5, <1>6, ZenonT(60) DEF ActiveInv, Live
<1>15. ConnInv'
  <2>1. \A g \in Fds : Live(g)' /\ closeCallback'[g] = "client" => connection' = g /\ alive'
    <3> SUFFICES ASSUME NEW g \in Fds, Live(g)', closeCallback'[g] = "client"
                 PROVE  connection' = g /\ alive'
      BY Zenon
    <3>1. g # fd /\ Live(g)
      BY <1>6, Zenon DEF Live
    <3>2. connection = g /\ alive
      BY <1>1, <1>3, <3>1, Zenon DEF ConnInv
    <3> QED
      BY <1>3, <1>7, <1>8, <3>1, <3>2, SMTT(30), Z3T(30)
  <2>2. \A g \in Fds : closeCallback'[g] = "detail" => ~alive' /\ connection' # 0
    BY <1>1, <1>3, <1>7, <1>8, Zenon DEF ConnInv
  <2>3. \A g \in Fds : ForceClose(g) \in Range(queue') \cup Range(batch') => closeCallback'[g] = "detail"
    BY <1>1, <1>3, <1>4, FunctorsDiffer, Zenon DEF ConnInv
  <2>4. \A g \in Fds :
          N(queue', Destroy(g)) + N(batch', Destroy(g)) = One(connState'[g] = "kDisconnected")
    <3> SUFFICES ASSUME NEW g \in Fds
                 PROVE  N(queue', Destroy(g)) + N(batch', Destroy(g)) = One(connState'[g] = "kDisconnected")
      BY ZenonT(30)
    <3>1. N(queue, Destroy(g)) + N(batch, Destroy(g)) = One(connState[g] = "kDisconnected")
      BY <1>1, ZenonT(60) DEF ConnInv
    <3>2. N(batch, Destroy(g)) \in Nat
      BY <1>1, CountsAreNat
    <3>3. CASE g = fd
      <4>1. N(queue, Destroy(fd)) + N(batch, Destroy(fd)) = 0
        BY <1>6, <3>1, <3>3, ZenonT(30) DEF One
      <4>2. N(queue, Destroy(fd)) \in Nat /\ N(batch, Destroy(fd)) \in Nat
        BY <1>4, <3>2, <3>3, ZenonT(60)
      <4>3. N(queue', Destroy(fd)) = 1 /\ N(batch', Destroy(fd)) = 0
        BY <1>4, <4>1, <4>2, SMTT(30), Z3T(30)
      <4>4. One(connState'[g] = "kDisconnected") = 1
        BY <1>6, <3>3, ZenonT(60) DEF One
      <4> QED
        BY <3>3, <4>3, <4>4, OneAndNone, ZenonT(60)
    <3>4. CASE g # fd
      BY <1>5, <1>6, <3>1, <3>4, ZenonT(60) DEF One
    <3> QED
      BY <3>3, <3>4, ZenonT(60)
  <2> QED
    BY <2>1, <2>2, <2>3, <2>4, ZenonT(60) DEF ConnInv
<1>16. StopInv'
  <2>1. Stop \in Range(queue') \cup Range(batch') \cup Range(posting') =>
          Stop \in Range(queue) \cup Range(batch) \cup Range(posting)
    BY <1>3, <1>4, FunctorsDiffer, ZenonT(30)
  <2>2. Halted => Halted'
    BY <1>3, <1>7, <1>8, ZenonT(60) DEF Halted
  <2>3. ~alive' /\ connection' = 0 => ~connect_'
    BY <1>1, <1>3, <1>7, <1>8, SMTT(30), Z3T(30) DEF StopInv
  <2> QED
    BY <1>1, <1>3, <1>9, <2>1, <2>2, <2>3, ZenonT(60) DEF StopInv
<1>17. SocketsOwned'
  <2>1. {g \in Fds : connState'[g] # "none"} = {g \in Fds : connState[g] # "none"}
    BY <1>6, ZenonT(30)
  <2>2. alive' => connection' = 0
    BY <1>3, <1>7, <1>8, ZenonT(60)
  <2> QED
    BY <1>1, <1>3, <2>1, <2>2, Zenon DEF SocketsOwned
<1> QED
  BY <1>10, <1>11, <1>12, <1>13, <1>14, <1>15, <1>16, <1>17, SMTT(30), Z3T(30) DEF IInv

\* The peer has closed the connection fd.
LEMMA connectionClosesInv ==
  ASSUME IInv, ~fault, NEW fd \in Fds, connectionCloses(fd)
  PROVE  IInv'
<1>1. TypeInv /\ ActiveInv
  BY SMTT(30), Z3T(30) DEF IInv
<1>2. /\ phase = "events" /\ <<"close", fd>> \in active /\ active' = active \ {<<"close", fd>>}
      /\ handleClose(fd) /\ batch' = batch
  BY SMTT(30), Z3T(30) DEF connectionCloses
<1>3. Live(fd) /\ (closeCallback[fd] = "client" => N(queue, Reset) = 0)
  BY <1>1, <1>2, SMTT(30), Z3T(30) DEF ActiveInv
<1>4. batch' \in Seq(Functor)
  BY <1>1, <1>2, Zenon DEF TypeInv
<1> QED
  BY <1>2, <1>3, <1>4, CloseInv, SMTT(30), Z3T(30)
-----------------------------------------------------------------------------
(* The functors the loop calls *)

\* A functor that finds nothing to do.
LEMMA IdleFunctorInv ==
  ASSUME IInv, ~fault, phase = "functors", stopped' \in BOOLEAN, stopped' => stopped \/ Halted,
         batch' \in Seq(Functor), Range(batch') \subseteq Range(batch),
         N(batch', Start) = N(batch, Start), N(batch', Reset) = N(batch, Reset),
         \A fd \in Fds : N(batch', Destroy(fd)) = N(batch, Destroy(fd)),
         UNCHANGED <<connectorVars, phase, active, clientConnect, connection, connState, closeCallback,
                     alive, called, posting, late, overtaken>>
  PROVE  IInv'
<1> USE DEF connectorVars
<1>1. TypeInv /\ PhaseInv /\ AttemptInv /\ ResetInv /\ ActiveInv /\ ConnInv /\ StopInv /\ SocketsOwned
  BY DEF IInv
<1>2. TypeInv'
  BY <1>1, ZenonT(30) DEF TypeInv
<1>3. PhaseInv'
  BY <1>1 DEF PhaseInv
<1>4. AttemptInv'
  BY <1>1, ZenonT(30) DEF AttemptInv, Attempts, Starts, Restarting
<1>5. ResetInv'
  BY <1>1 DEF ResetInv
<1>6. ActiveInv'
  BY <1>1, Zenon DEF ActiveInv, Live
<1>7. ConnInv'
  BY <1>1, ZenonT(30) DEF ConnInv, Live
<1>8. StopInv'
  BY <1>1, Zenon DEF StopInv, Halted
<1>9. SocketsOwned'
  BY <1>1, ZenonT(60) DEF SocketsOwned, Live
<1> QED
  BY <1>2, <1>3, <1>4, <1>5, <1>6, <1>7, <1>8, <1>9, ZenonT(60) DEF IInv

\* A functor that was called is no longer in the batch.
Called(x) == phase = "functors" /\ batch # <<>> /\ batch' = Tail(batch) /\ x = Head(batch) /\ active' = active

\* startInLoop(): the attempt was that functor.
LEMMA StartFunctorInv ==
  ASSUME IInv, ~fault, Called(Start), startInLoop(timers), UNCHANGED <<connect_, queue, phase, clientVars>>
  PROVE  IInv'
<1>1. TypeInv /\ PhaseInv /\ AttemptInv /\ StopInv
  BY ZenonT(60) DEF IInv
<1>2. /\ phase = "functors" /\ batch' \in Seq(Functor) /\ Range(batch') \subseteq Range(batch)
      /\ N(batch, Start) = N(batch', Start) + 1
      /\ \A f : f # Start => N(batch', f) = N(batch, f)
      /\ \A f : N(batch, f) \in Nat /\ N(batch', f) \in Nat
  BY <1>1, BatchTakes, SMTT(30), Z3T(30) DEF Called
<1>3. /\ N(batch', Reset) = N(batch, Reset) /\ \A fd \in Fds : N(batch', Destroy(fd)) = N(batch, Destroy(fd))
  BY <1>2, FunctorsDiffer
<1>4. N(posting, Start) \in Nat /\ N(queue, Start) \in Nat
  BY <1>1, CountsAreNat, ZenonT(60)
<1>5. Starts > 0
  BY <1>2, <1>4, SMTT(30), Z3T(30) DEF Starts
<1>6. Starts = 1 /\ timers = 0 /\ ~Restarting /\ state = "kDisconnected" /\ channel = 0
  BY <1>1, <1>5, OneKind, ZenonT(60) DEF AttemptInv
<1>7. Starts' = 0
  <2>1. N(posting, Start) + N(queue, Start) + N(batch, Start) = 1
    BY <1>6, ZenonT(60) DEF Starts
  <2>2. N(posting, Start) + N(queue, Start) + N(batch', Start) = 0
    BY <1>2, <1>4, <2>1, SMTT(30), Z3T(30)
  <2> QED
    BY <2>2 DEF Starts, clientVars
<1>8. Tried
  BY <1>6, StartTries, SMTT(30), Z3T(30)
<1>9. connection = 0 /\ "connect" \in called
  <2>1. "connect" \notin called => Starts + timers + One(state = "kConnecting") + One(Restarting) = 0
    BY <1>1, SMTT(30), Z3T(30) DEF AttemptInv, Attempts
  <2>2. "connect" \notin called => FALSE
    BY <1>6, <2>1, SMTT(30), Z3T(30) DEF One
  <2> QED
    BY <1>6, <2>2, SMTT(30), Z3T(30) DEF Restarting
<1>10. connect_' \in BOOLEAN /\ ("stop" \in called /\ connect_' => overtaken) /\ (~alive => ~connect_')
  BY <1>1, <1>9 DEF StopInv, TypeInv
<1>11. active = {} /\ active' = active /\ phase' = "functors"
  BY <1>1, <1>2, ZenonT(60) DEF PhaseInv, Called
<1> QED
  BY <1>2, <1>3, <1>6, <1>7, <1>8, <1>9, <1>10, <1>11, TriedInv, SMTT(30), Z3T(30)

\* stopInLoop(): when it sets a timer, restart() has overtaken stop().
LEMMA StopFunctorInv ==
  ASSUME IInv, ~fault, Called(Stop), stopInLoop, stopped' = TRUE,
         UNCHANGED <<connect_, phase, clientConnect, connection, connState, closeCallback,
                     alive, called, posting, late, overtaken>>
  PROVE  IInv'
<1>1. TypeInv /\ PhaseInv /\ AttemptInv /\ StopInv
  BY ZenonT(60) DEF IInv
<1>2. /\ phase = "functors" /\ batch' \in Seq(Functor) /\ Range(batch') \subseteq Range(batch)
      /\ Stop \in Range(batch) /\ active' = active
      /\ \A f : f # Stop => N(batch', f) = N(batch, f)
  BY <1>1, BatchTakes, SMTT(30), Z3T(30) DEF Called
<1>3. /\ N(batch', Start) = N(batch, Start) /\ N(batch', Reset) = N(batch, Reset)
      /\ \A fd \in Fds : N(batch', Destroy(fd)) = N(batch, Destroy(fd))
  BY <1>2, FunctorsDiffer, ZenonT(60)
<1>4. Halted /\ (connect_ => overtaken)
  BY <1>1, <1>2, SMTT(30), Z3T(30) DEF StopInv, Halted
<1>5. CASE /\ state = "kConnecting"
           /\ removeAndResetChannel
           /\ retry(open \ {channel}, retryDelay, timers, connect_)
           /\ UNCHANGED <<gaveUp, fault>>
  <2>1. timers = 0
    BY <1>1, <1>5, OneKind, ZenonT(60)
  <2>2. retry(open \ {channel}, retryDelay, 0, connect_) /\ connect_ \in BOOLEAN
    BY <1>1, <1>5, <2>1, SMTT(30), Z3T(30) DEF TypeInv
  <2>3. /\ open' = open \ {channel} /\ state' = "kDisconnected"
        /\ timers' \in {0, 1} /\ (timers' = 1 => overtaken)
    BY <1>4, <2>2, RetryIs, SMTT(30), Z3T(30)
  <2>4. queue' = Append(queue, Reset) /\ channel' = channel
    BY <1>5 DEF removeAndResetChannel, Reset
  <2> QED
    BY <1>2, <1>3, <1>4, <1>5, <2>3, <2>4, EndedInv, ZenonT(60)
<1>6. CASE UNCHANGED <<state, channel, watched, retryDelay, timers, open, queue, gaveUp, fault>>
  BY <1>2, <1>3, <1>4, <1>6, IdleFunctorInv, ZenonT(60) DEF connectorVars
<1> QED
  BY <1>5, <1>6 DEF stopInLoop

\* resetChannel(): the channel was done with, and no second reset follows.
LEMMA ResetFunctorInv ==
  ASSUME IInv, ~fault, Called(Reset), resetChannel, UNCHANGED <<connect_, phase, clientVars>>
  PROVE  IInv'
<1>1. TypeInv /\ PhaseInv /\ AttemptInv /\ ResetInv /\ ActiveInv /\ ConnInv /\ StopInv /\ SocketsOwned
  BY ZenonT(60) DEF IInv
<1>2. /\ phase = "functors" /\ batch' \in Seq(Functor) /\ Range(batch') \subseteq Range(batch)
      /\ N(batch, Reset) = N(batch', Reset) + 1
      /\ \A f : f # Reset => N(batch', f) = N(batch, f)
      /\ \A f : N(batch, f) \in Nat /\ N(batch', f) \in Nat
      /\ active' = active
  BY <1>1, BatchTakes, SMTT(30), Z3T(30) DEF Called
<1>3. /\ N(batch', Start) = N(batch, Start) /\ \A fd \in Fds : N(batch', Destroy(fd)) = N(batch, Destroy(fd))
  BY <1>2, FunctorsDiffer, SMTT(30), Z3T(30)
<1>4. /\ channel' = 0
      /\ UNCHANGED <<state, timers, open, queue, fault, connect_, phase, clientConnect, connection, connState,
                     closeCallback, alive, called, posting, stopped, late, overtaken>>
  BY SMTT(30), Z3T(30) DEF resetChannel, clientVars
<1>5. N(queue, Reset) = 0 /\ N(batch', Reset) = 0 /\ state # "kConnecting"
  <2>1. N(queue, Reset) \in Nat
    BY <1>1, CountsAreNat, SMTT(30), Z3T(30)
  <2>2. N(queue, Reset) + N(batch, Reset) = One(channel # 0 /\ state # "kConnecting")
    BY <1>1, SMTT(30), Z3T(30) DEF ResetInv
  <2>3. CASE channel # 0 /\ state # "kConnecting"
    BY <1>2, <2>1, <2>2, <2>3, SMTT(30), Z3T(30) DEF One
  <2>4. CASE ~(channel # 0 /\ state # "kConnecting")
    BY <1>2, <2>1, <2>2, <2>4, SMTT(30), Z3T(30) DEF One
  <2> QED
    BY <2>3, <2>4, SMTT(30), Z3T(30)
<1>6. TypeInv'
  BY <1>1, <1>2, <1>4, ZenonT(30) DEF TypeInv
<1>7. PhaseInv'
  BY <1>1, <1>2, <1>4, SMTT(30), Z3T(30) DEF PhaseInv
<1>8. AttemptInv'
  BY <1>1, <1>3, <1>4, <1>5, ZenonT(60) DEF AttemptInv, Attempts, Starts, Restarting
<1>9. ResetInv'
  BY <1>4, <1>5, SMTT(30), Z3T(30) DEF ResetInv, One
<1>10. ActiveInv'
  BY <1>1, <1>2, <1>4, Zenon DEF ActiveInv, Live
<1>11. ConnInv'
  BY <1>1, <1>2, <1>3, <1>4, ZenonT(30) DEF ConnInv, Live
<1>12. StopInv'
  <2>1. Stop \in Range(queue') \cup Range(batch') \cup Range(posting') =>
          Stop \in Range(queue) \cup Range(batch) \cup Range(posting)
    BY <1>2, <1>4
  <2>2. Halted' <=> Halted
    BY <1>4, ZenonT(60) DEF Halted
  <2> QED
    BY <1>1, <1>4, <2>1, <2>2, SMTT(30), Z3T(30) DEF StopInv
<1>13. SocketsOwned'
  BY <1>1, <1>4, <1>5, SMTT(30), Z3T(30) DEF SocketsOwned, Live
<1> QED
  BY <1>6, <1>7, <1>8, <1>9, <1>10, <1>11, <1>12, <1>13, SMTT(30), Z3T(30) DEF IInv

\* connectDestroyed(): the socket of a closed connection is closed, once.
LEMMA DestroyFunctorInv ==
  ASSUME IInv, ~fault, NEW fd \in Fds, Called(Destroy(fd)), connectDestroyed(fd), UNCHANGED phase
  PROVE  IInv'
<1>1. TypeInv /\ PhaseInv /\ AttemptInv /\ ResetInv /\ ActiveInv /\ ConnInv /\ StopInv /\ SocketsOwned
  BY Zenon DEF IInv
<1>2. /\ phase = "functors" /\ batch' \in Seq(Functor) /\ Range(batch') \subseteq Range(batch)
      /\ N(batch, Destroy(fd)) = N(batch', Destroy(fd)) + 1
      /\ \A f : f # Destroy(fd) => N(batch', f) = N(batch, f)
      /\ \A f : N(batch, f) \in Nat /\ N(batch', f) \in Nat
      /\ active' = active
  BY <1>1, BatchTakes, Zenon DEF Called
<1>3. /\ N(batch', Start) = N(batch, Start) /\ N(batch', Reset) = N(batch, Reset)
      /\ \A g \in Fds : g # fd => N(batch', Destroy(g)) = N(batch, Destroy(g))
  BY <1>2, FunctorsDiffer, Zenon
<1>4. /\ connState' = [connState EXCEPT ![fd] = "none"] /\ open' = open \ {fd}
      /\ UNCHANGED <<state, channel, timers, queue, fault, connect_, phase, clientConnect, connection,
                     closeCallback, alive, called, posting, stopped, late, overtaken>>
  BY Zenon DEF connectDestroyed
<1>5. /\ N(queue, Destroy(fd)) = 0 /\ N(batch', Destroy(fd)) = 0
      /\ connState[fd] = "kDisconnected"
  <2>1. N(queue, Destroy(fd)) \in Nat
    BY <1>1, CountsAreNat, Zenon
  <2>2. N(queue, Destroy(fd)) + N(batch, Destroy(fd)) = One(connState[fd] = "kDisconnected")
    BY <1>1, ZenonT(60) DEF ConnInv
  <2>3. CASE connState[fd] = "kDisconnected"
    BY <1>2, <2>1, <2>2, <2>3, SMTT(30), Z3T(30) DEF One
  <2>4. CASE connState[fd] # "kDisconnected"
    BY <1>2, <2>1, <2>2, <2>4, SMTT(30), Z3T(30) DEF One
  <2> QED
    BY <2>3, <2>4
<1>6. /\ connState' \in [Fds -> {"none", "kConnected", "kDisconnecting", "kDisconnected"}]
      /\ connState'[fd] = "none"
      /\ \A g \in Fds : g # fd => connState'[g] = connState[g]
      /\ \A g \in Fds : Live(g)' <=> Live(g)
  BY <1>1, <1>4, <1>5, SMTT(30), Z3T(30) DEF TypeInv, Live
<1>7. TypeInv'
  BY <1>1, <1>2, <1>4, <1>6, ZenonT(30) DEF TypeInv
<1>8. PhaseInv'
  BY <1>1, <1>2, <1>4, SMTT(30), Z3T(30) DEF PhaseInv
<1>9. AttemptInv'
  BY <1>1, <1>3, <1>4, ZenonT(30) DEF AttemptInv, Attempts, Starts, Restarting
<1>10. ResetInv'
  BY <1>1, <1>3, <1>4, SMTT(30), Z3T(30) DEF ResetInv
<1>11. ActiveInv'
  BY <1>1, <1>2, <1>4, <1>6, Zenon DEF ActiveInv
<1>12. ConnInv'
  <2>1. \A g \in Fds :
          N(queue', Destroy(g)) + N(batch', Destroy(g)) = One(connState'[g] = "kDisconnected")
    <3> SUFFICES ASSUME NEW g \in Fds
                 PROVE  N(queue', Destroy(g)) + N(batch', Destroy(g)) = One(connState'[g] = "kDisconnected")
      BY ZenonT(60)
    <3>1. CASE g = fd
      BY <1>4, <1>5, <1>6, <3>1, SMTT(30), Z3T(30) DEF One
    <3>2. CASE g # fd
      <4>1. N(queue, Destroy(g)) + N(batch, Destroy(g)) = One(connState[g] = "kDisconnected")
        BY <1>1, ZenonT(30) DEF ConnInv
      <4> QED
        BY <1>3, <1>4, <1>6, <3>2, <4>1, ZenonT(60)
    <3> QED
      BY <3>1, <3>2, SMTT(30), Z3T(30)
  <2> QED
    BY <1>1, <1>2, <1>4, <1>6, <2>1, ZenonT(60) DEF ConnInv
<1>13. StopInv'
  BY <1>1, <1>2, <1>4, ZenonT(60) DEF StopInv, Halted
<1>14. SocketsOwned'
  <2>1. {g \in Fds : connState'[g] # "none"} = {g \in Fds : connState[g] # "none"} \ {fd}
    BY <1>6, SMTT(30), Z3T(30)
  <2>2. fd \in {g \in Fds : connState[g] # "none"}
    BY <1>5
  <2>3. connection \in Fds \cup {0}
    BY <1>1, ZenonT(60) DEF TypeInv
  <2>4. alive' /\ connection' # 0 => Live(connection)'
    BY <1>1, <1>4, <1>6, <2>3, SMTT(30), Z3T(30) DEF SocketsOwned
  <2> QED
    BY <1>1, <1>4, <2>1, <2>2, <2>4, SMTT(30), Z3T(30) DEF SocketsOwned
<1> QED
  BY <1>7, <1>8, <1>9, <1>10, <1>11, <1>12, <1>13, <1>14, SMTT(30), Z3T(30) DEF IInv

\* forceCloseInLoop(): a connection without its client.
LEMMA ForceFunctorInv ==
  ASSUME IInv, ~fault, NEW fd \in Fds, Called(ForceClose(fd)),
         \/ Live(fd) /\ handleClose(fd)
         \/ UNCHANGED <<connectorVars, phase, clientVars>>
  PROVE  IInv'
<1>1. TypeInv /\ PhaseInv /\ ConnInv
  BY Zenon DEF IInv
<1>2. /\ phase = "functors" /\ batch' \in Seq(Functor) /\ Range(batch') \subseteq Range(batch)
      /\ ForceClose(fd) \in Range(batch) /\ active' = active
      /\ \A f : f # ForceClose(fd) => N(batch', f) = N(batch, f)
  BY <1>1, BatchTakes, Zenon DEF Called
<1>3. /\ N(batch', Start) = N(batch, Start) /\ N(batch', Reset) = N(batch, Reset)
      /\ \A g \in Fds : N(batch', Destroy(g)) = N(batch, Destroy(g))
  BY <1>2, FunctorsDiffer, ZenonT(60)
<1>4. closeCallback[fd] = "detail" /\ active' = {}
  BY <1>1, <1>2, SMTT(30), Z3T(30) DEF ConnInv, PhaseInv
<1>5. CASE Live(fd) /\ handleClose(fd)
  BY <1>2, <1>3, <1>4, <1>5, CloseInv, Zenon
<1>6. CASE UNCHANGED <<connectorVars, phase, clientVars>>
  <2>1. /\ stopped' = stopped /\ stopped' \in BOOLEAN
        /\ UNCHANGED <<clientConnect, connection, connState, closeCallback, alive, called, posting, late, overtaken>>
    BY <1>1, <1>6, SMTT(30), Z3T(30) DEF clientVars, TypeInv
  <2> QED
    BY <1>2, <1>3, <1>6, <2>1, IdleFunctorInv, ZenonT(60)
<1> QED
  BY <1>5, <1>6

\* Every functor is one of these.
LEMMA callFunctorInv == IInv /\ ~fault /\ callFunctor => IInv'
<1> SUFFICES ASSUME IInv, ~fault, callFunctor PROVE IInv'
  OBVIOUS
<1> DEFINE x == Head(batch)
<1>1. TypeInv
  BY DEF IInv
<1>2. Called(x)
  BY Zenon DEF callFunctor, Called
<1>3. x \in Functor
  BY <1>1, <1>2, BatchTakes, ZenonT(60) DEF Called
<1>4. /\ x[1] = "startInLoop" <=> x = Start
      /\ x[1] = "stopInLoop" <=> x = Stop
      /\ x[1] = "resetChannel" <=> x = Reset
      /\ x[1] = "connectDestroyed" => x[2] \in Fds /\ x = Destroy(x[2])
      /\ x[1] = "forceCloseInLoop" => x[2] \in Fds /\ x = ForceClose(x[2])
  BY <1>3, FunctorNames
<1>5. \/ x[1] = "startInLoop" /\ startInLoop(timers) /\ UNCHANGED <<connect_, queue, phase, clientVars>>
      \/ /\ x[1] = "stopInLoop" /\ stopInLoop /\ stopped' = TRUE
         /\ UNCHANGED <<connect_, phase, clientConnect, connection, connState, closeCallback,
                        alive, called, posting, late, overtaken>>
      \/ x[1] = "resetChannel" /\ resetChannel /\ UNCHANGED <<connect_, phase, clientVars>>
      \/ x[1] = "connectDestroyed" /\ connectDestroyed(x[2]) /\ UNCHANGED phase
      \/ x[1] = "forceCloseInLoop" /\ Live(x[2]) /\ handleClose(x[2])
      \/ x[1] = "forceCloseInLoop" /\ ~Live(x[2]) /\ UNCHANGED <<connectorVars, phase, clientVars>>
  BY Zenon DEF callFunctor
<1> HIDE DEF x
<1>6. CASE x[1] = "startInLoop" /\ startInLoop(timers) /\ UNCHANGED <<connect_, queue, phase, clientVars>>
  BY <1>2, <1>4, <1>6, StartFunctorInv, ZenonT(60)
<1>7. CASE /\ x[1] = "stopInLoop" /\ stopInLoop /\ stopped' = TRUE
           /\ UNCHANGED <<connect_, phase, clientConnect, connection, connState, closeCallback,
                          alive, called, posting, late, overtaken>>
  BY <1>2, <1>4, <1>7, StopFunctorInv, SMTT(30), Z3T(30)
<1>8. CASE x[1] = "resetChannel" /\ resetChannel /\ UNCHANGED <<connect_, phase, clientVars>>
  BY <1>2, <1>4, <1>8, ResetFunctorInv, SMTT(30), Z3T(30)
<1>9. CASE x[1] = "connectDestroyed" /\ connectDestroyed(x[2]) /\ UNCHANGED phase
  BY <1>2, <1>4, <1>9, DestroyFunctorInv, SMTT(30), Z3T(30)
<1>10. CASE x[1] = "forceCloseInLoop" /\ Live(x[2]) /\ handleClose(x[2])
  BY <1>2, <1>4, <1>10, ForceFunctorInv, SMTT(30), Z3T(30)
<1>11. CASE x[1] = "forceCloseInLoop" /\ ~Live(x[2]) /\ UNCHANGED <<connectorVars, phase, clientVars>>
  BY <1>2, <1>4, <1>11, ForceFunctorInv, ZenonT(60)
<1> QED
  BY <1>5, <1>6, <1>7, <1>8, <1>9, <1>10, <1>11, ZenonT(60)
-----------------------------------------------------------------------------
(* The theorems *)

\* A step that changes nothing keeps the invariant.
LEMMA StutterInv == IInv /\ UNCHANGED vars => IInv'
<1> SUFFICES ASSUME IInv, UNCHANGED vars PROVE IInv'
  OBVIOUS
<1>1. UNCHANGED <<connectorVars, clientVars, loopVars>>
  BY ZenonT(60) DEF vars
<1> USE <1>1 DEF IInv, connectorVars, clientVars, loopVars
<1>2. TypeInv' /\ PhaseInv'
  BY DEF TypeInv, PhaseInv
<1>3. AttemptInv'
  BY Zenon DEF AttemptInv, Attempts, Starts, Restarting
<1>4. ResetInv' /\ ActiveInv'
  BY ZenonT(30) DEF ResetInv, ActiveInv, Live
<1>5. ConnInv'
  BY Zenon DEF ConnInv, Live
<1>6. StopInv'
  BY ZenonT(60) DEF StopInv, Halted
<1>7. SocketsOwned'
  BY DEF SocketsOwned, Live
<1> QED
  BY <1>2, <1>3, <1>4, <1>5, <1>6, <1>7, SMTT(30), Z3T(30)

\* Every step of the loop and of the user keeps the invariant.
LEMMA NextInv == IInv /\ [Next]_vars => IInv'
<1> SUFFICES ASSUME IInv, [Next]_vars PROVE IInv'
  BY SMTT(30), Z3T(30)
<1>1. CASE UNCHANGED vars
  BY <1>1, StutterInv, SMTT(30), Z3T(30)
<1>2. CASE ~fault /\ loop
  BY <1>2, pollInv, handleConnectorInv, handleTimerInv, connectionClosesInv, clientRestartsInv,
     swapFunctorsInv, callFunctorInv, endIterationInv, SMTT(30), Z3T(30) DEF loop
<1>3. CASE ~fault /\ user
  BY <1>3, userConnectInv, userDisconnectInv, userStopInv, userPostsInv, loopStopInv, destroyClientInv, SMTT(30), Z3T(30) DEF user
<1> QED
  BY <1>1, <1>2, <1>3, SMTT(30), Z3T(30) DEF Next

\* The queues, the connector, the connections and the loop's place in its
\* iteration always agree.
THEOREM ClientInductive == Spec => []IInv
  BY InitInv, NextInv, PTL DEF Spec

\* There is at most one attempt to connect, and the assertions of Connector and
\* TcpClient can only fail after restart() has overtaken a stop().
THEOREM OneAttemptAtATime == Spec => []OneAttempt
<1>1. IInv => OneAttempt
  <2> SUFFICES ASSUME IInv PROVE OneAttempt
    OBVIOUS
  <2>1. TypeInv /\ AttemptInv /\ StopInv
    BY SMTT(30), Z3T(30) DEF IInv
  <2>2. ASSUME NEW q \in Seq(Functor)
        PROVE  Cardinality({i \in DOMAIN q : q[i][1] = "startInLoop"}) = N(q, Start)
    <3>1. DOMAIN q = 1 .. Len(q) /\ \A i \in 1 .. Len(q) : q[i] \in Functor
      BY SMTT(30), Z3T(30)
    <3>2. \A i \in 1 .. Len(q) : q[i][1] = "startInLoop" <=> q[i] = Start
      BY <3>1, FunctorNames
    <3>3. {i \in DOMAIN q : q[i][1] = "startInLoop"} = Places(q, Start)
      BY <3>1, <3>2, Zenon DEF Places
    <3> QED
      BY <3>3 DEF N
  <2>3. queue \in Seq(Functor) /\ batch \in Seq(Functor)
    BY <2>1, SMTT(30), Z3T(30) DEF TypeInv
  <2>4. Count("startInLoop") = N(queue, Start) + N(batch, Start)
    BY <2>2, <2>3, Zenon DEF Count
  <2>5. /\ N(posting, Start) \in Nat /\ N(queue, Start) \in Nat /\ N(batch, Start) \in Nat
        /\ timers \in Nat
    BY <2>1, CountsAreNat, ZenonT(60) DEF TypeInv
  <2>6. N(posting, Start) + N(queue, Start) + N(batch, Start) + timers
          + One(state = "kConnecting") + One(Restarting) <= 1
    BY <2>1, SMTT(30), Z3T(30) DEF AttemptInv, Attempts, Starts
  <2>7. Count("startInLoop") + timers + One(state = "kConnecting") + One(Restarting) <= 1
    <3>1. One(state = "kConnecting") \in Nat /\ One(Restarting) \in Nat
      BY DEF One
    <3> HIDE DEF Restarting
    <3> QED
      BY <2>4, <2>5, <2>6, <3>1, SMTT(30), Z3T(30)
  <2>8. fault => overtaken
    BY <2>1, SMTT(30), Z3T(30) DEF StopInv
  <2> QED
    BY <2>7, <2>8 DEF OneAttempt, One, Restarting
<1> QED
  BY <1>1, ClientInductive, PTL

\* No socket is leaked and none is closed under its owner.
THEOREM SocketsStayOwned == Spec => []SocketsOwned
<1>1. IInv => SocketsOwned
  BY SMTT(30), Z3T(30) DEF IInv
<1> QED
  BY <1>1, ClientInductive, PTL

\* After stop() has taken effect no connection is reported, unless restart() has
\* overtaken it.
THEOREM StopStaysFinal == Spec => []StopIsFinal
<1>1. IInv => StopIsFinal
  BY DEF IInv, StopInv, StopIsFinal
<1> QED
  BY <1>1, ClientInductive, PTL
=============================================================================
