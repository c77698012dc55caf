------------------------- MODULE TcpConnectionProofs -------------------------
(***************************************************************************)
(* Proofs about TcpConnection, its output side and its life, for any       *)
(* threads, messages and high water mark.                                  *)
(***************************************************************************)
EXTENDS TcpConnection, SequenceTheorems, TLAPS

-----------------------------------------------------------------------------
(* Sequences *)

\* A function on 1 .. n is a sequence of length n.
LEMMA FunctionIsSeq ==
  ASSUME NEW S, NEW n \in Nat, NEW f \in [1 .. n -> S]
  PROVE  f \in Seq(S) /\ Len(f) = n
  OBVIOUS

\* What SubSeq takes out of a sequence.
LEMMA SubSeqIs ==
  ASSUME NEW S, NEW s \in Seq(S), NEW m \in Nat, NEW n \in Nat, m <= n, n <= Len(s)
  PROVE  /\ SubSeq(s, m + 1, n) \in Seq(S)
         /\ Len(SubSeq(s, m + 1, n)) = n - m
         /\ \A i \in 1 .. n - m : SubSeq(s, m + 1, n)[i] = s[m + i]
  OBVIOUS

\* What it takes from the front.
LEMMA SubSeqFrom1 ==
  ASSUME NEW S, NEW s \in Seq(S), NEW n \in Nat, n <= Len(s)
  PROVE  SubSeq(s, 1, n) \in Seq(S)
  OBVIOUS

\* A sequence is its first m elements and the others.
LEMMA SplitSeq ==
  ASSUME NEW S, NEW s \in Seq(S), NEW m \in Nat, m <= Len(s)
  PROVE  SubSeq(s, 1, m) \o SubSeq(s, m + 1, Len(s)) = s
<1>1. 1 \in 1 .. Len(s) + 1 /\ m \in 1 - 1 .. Len(s) /\ Len(s) \in m .. Len(s)
  OBVIOUS
<1>2. SubSeq(s, 1, m) \o SubSeq(s, m + 1, Len(s)) = SubSeq(s, 1, Len(s))
  BY <1>1, ConcatAdjacentSubSeq, Zenon
<1> QED
  BY <1>2, SubSeqFull, Zenon

\* \o is associative, here for streams of numbers.
LEMMA ConcatAssoc == \A a, b, c \in Seq(Nat) : (a \o b) \o c = a \o (b \o c)
  BY SMTT(30), Z3T(30)

\* The numbers up to k, followed by the next n, are the numbers up to k + n.
LEMMA CountOn ==
  ASSUME NEW k \in Nat, NEW n \in Nat
  PROVE  /\ [i \in 1 .. k |-> i] \in Seq(Nat) /\ [i \in 1 .. n |-> k + i] \in Seq(Nat)
         /\ [i \in 1 .. k |-> i] \o [i \in 1 .. n |-> k + i] = [i \in 1 .. k + n |-> i]
<1> DEFINE a == [i \in 1 .. k |-> i]
           b == [i \in 1 .. n |-> k + i]
           c == [i \in 1 .. k + n |-> i]
<1>1. a \in Seq(Nat) /\ Len(a) = k /\ \A i \in 1 .. k : a[i] = i
  OBVIOUS
<1>2. b \in Seq(Nat) /\ Len(b) = n /\ \A i \in 1 .. n : b[i] = k + i
  OBVIOUS
<1>3. c \in Seq(Nat) /\ Len(c) = k + n /\ \A i \in 1 .. k + n : c[i] = i
  OBVIOUS
<1> HIDE DEF a, b, c
<1>4. /\ a \o b \in Seq(Nat) /\ Len(a \o b) = k + n
      /\ \A i \in 1 .. k + n : (a \o b)[i] = IF i <= k THEN a[i] ELSE b[i - k]
  BY <1>1, <1>2, ConcatProperties, ZenonT(60)
<1>5. \A i \in 1 .. k + n : (a \o b)[i] = c[i]
  <2> SUFFICES ASSUME NEW i \in 1 .. k + n PROVE (a \o b)[i] = c[i]
    BY Zenon
  <2>1. c[i] = i /\ (a \o b)[i] = IF i <= k THEN a[i] ELSE b[i - k]
    BY <1>3, <1>4, Zenon
  <2>2. CASE i <= k
    BY <1>1, <2>1, <2>2
  <2>3. CASE ~(i <= k)
    <3>1. i - k \in 1 .. n /\ k + (i - k) = i
      BY <2>3
    <3> QED
      BY <1>2, <2>1, <2>3, <3>1
  <2> QED
    BY <2>2, <2>3, Zenon
<1>6. a \o b = c
  BY <1>3, <1>4, <1>5, SeqEqual, Zenon
<1> QED
  BY <1>1, <1>2, <1>6 DEF a, b, c
-----------------------------------------------------------------------------

\* What the loop calls: the length is that of a message.
Ops == {"established", "destroyed", "writeComplete", "highWater", "send", "shutdown"}
FunctorOf == [op : Ops, from : Users \cup {IOThread}, len : Nat]

QueueInv == pending \in Seq(FunctorOf) /\ batch \in Seq(FunctorOf)

\* The types that the output side depends on.
DataInv ==
  /\ outputBuffer \in Seq(Nat) /\ sent \in Seq(Nat) /\ accepted \in Nat
  /\ marked \in BOOLEAN /\ writing \in BOOLEAN /\ downs \in Nat

\* What IInv says about the output side.
OutInv == DataInv /\ StreamIntact /\ PollOutIffBuffered /\ CallbacksQueued

IInv == QueueInv /\ OutInv

\* The functors the loop thread queues.
LEMMA CallsAreFunctors ==
  /\ Call("writeComplete") \in FunctorOf /\ Call("highWater") \in FunctorOf
  /\ Call("destroyed") \in FunctorOf /\ Call("established") \in FunctorOf
<1>1. IOThread \in Users \cup {IOThread} /\ 0 \in Nat
  OBVIOUS
<1>2. Call("writeComplete") \in FunctorOf
  BY <1>1 DEF Call, FunctorOf, Ops
<1>3. Call("highWater") \in FunctorOf
  BY <1>1 DEF Call, FunctorOf, Ops
<1>4. Call("destroyed") \in FunctorOf
  BY <1>1 DEF Call, FunctorOf, Ops
<1>5. Call("established") \in FunctorOf
  BY <1>1 DEF Call, FunctorOf, Ops
<1> QED
  BY <1>2, <1>3, <1>4, <1>5
-----------------------------------------------------------------------------
(* sendInLoop() *)

\* Of the next n bytes w go to the kernel, before which nothing is buffered, and
\* the others to the buffer: the stream goes on, the interest in POLLOUT follows
\* the buffer, and the callbacks are queued.
LEMMA TakeInv ==
  ASSUME IInv, NEW n \in Nat, NEW w \in 0 .. n, w = 0 \/ outputBuffer = <<>>,
         Take(n, w), downs' = downs
  PROVE  OutInv' /\ pending' \in Seq(FunctorOf)
<1> DEFINE B == NewBytes(n)
           f == SubSeq(B, 1, w)
           r == SubSeq(B, w + 1, n)
<1>0. /\ outputBuffer \in Seq(Nat) /\ sent \in Seq(Nat) /\ accepted \in Nat
      /\ marked \in BOOLEAN /\ writing \in BOOLEAN /\ downs \in Nat /\ w \in Nat /\ w <= n
      /\ pending \in Seq(FunctorOf) /\ HighWaterMark \in Nat \ {0}
  BY ConnAssumption DEF IInv, OutInv, DataInv, QueueInv
<1>1. B \in Seq(Nat) /\ Len(B) = n
  <2>1. B \in [1 .. n -> Nat]
    BY <1>0 DEF NewBytes
  <2> HIDE DEF B
  <2> QED
    BY <2>1, FunctionIsSeq
<1>2. f \in Seq(Nat) /\ Len(f) = w
  <2> HIDE DEF B
  <2> QED
    BY <1>0, <1>1, SubSeqIs, SMTT(30), Z3T(30)
<1>3. r \in Seq(Nat) /\ Len(r) = n - w
  <2> HIDE DEF B
  <2> QED
    BY <1>0, <1>1, SubSeqIs, SMTT(30), Z3T(30)
<1>4. f \o r = B
  <2> HIDE DEF B
  <2> QED
    BY <1>0, <1>1, SplitSeq, Zenon
<1>5. accepted' = accepted + n /\ sent' = sent \o f /\ outputBuffer' = outputBuffer \o r
  BY DEF Take
<1>6. StreamIntact'
  <2>1. [i \in 1 .. accepted |-> i] \o B = [i \in 1 .. accepted + n |-> i]
    BY <1>0, CountOn DEF NewBytes
  <2>2. sent \o outputBuffer = [i \in 1 .. accepted |-> i]
    BY DEF IInv, OutInv, StreamIntact
  <2> HIDE DEF B, f, r
  <2>3. (sent \o f) \o (outputBuffer \o r) = (sent \o outputBuffer) \o B
    <3>1. CASE outputBuffer = <<>>
      <4>1. outputBuffer \o r = r /\ sent \o outputBuffer = sent
        BY <1>0, <1>3, <3>1, ConcatEmptySeq
      <4>2. (sent \o f) \o r = sent \o (f \o r)
        BY <1>0, <1>2, <1>3, ConcatAssoc, ZenonT(60)
      <4> QED
        BY <1>4, <4>1, <4>2
    <3>2. CASE w = 0
      <4>1. f = <<>>
        BY <1>2, <3>2
      <4>2. sent \o f = sent /\ f \o r = r
        BY <1>0, <1>3, <4>1, ConcatEmptySeq
      <4>3. (sent \o outputBuffer) \o r = sent \o (outputBuffer \o r)
        BY <1>0, <1>3, ConcatAssoc, ZenonT(60)
      <4> QED
        BY <1>4, <4>2, <4>3
    <3> QED
      BY <3>1, <3>2, Zenon
  <2>4. sent' \o outputBuffer' = [i \in 1 .. accepted' |-> i]
    BY <1>5, <2>1, <2>2, <2>3, Zenon
  <2> QED
    BY <2>4 DEF StreamIntact
<1> HIDE DEF B, f, r
<1>7. /\ outputBuffer' \in Seq(Nat) /\ sent' \in Seq(Nat) /\ accepted' \in Nat
      /\ Len(outputBuffer') = Len(outputBuffer) + (n - w)
  <2>1. outputBuffer \o r \in Seq(Nat) /\ Len(outputBuffer \o r) = Len(outputBuffer) + Len(r)
    BY <1>0, <1>3, ConcatProperties, ZenonT(60)
  <2>2. sent \o f \in Seq(Nat)
    BY <1>0, <1>2, ConcatProperties
  <2> QED
    BY <1>0, <1>3, <1>5, <2>1, <2>2
<1>8. Len(outputBuffer) \in Nat /\ Len(outputBuffer') \in Nat
  BY <1>0, <1>7, LenProperties, Zenon
<1>9. Call("writeComplete") \in FunctorOf /\ Call("highWater") \in FunctorOf
  BY CallsAreFunctors
<1>a. CASE w = n
  <2>1. /\ pending' = Append(pending, Call("writeComplete"))
        /\ completeAt' = accepted' /\ marked' = marked /\ writing' = writing
    BY <1>a DEF Take
  <2>2. outputBuffer' = outputBuffer
    <3>1. r = <<>>
      BY <1>3, <1>a
    <3> QED
      BY <1>0, <1>5, <3>1, ConcatEmptySeq
  <2>3. DataInv'
    BY <1>0, <1>7, <2>1 DEF DataInv
  <2>4. PollOutIffBuffered'
    BY <2>1, <2>2 DEF IInv, OutInv, PollOutIffBuffered
  <2>5. CallbacksQueued'
    BY <2>1, <2>2 DEF IInv, OutInv, CallbacksQueued
  <2>6. pending' \in Seq(FunctorOf)
    <3> DEFINE c == Call("writeComplete")
    <3>1. c \in FunctorOf /\ pending' = Append(pending, c)
      BY <1>9, <2>1, SMTT(30), Z3T(30)
    <3> HIDE DEF c
    <3> QED
      BY <1>0, <3>1
  <2> QED
    BY <1>6, <2>3, <2>4, <2>5, <2>6, SMTT(30), Z3T(30) DEF OutInv
<1>b. CASE w # n
  <2> DEFINE crosses == crossesMark(Len(outputBuffer), Len(outputBuffer'))
  <2>1. /\ pending' = IF crosses THEN Append(pending, Call("highWater")) ELSE pending
        /\ marked' = (marked \/ crosses) /\ writing' = TRUE /\ completeAt' = completeAt
    BY <1>b DEF Take
  <2>2. Len(outputBuffer') > Len(outputBuffer)
    BY <1>0, <1>7, <1>8, <1>b
  <2>3. outputBuffer' # <<>>
    BY <1>8, <2>2, SMTT(30), Z3T(30)
  <2>4. DataInv'
    BY <1>0, <1>7, <2>1 DEF DataInv, crossesMark
  <2>5. PollOutIffBuffered'
    BY <2>1, <2>3 DEF PollOutIffBuffered
  <2>6. Len(outputBuffer') >= HighWaterMark => marked'
    <3>1. CASE Len(outputBuffer) < HighWaterMark
      BY <1>0, <2>1, <3>1, Zenon DEF crossesMark
    <3>2. CASE ~(Len(outputBuffer) < HighWaterMark)
      <4>1. marked
        BY <1>0, <1>8, <3>2 DEF IInv, OutInv, CallbacksQueued
      <4> QED
        BY <2>1, <4>1, Zenon
    <3> QED
      BY <3>1, <3>2
  <2>7. CallbacksQueued'
    BY <2>3, <2>6 DEF CallbacksQueued
  <2>8. pending' \in Seq(FunctorOf)
    <3> DEFINE c == Call("highWater")
    <3>1. c \in FunctorOf /\ (pending' = Append(pending, c) \/ pending' = pending)
      <4> HIDE DEF crosses
      <4> QED
        BY <1>9, <2>1
    <3> HIDE DEF c
    <3>2. Append(pending, c) \in Seq(FunctorOf)
      BY <1>0, <3>1
    <3> QED
      BY <1>0, <3>1, <3>2, Zenon
  <2> QED
    BY <1>6, <2>4, <2>5, <2>7, <2>8 DEF OutInv
<1> QED
  BY <1>a, <1>b

\* Steps that leave the data and the interest in POLLOUT alone.
LEMMA FrameInv ==
  ASSUME IInv, UNCHANGED <<dataVars, writing, downs>>
  PROVE  OutInv'
  BY DEF IInv, OutInv, DataInv, StreamIntact, PollOutIffBuffered, CallbacksQueued, dataVars

\* The end of the connection drops the interest in POLLOUT.
LEMMA DownInv ==
  ASSUME IInv, UNCHANGED dataVars, writing' = FALSE, downs' = downs + 1
  PROVE  OutInv'
<1>0. downs \in Nat
  BY DEF IInv, OutInv, DataInv
<1>1. downs' \in Nat /\ downs' # 0
  BY <1>0
<1>2. DataInv'
  BY <1>1, Zenon DEF IInv, OutInv, DataInv, dataVars
<1>3. StreamIntact' /\ CallbacksQueued'
  BY DEF IInv, OutInv, StreamIntact, CallbacksQueued, dataVars
<1>4. PollOutIffBuffered'
  BY <1>1 DEF PollOutIffBuffered
<1> QED
  BY <1>2, <1>3, <1>4 DEF OutInv

\* sendInLoop() drops the message, writes some of it or buffers it.
LEMMA SendInv ==
  ASSUME IInv, NEW n \in Nat, sendInLoop(n), downs' = downs
  PROVE  OutInv' /\ pending' \in Seq(FunctorOf)
<1>1. CASE Drop
  <2>1. OutInv'
    BY <1>1, FrameInv DEF Drop
  <2>2. pending' \in Seq(FunctorOf)
    BY <1>1 DEF Drop, IInv, QueueInv
  <2> QED
    BY <2>1, <2>2
<1>2. ASSUME NEW w \in 0 .. n, outputBuffer = <<>>, Take(n, w)
      PROVE  OutInv' /\ pending' \in Seq(FunctorOf)
  BY <1>2, TakeInv
<1>3. CASE Take(n, 0)
  <2>1. 0 \in 0 .. n
    OBVIOUS
  <2> QED
    BY <1>3, <2>1, TakeInv
<1> QED
  BY <1>1, <1>2, <1>3 DEF sendInLoop, writeDirectly, mayWriteDirectly
-----------------------------------------------------------------------------
(* handleWrite() *)

\* The kernel takes the first bytes of the buffer, or write() fails.
LEMMA WriteInv ==
  ASSUME IInv, handleWrite, downs' = downs
  PROVE  OutInv' /\ pending' \in Seq(FunctorOf)
<1>0. /\ outputBuffer \in Seq(Nat) /\ sent \in Seq(Nat) /\ accepted \in Nat
      /\ marked \in BOOLEAN /\ writing \in BOOLEAN /\ downs \in Nat
      /\ pending \in Seq(FunctorOf) /\ HighWaterMark \in Nat \ {0}
  BY ConnAssumption DEF IInv, OutInv, DataInv, QueueInv
<1>1. CASE UNCHANGED <<dataVars, writing, pending>>
  BY <1>0, <1>1, FrameInv
<1>2. ASSUME NEW n \in 1 .. Len(outputBuffer), writing,
             sent' = sent \o SubSeq(outputBuffer, 1, n),
             outputBuffer' = SubSeq(outputBuffer, n + 1, Len(outputBuffer)),
             marked' = (marked /\ Len(outputBuffer') >= HighWaterMark), accepted' = accepted,
             IF outputBuffer' = <<>> THEN bufferWritten
             ELSE UNCHANGED <<writing, pending, completeAt, wrShut>>
      PROVE  OutInv' /\ pending' \in Seq(FunctorOf)
  <2> DEFINE f == SubSeq(outputBuffer, 1, n)
             r == SubSeq(outputBuffer, n + 1, Len(outputBuffer))
  <2>0. n \in Nat /\ Len(outputBuffer) \in Nat /\ n <= Len(outputBuffer) /\ n >= 1
    BY <1>0, <1>2
  <2>1. f \in Seq(Nat)
    BY <1>0, <2>0, SubSeqFrom1, SMTT(30), Z3T(30)
  <2>2. r \in Seq(Nat) /\ Len(r) = Len(outputBuffer) - n
    BY <1>0, <2>0, SubSeqIs, SMTT(30), Z3T(30)
  <2>3. f \o r = outputBuffer
    BY <1>0, <2>0, SplitSeq
  <2>4. sent' = sent \o f /\ outputBuffer' = r
    BY <1>2
  <2> HIDE DEF f, r
  <2>5. StreamIntact'
    <3>1. (sent \o f) \o r = sent \o (f \o r)
      BY <1>0, <2>1, <2>2, ConcatAssoc, ZenonT(60)
    <3> QED
      BY <1>2, <2>3, <2>4, <3>1, Zenon DEF IInv, OutInv, StreamIntact
  <2>6. outputBuffer' \in Seq(Nat) /\ sent' \in Seq(Nat)
    BY <1>0, <2>1, <2>2, <2>4, ConcatProperties
  <2>7. Len(outputBuffer') \in Nat /\ Len(outputBuffer') < Len(outputBuffer)
    BY <2>0, <2>2, <2>4
  <2>8. Len(outputBuffer') >= HighWaterMark => marked'
    BY <1>0, <1>2, <2>0, <2>7 DEF IInv, OutInv, CallbacksQueued
  <2>9. marked' \in BOOLEAN
    BY <1>2
  <2>10. CASE outputBuffer' = <<>>
    <3>1. /\ writing' = FALSE /\ completeAt' = accepted
          /\ pending' = Append(pending, Call("writeComplete"))
      BY <1>2, <2>10, Zenon DEF bufferWritten
    <3>2. pending' \in Seq(FunctorOf)
      <4> DEFINE c == Call("writeComplete")
      <4>1. c \in FunctorOf /\ pending' = Append(pending, c)
        BY <3>1, CallsAreFunctors
      <4> HIDE DEF c
      <4> QED
        BY <1>0, <4>1
    <3>3. DataInv'
      BY <1>0, <1>2, <2>6, <2>9, <3>1, Zenon DEF DataInv
    <3>4. PollOutIffBuffered' /\ CallbacksQueued'
      BY <1>2, <2>8, <2>10, <3>1 DEF PollOutIffBuffered, CallbacksQueued
    <3> QED
      BY <2>5, <3>2, <3>3, <3>4 DEF OutInv
  <2>11. CASE outputBuffer' # <<>>
    <3>1. writing' = writing /\ pending' = pending
      BY <1>2, <2>11
    <3>2. DataInv'
      BY <1>0, <1>2, <2>6, <2>9, <3>1, Zenon DEF DataInv
    <3>3. PollOutIffBuffered'
      BY <1>2, <2>11, <3>1 DEF PollOutIffBuffered
    <3>4. CallbacksQueued'
      BY <2>8, <2>11 DEF CallbacksQueued
    <3> QED
      BY <1>0, <2>5, <3>1, <3>2, <3>3, <3>4, SMTT(30), Z3T(30) DEF OutInv
  <2> QED
    BY <2>10, <2>11
<1> QED
  BY <1>1, <1>2, Zenon DEF handleWrite
-----------------------------------------------------------------------------
(* The inductive invariant *)

\* A new connection satisfies the invariant.
LEMMA InitInv == Init => IInv
<1> SUFFICES ASSUME Init PROVE IInv
  OBVIOUS
<1>1. QueueInv
  <2> DEFINE c == Call("established")
  <2>1. c \in FunctorOf /\ pending = <<c>> /\ batch = <<>>
    BY CallsAreFunctors DEF Init
  <2> HIDE DEF c
  <2> QED
    BY <2>1 DEF QueueInv
<1>2. /\ outputBuffer = <<>> /\ sent = <<>> /\ accepted = 0 /\ completeAt = 0
      /\ ~marked /\ ~writing /\ downs = 0
  BY DEF Init
<1>a. marked \in BOOLEAN /\ writing \in BOOLEAN
  BY Zenon DEF Init
<1>3. DataInv
  BY <1>2, <1>a DEF DataInv
<1>4. StreamIntact
  BY <1>2 DEF StreamIntact
<1>5. PollOutIffBuffered /\ CallbacksQueued
  BY <1>2, ConnAssumption DEF PollOutIffBuffered, CallbacksQueued
<1> QED
  BY <1>1, <1>3, <1>4, <1>5 DEF IInv, OutInv

\* A functor that another thread queues.
LEMMA QueuedInv ==
  ASSUME IInv, NEW t \in Users, NEW op \in {"send", "shutdown"}, NEW n \in Nat, Queue(t, op, n)
  PROVE  pending' \in Seq(FunctorOf)
<1> DEFINE c == [op |-> op, from |-> t, len |-> n]
<1>1. c \in FunctorOf /\ pending' = Append(pending, c)
  BY DEF FunctorOf, Ops, Queue
<1> HIDE DEF c
<1> QED
  BY <1>1 DEF IInv, QueueInv

\* The next functor of the batch has the length of a message.
LEMMA NextFunctorInv ==
  ASSUME IInv, NEW op, NextFunctor(op)
  PROVE  batch' \in Seq(FunctorOf) /\ Head(batch).len \in Nat
<1>1. batch \in Seq(FunctorOf) /\ batch # <<>> /\ batch' = Tail(batch)
  BY DEF IInv, QueueInv, NextFunctor
<1>2. Head(batch) \in FunctorOf
  BY <1>1
<1>3. batch' \in Seq(FunctorOf)
  BY <1>1
<1> QED
  BY <1>2, <1>3 DEF FunctorOf

\* Every step of the loop, the users, the server and the peer keeps the invariant.
LEMMA NextInv == IInv /\ [Next]_vars => IInv'
<1> SUFFICES ASSUME IInv, [Next]_vars PROVE IInv'
  OBVIOUS
<1>q. pending \in Seq(FunctorOf) /\ batch \in Seq(FunctorOf)
  BY DEF IInv, QueueInv
<1>f. ASSUME UNCHANGED <<dataVars, writing, downs, pending, batch>> PROVE IInv'
  BY <1>f, <1>q, FrameInv DEF IInv, QueueInv
<1>g. ASSUME UNCHANGED <<dataVars, writing, downs, batch>>, pending' \in Seq(FunctorOf) PROVE IInv'
  BY <1>g, <1>q, FrameInv DEF IInv, QueueInv
<1>h. ASSUME UNCHANGED <<dataVars, writing, downs, pending>>, batch' \in Seq(FunctorOf) PROVE IInv'
  BY <1>h, <1>q, FrameInv DEF IInv, QueueInv
<1>d. ASSUME UNCHANGED <<dataVars, pending, batch>>, handleClose PROVE IInv'
  BY <1>d, <1>q, DownInv, Zenon DEF IInv, QueueInv, handleClose
<1>1. CASE poll
  BY <1>1, <1>f DEF poll, connVars
<1>2. CASE eventClose
  BY <1>2, <1>d DEF eventClose
<1>3. CASE eventError
  BY <1>3, <1>f DEF eventError, connVars, histVars
<1>4. CASE eventRead
  <2>1. CASE readData \/ readFails
    BY <1>4, <2>1, <1>f DEF eventRead, readData, readFails, connVars, histVars
  <2>2. CASE handleClose
    BY <1>4, <2>2, <1>d DEF eventRead
  <2> QED
    BY <1>4, <2>1, <2>2 DEF eventRead, handleRead
<1>5. CASE eventWrite
  BY <1>5, <1>q, WriteInv DEF eventWrite, histVars, IInv, QueueInv
<1>6. CASE doPendingFunctors
  <2>1. batch' = pending /\ pending' = <<>> /\ UNCHANGED <<dataVars, writing, downs>>
    BY <1>6 DEF doPendingFunctors, connVars, histVars
  <2> QED
    BY <1>q, <2>1, FrameInv DEF IInv, QueueInv
<1>7. CASE functorsDone
  BY <1>7, <1>f DEF functorsDone, connVars, histVars
<1>8. CASE connectEstablished
  BY <1>8, <1>h, NextFunctorInv DEF connectEstablished
<1>9. CASE connectDestroyed
  <2>1. batch' \in Seq(FunctorOf) /\ pending' = pending /\ UNCHANGED dataVars
    BY <1>9, NextFunctorInv DEF connectDestroyed
  <2>2. CASE destroysConnected
    BY <1>9, <1>q, <2>1, <2>2, DownInv, Zenon DEF connectDestroyed, IInv, QueueInv
  <2>3. CASE ~destroysConnected
    BY <1>9, <1>h, <2>1, <2>3 DEF connectDestroyed
  <2> QED
    BY <2>2, <2>3
<1>10. CASE notifyUser
  BY <1>10, <1>h, NextFunctorInv DEF notifyUser, connVars, histVars
<1>11. CASE queuedSend
  <2>1. batch' \in Seq(FunctorOf) /\ Head(batch).len \in Nat /\ downs' = downs
    BY <1>11, NextFunctorInv DEF queuedSend
  <2>2. CASE sendInLoop(Head(batch).len)
    BY <2>1, <2>2, SendInv, SMTT(30), Z3T(30) DEF IInv, QueueInv
  <2>3. CASE Drop
    BY <1>q, <2>1, <2>3, FrameInv DEF Drop, IInv, QueueInv
  <2> QED
    BY <1>11, <2>2, <2>3 DEF queuedSend
<1>12. CASE queuedShutdown
  BY <1>12, <1>h, NextFunctorInv DEF queuedShutdown, connVars
<1>13. ASSUME NEW n \in MsgLens, callbackSends(n) PROVE IInv'
  <2>1. n \in Nat /\ downs' = downs /\ batch' = batch /\ sendInLoop(n)
    BY <1>13, ConnAssumption DEF callbackSends, histVars
  <2> QED
    BY <1>q, <2>1, SendInv DEF IInv, QueueInv
<1>14. CASE callbackShutdown
  BY <1>14, <1>f DEF callbackShutdown, loopVars, histVars
<1>15. CASE callbackReturns
  BY <1>15, <1>f DEF callbackReturns, connVars, histVars
<1>16. CASE removeConnectionInLoop
  <2> DEFINE c == Call("destroyed")
  <2>1. c \in FunctorOf /\ pending' = Append(pending, c) /\ UNCHANGED <<dataVars, writing, downs, batch>>
    BY <1>16, CallsAreFunctors DEF removeConnectionInLoop, connVars
  <2> HIDE DEF c
  <2>2. pending' \in Seq(FunctorOf)
    BY <1>q, <2>1
  <2> QED
    BY <1>g, <2>1, <2>2
<1>17. CASE PeerStep
  BY <1>17, <1>f DEF PeerStep, connVars, loopVars, histVars
<1>18. ASSUME NEW t \in Users, UserStep(t) PROVE IInv'
  <2>1. CASE shutdown(t)
    BY <2>1, <1>f DEF shutdown, connVars, loopVars, histVars
  <2>2. CASE shutdownSets(t)
    BY <2>2, <1>f DEF shutdownSets, loopVars
  <2>3. CASE shutdownQueues(t)
    BY <2>3, <1>g, QueuedInv DEF shutdownQueues, connVars, histVars
  <2>4. CASE release(t)
    BY <2>4, <1>f DEF release, connVars, loopVars, histVars
  <2>5. ASSUME NEW n \in MsgLens, send(t, n) PROVE IInv'
    BY <2>5, <1>f DEF send, connVars, loopVars, histVars
  <2>6. ASSUME NEW n \in MsgLens, sendQueues(t, n) PROVE IInv'
    <3>1. n \in Nat
      BY ConnAssumption, SMTT(30), Z3T(30)
    <3> QED
      BY <2>6, <3>1, <1>g, QueuedInv, SMTT(30), Z3T(30) DEF sendQueues, connVars, histVars
  <2> QED
    BY <1>18, <2>1, <2>2, <2>3, <2>4, <2>5, <2>6, SMTT(30), Z3T(30) DEF UserStep
<1>19. CASE UNCHANGED vars
  BY <1>19, <1>f DEF vars, connVars, loopVars, histVars
<1> QED
  BY <1>1, <1>2, <1>3, <1>4, <1>5, <1>6, <1>7, <1>8, <1>9, <1>10, <1>11, <1>12, <1>13, <1>14,
     <1>15, <1>16, <1>17, <1>18, <1>19, SMTT(30), Z3T(30)
  DEF Next, IOStep, EventStep, FunctorStep, Ended
-----------------------------------------------------------------------------
(* Theorems *)

\* sendInLoop() and handleWrite() give the kernel every byte once and in order.
THEOREM StreamKept == Spec => []StreamIntact
<1>1. IInv => StreamIntact
  BY DEF IInv, OutInv
<1> QED
  BY <1>1, InitInv, NextInv, PTL DEF Spec

\* While the connection is up, the channel waits for POLLOUT exactly while
\* outputBuffer_ is not empty.
THEOREM PollOutFollowsBuffer == Spec => []PollOutIffBuffered
<1>1. IInv => PollOutIffBuffered
  BY DEF IInv, OutInv
<1> QED
  BY <1>1, InitInv, NextInv, PTL DEF Spec

\* writeCompleteCallback_ and highWaterMarkCallback_ are queued whenever the
\* buffer is emptied or reaches the mark.
THEOREM CallbacksFollowBuffer == Spec => []CallbacksQueued
<1>1. IInv => CallbacksQueued
  BY DEF IInv, OutInv
<1> QED
  BY <1>1, InitInv, NextInv, PTL DEF Spec

\* shutdownInLoop() never lets FIN overtake outputBuffer_.
THEOREM FinFollowsBuffer == Spec => FinAfterBuffer
<1> DEFINE Fin == ~wrShut /\ wrShut' /\ downs = 0 => outputBuffer' = <<>>
<1>1. IInv /\ [Next]_vars => [Fin]_vars
  <2> SUFFICES ASSUME IInv, Next, ~wrShut, wrShut', downs = 0 PROVE outputBuffer' = <<>>
    OBVIOUS
  <2>1. ~writing => outputBuffer = <<>>
    BY DEF IInv, OutInv, PollOutIffBuffered
  <2>2. CASE eventWrite
    BY <2>2, Zenon DEF eventWrite, handleWrite
  <2>3. ASSUME shutdownInLoop(writing), outputBuffer' = outputBuffer PROVE outputBuffer' = <<>>
    BY <2>1, <2>3, Zenon DEF shutdownInLoop
  <2>4. CASE queuedShutdown
    BY <2>3, <2>4, Zenon DEF queuedShutdown, dataVars
  <2>5. CASE callbackShutdown
    BY <2>3, <2>5 DEF callbackShutdown, dataVars
  <2>6. CASE wrShut' = wrShut
    BY <2>6
  <2>7. CASE poll \/ eventClose \/ eventError \/ eventRead
    BY <2>6, <2>7, Zenon DEF poll, eventClose, eventError, eventRead, netVars
  <2>8. CASE doPendingFunctors \/ functorsDone \/ connectEstablished \/ connectDestroyed \/ notifyUser
    BY <2>6, <2>8, Zenon
    DEF doPendingFunctors, functorsDone, connectEstablished, connectDestroyed, notifyUser, netVars
  <2>9. CASE queuedSend \/ callbackReturns \/ \E n \in MsgLens : callbackSends(n)
    BY <2>6, <2>9, Zenon DEF queuedSend, callbackReturns, callbackSends, netVars
  <2>10. CASE removeConnectionInLoop
    BY <2>6, <2>10 DEF removeConnectionInLoop, netVars
  <2>11. CASE PeerStep
    BY <2>6, <2>11, Zenon DEF PeerStep, PeerSends, PeerCloses, PeerResets
  <2>12. ASSUME NEW t \in Users, UserStep(t) PROVE outputBuffer' = <<>>
    BY <2>6, <2>12, Zenon
    DEF UserStep, shutdown, shutdownSets, shutdownQueues, release, send, sendQueues, netVars
  <2>13. CASE Ended
    BY <2>6, <2>13 DEF Ended, vars, netVars
  <2> QED
    BY <2>2, <2>4, <2>5, <2>7, <2>8, <2>9, <2>10, <2>11, <2>12, <2>13, SMTT(30), Z3T(30)
    DEF Next, IOStep, EventStep, FunctorStep
<1> QED
  BY <1>1, InitInv, NextInv, PTL DEF Spec, FinAfterBuffer

-----------------------------------------------------------------------------
(* The life of the connection *)

\* The operations that a queue of functors holds.
Kinds(q) == {q[i].op : i \in 1 .. Len(q)}
Queued == Kinds(pending) \cup Kinds(batch)

\* The batch is empty between two calls of doPendingFunctors(); its vector keeps the
\* connection alive; and poll() never leaves both POLLHUP and POLLIN to handle.
LoopInv ==
  /\ phase # "functors" => batch = <<>>
  /\ batchRef \/ Kinds(batch) \subseteq {"send", "shutdown"}
  /\ "HUP" \in revents => "IN" \notin revents

\* connectEstablished() is still to come: nobody else knows the connection.
Coming ==
  /\ ups = 0 /\ downs = 0 /\ state = "kConnecting" /\ inMap /\ ~closing
  /\ ~registered /\ ~reading /\ ~writing /\ ~inUser /\ revents = {}
  /\ hold = {} /\ \A t \in Users : calling[t] = Idle
  /\ \/ pending = <<Call("established")>> /\ batch = <<>>
     \/ pending = <<>> /\ batch = <<Call("established")>>

\* The connection is up: the server's map holds it.
Up ==
  /\ ups = 1 /\ downs = 0 /\ state \in {"kConnected", "kDisconnecting"} /\ inMap /\ ~closing
  /\ Queued \cap {"established", "destroyed"} = {}

\* handleClose() was called: the base loop has removeConnectionInLoop() queued, or has
\* queued connectDestroyed(), or all is done.
Down ==
  /\ ups = 1 /\ downs = 1 /\ state = "kDisconnected" /\ ~reading /\ ~writing
  /\ revents \cap {"HUP", "IN"} = {} /\ (inMap <=> closing)
  /\ "established" \notin Queued /\ (inMap => "destroyed" \notin Queued)
  /\ registered => inMap \/ "destroyed" \in Queued

LifeInv == revived \/ ((Coming \/ Up \/ Down) /\ fault \in {"none", "useAfterFree"})

\* A functor is put on a queue ...
LEMMA KindsAppend ==
  ASSUME NEW q \in Seq(FunctorOf), NEW f \in FunctorOf
  PROVE  Kinds(Append(q, f)) = Kinds(q) \cup {f.op}
<1> DEFINE r == Append(q, f)
           n == Len(q)
<1>1. n \in Nat /\ Len(r) = n + 1 /\ r[n + 1] = f /\ \A i \in 1 .. n : r[i] = q[i]
  OBVIOUS
<1> HIDE DEF r, n
<1>2. \A i \in 1 .. n + 1 : i = n + 1 \/ i \in 1 .. n
  BY <1>1
<1>3. n + 1 \in 1 .. n + 1 /\ \A i \in 1 .. n : i \in 1 .. n + 1
  BY <1>1, SMTT(30), Z3T(30)
<1>4. Kinds(r) = Kinds(q) \cup {f.op}
  BY <1>1, <1>2, <1>3 DEF Kinds, n
<1> QED
  BY <1>4 DEF r

\* ... and taken from it.
LEMMA KindsTail ==
  ASSUME NEW q \in Seq(FunctorOf), q # <<>>
  PROVE  Kinds(q) = Kinds(Tail(q)) \cup {Head(q).op}
<1> DEFINE r == Tail(q)
           n == Len(q)
           h == Head(q)
<1>1. n \in Nat \ {0} /\ Len(r) = n - 1 /\ h = q[1] /\ \A i \in 1 .. n - 1 : r[i] = q[i + 1]
  OBVIOUS
<1> HIDE DEF r, n, h
<1>2. \A i \in 1 .. n : i = 1 \/ (i - 1 \in 1 .. n - 1 /\ r[i - 1] = q[i])
  BY <1>1
<1>3. 1 \in 1 .. n /\ \A i \in 1 .. n - 1 : i + 1 \in 1 .. n /\ q[i + 1] = r[i]
  BY <1>1
<1>4. Kinds(q) = Kinds(r) \cup {h.op}
  <2>1. ASSUME NEW k \in Kinds(q) PROVE k \in Kinds(r) \cup {h.op}
    <3>1. PICK i \in 1 .. n : q[i].op = k
      BY DEF Kinds, n
    <3> QED
      BY <1>1, <1>2, <3>1, ZenonT(60) DEF Kinds
  <2>2. ASSUME NEW k \in Kinds(r) PROVE k \in Kinds(q)
    <3>1. PICK i \in 1 .. n - 1 : r[i].op = k
      BY <1>1, SMTT(30), Z3T(30) DEF Kinds
    <3> QED
      BY <1>3, <3>1, SMTT(30), Z3T(30) DEF Kinds, n
  <2>3. h.op \in Kinds(q)
    BY <1>1, <1>3 DEF Kinds, n
  <2> QED
    BY <2>1, <2>2, <2>3
<1> QED
  BY <1>4 DEF r, h

\* An empty queue.
LEMMA KindsNone == Kinds(<<>>) = {}
  BY DEF Kinds

\* What NextFunctor() does to the queues.
LEMMA KindsNext ==
  ASSUME IInv, NEW op, NextFunctor(op), pending' = pending
  PROVE  Queued = Queued' \cup {op} /\ op \in Kinds(batch) /\ Kinds(batch') \subseteq Kinds(batch)
<1>1. batch \in Seq(FunctorOf) /\ batch # <<>> /\ batch' = Tail(batch) /\ Head(batch).op = op
  BY DEF IInv, QueueInv, NextFunctor
<1>2. Kinds(batch) = Kinds(batch') \cup {op}
  BY <1>1, KindsTail
<1> QED
  BY <1>2, SMTT(30), Z3T(30) DEF Queued

\* A functor that the loop thread or the base loop queues.
LEMMA KindsQueue ==
  ASSUME IInv, NEW f \in FunctorOf, pending' = Append(pending, f), batch' = batch
  PROVE  Queued' = Queued \cup {f.op}
<1>1. pending \in Seq(FunctorOf)
  BY DEF IInv, QueueInv
<1>2. Kinds(pending') = Kinds(pending) \cup {f.op}
  BY <1>1, KindsAppend
<1> QED
  BY <1>2 DEF Queued

\* The operations of the functors that a TcpConnectionPtr is bound to.
LEMMA SharedKinds ==
  ASSUME NEW q
  PROVE  (\E i \in 1 .. Len(q) : Shared(q[i])) <=> ~(Kinds(q) \subseteq {"send", "shutdown"})
  BY Zenon DEF Shared, Kinds

\* sendInLoop() queues callbacks only, and does nothing once the connection is down.
LEMMA SendKinds ==
  ASSUME IInv, NEW n, sendInLoop(n)
  PROVE  /\ Kinds(pending) \subseteq Kinds(pending')
         /\ Kinds(pending') \subseteq Kinds(pending) \cup {"writeComplete", "highWater"}
         /\ state = "kDisconnected" => UNCHANGED <<writing, registered>>
<1>1. pending \in Seq(FunctorOf)
  BY DEF IInv, QueueInv
<1> DEFINE c == Call("writeComplete")
           h == Call("highWater")
<1>2. c \in FunctorOf /\ h \in FunctorOf /\ c.op = "writeComplete" /\ h.op = "highWater"
  BY CallsAreFunctors, ZenonT(60) DEF Call
<1>3. \/ pending' = pending \/ pending' = Append(pending, c) \/ pending' = Append(pending, h)
  BY SMTT(30), Z3T(30) DEF sendInLoop, writeDirectly, Drop, Take
<1>4. state = "kDisconnected" => UNCHANGED <<writing, registered>>
  BY DEF sendInLoop, Drop
<1> HIDE DEF c, h
<1>5. /\ Kinds(Append(pending, c)) = Kinds(pending) \cup {"writeComplete"}
      /\ Kinds(Append(pending, h)) = Kinds(pending) \cup {"highWater"}
  BY <1>1, <1>2, KindsAppend
<1> QED
  BY <1>3, <1>4, <1>5, Zenon

\* handleWrite() likewise; it never asks for POLLOUT.
LEMMA WriteKinds ==
  ASSUME IInv, handleWrite
  PROVE  /\ Kinds(pending) \subseteq Kinds(pending')
         /\ Kinds(pending') \subseteq Kinds(pending) \cup {"writeComplete"}
         /\ registered' = registered /\ (~writing => ~writing')
<1>1. pending \in Seq(FunctorOf)
  BY DEF IInv, QueueInv
<1> DEFINE c == Call("writeComplete")
<1>2. c \in FunctorOf /\ c.op = "writeComplete"
  BY CallsAreFunctors, SMTT(30), Z3T(30) DEF Call
<1>3. pending' = pending \/ pending' = Append(pending, c)
  BY DEF handleWrite, bufferWritten, dataVars
<1>4. registered' = registered
  BY DEF handleWrite
<1>5. ~writing => ~writing'
  BY DEF handleWrite
<1> HIDE DEF c
<1>6. Kinds(Append(pending, c)) = Kinds(pending) \cup {"writeComplete"}
  BY <1>1, <1>2, KindsAppend
<1> QED
  BY <1>3, <1>4, <1>5, <1>6, Zenon

\* Every step keeps what LoopInv says of the loop.
LEMMA LoopNext == IInv /\ LoopInv /\ [Next]_vars => LoopInv'
<1> SUFFICES ASSUME IInv, LoopInv, [Next]_vars PROVE LoopInv'
  OBVIOUS
<1>f. ASSUME UNCHANGED <<phase, batch, batchRef>>, revents' \subseteq revents PROVE LoopInv'
  BY <1>f DEF LoopInv
<1>n. ASSUME NEW op, NextFunctor(op), UNCHANGED <<phase, batchRef, revents>> PROVE LoopInv'
  <2>1. batch \in Seq(FunctorOf) /\ batch # <<>> /\ batch' = Tail(batch) /\ phase = "functors"
    BY <1>n DEF IInv, QueueInv, NextFunctor
  <2>2. Kinds(batch') \subseteq Kinds(batch)
    BY <2>1, KindsTail
  <2> QED
    BY <1>n, <2>1, <2>2 DEF LoopInv
<1>1. CASE poll
  <2>1. UNCHANGED <<batch, batchRef>> /\ phase = "poll"
    BY <1>1 DEF poll
  <2>2. "HUP" \in revents' => "IN" \notin revents'
    BY <1>1, ZenonT(60) DEF poll, handled
  <2> QED
    BY <2>1, <2>2 DEF LoopInv
<1>2. CASE EventStep
  BY <1>2, <1>f DEF EventStep, eventClose, eventError, eventRead, eventWrite, IsNext
<1>3. CASE doPendingFunctors
  <2>1. /\ phase' = "functors" /\ batch' = pending /\ revents' = revents
        /\ batchRef' = \E i \in 1 .. Len(pending) : Shared(pending[i])
    BY <1>3 DEF doPendingFunctors
  <2>2. batchRef' \/ Kinds(batch') \subseteq {"send", "shutdown"}
    BY <2>1, SharedKinds
  <2> QED
    BY <2>1, <2>2, SMTT(30), Z3T(30) DEF LoopInv
<1>4. CASE functorsDone
  BY <1>4, KindsNone, ZenonT(60) DEF functorsDone, LoopInv
<1>5. CASE FunctorStep
  BY <1>5, <1>n, SMTT(30), Z3T(30) DEF FunctorStep, connectEstablished, connectDestroyed, notifyUser, queuedSend,
                    queuedShutdown
<1>6. CASE callbackReturns \/ callbackShutdown \/ \E n \in MsgLens : callbackSends(n)
  BY <1>6, <1>f, SMTT(30), Z3T(30) DEF callbackReturns, callbackShutdown, callbackSends, loopVars
<1>7. CASE removeConnectionInLoop \/ PeerStep
  BY <1>7, <1>f DEF removeConnectionInLoop, PeerStep, loopVars
<1>8. ASSUME NEW t \in Users, UserStep(t) PROVE LoopInv'
  BY <1>8, <1>f, Zenon DEF UserStep, shutdown, shutdownSets, shutdownQueues, release, send, sendQueues,
                    loopVars
<1>9. CASE UNCHANGED vars
  BY <1>9, <1>f, SMTT(30), Z3T(30) DEF vars, loopVars
<1> QED
  BY <1>1, <1>2, <1>3, <1>4, <1>5, <1>6, <1>7, <1>8, <1>9, SMTT(30), Z3T(30) DEF Next, IOStep, Ended

\* Before connectEstablished() only the loop, the server and the peer can take a step,
\* and connectEstablished() is the functor that the loop calls.
LEMMA ComingNext ==
  ASSUME IInv, LoopInv, Coming, Next
  PROVE  (Coming' \/ Up') /\ fault' = fault
<1> DEFINE e == Call("established")
<1>0. e.op = "established" /\ Kinds(<<>>) = {}
  BY KindsNone DEF Call
<1>1. ASSUME NEW op, NextFunctor(op)
      PROVE  op = "established" /\ pending = <<>> /\ batch' = <<>>
  <2>1. batch # <<>> /\ Head(batch).op = op /\ batch' = Tail(batch)
    BY <1>1 DEF NextFunctor
  <2>2. batch = <<e>> /\ pending = <<>>
    BY <2>1 DEF Coming
  <2> HIDE DEF e
  <2>3. Head(batch) = e /\ Tail(batch) = <<>>
    BY <2>2, SMTT(30), Z3T(30)
  <2> QED
    BY <1>0, <2>1, <2>2, <2>3, SMTT(30), Z3T(30)
<1>2. CASE connectEstablished
  <2>1. pending = <<>> /\ batch' = <<>> /\ pending' = pending
    BY <1>1, <1>2 DEF connectEstablished
  <2>2. Queued' = {}
    BY <1>0, <2>1, Zenon DEF Queued
  <2> QED
    BY <1>2, <2>2, SMTT(30), Z3T(30) DEF connectEstablished, Coming, Up, serverVars
<1>3. CASE connectDestroyed \/ notifyUser \/ queuedSend \/ queuedShutdown
  <2>1. \E op \in {"destroyed", "writeComplete", "highWater", "send", "shutdown"} : NextFunctor(op)
    BY <1>3, Zenon DEF connectDestroyed, notifyUser, queuedSend, queuedShutdown
  <2> QED
    BY <1>1, <2>1
<1>4. CASE EventStep
  BY <1>4, ZenonT(60) DEF EventStep, eventClose, eventError, eventRead, eventWrite, IsNext, Coming
<1>5. CASE callbackReturns \/ callbackShutdown \/ \E n \in MsgLens : callbackSends(n)
  BY <1>5 DEF callbackReturns, callbackShutdown, callbackSends, Coming
<1>6. CASE removeConnectionInLoop
  BY <1>6, Zenon DEF removeConnectionInLoop, Coming
<1>7. ASSUME NEW t \in Users, UserStep(t) PROVE FALSE
  <2>1. t \notin hold /\ calling[t] = Idle
    BY <1>7, Zenon DEF Coming
  <2>2. /\ Idle # <<"checked", 0>> /\ Idle # <<"set", 0>>
        /\ \A n : Idle # <<"send", n>>
    BY DEF Idle
  <2>3. \/ t \in hold \/ calling[t] = <<"checked", 0>> \/ calling[t] = <<"set", 0>>
        \/ \E n : calling[t] = <<"send", n>>
    BY <1>7, ZenonT(60) DEF UserStep, shutdown, shutdownSets, shutdownQueues, release, send, sendQueues, Step
  <2> QED
    BY <2>1, <2>2, <2>3, Zenon
<1>8. CASE poll
  <2>1. revents' = {} /\ fault' = fault
    BY <1>8, ZenonT(60) DEF poll, Coming
  <2> QED
    BY <1>8, <2>1 DEF poll, Coming, connVars, userVars, serverVars
<1>9. CASE doPendingFunctors
  <2>1. batch = <<>>
    BY <1>9 DEF doPendingFunctors, LoopInv
  <2>2. pending = <<e>>
    BY <2>1, SMTT(30), Z3T(30) DEF Coming
  <2> QED
    BY <1>9, <2>2, SMTT(30), Z3T(30) DEF doPendingFunctors, Coming, connVars, userVars, serverVars, histVars
<1>10. CASE functorsDone
  BY <1>10, SMTT(30), Z3T(30) DEF functorsDone, Coming, connVars, userVars, serverVars, histVars
<1>11. CASE PeerStep \/ Ended
  <2>1. UNCHANGED <<connVars, loopVars, userVars, serverVars, histVars>>
    BY <1>11, ZenonT(60) DEF PeerStep, Ended, vars
  <2> QED
    BY <2>1 DEF Coming, connVars, loopVars, userVars, serverVars, histVars
<1> QED
  BY <1>2, <1>3, <1>4, <1>5, <1>6, <1>7, <1>8, <1>9, <1>10, <1>11, SMTT(30), Z3T(30) DEF Next, IOStep, FunctorStep

\* While the connection is up, handleClose() is what brings it down.
LEMMA UpNext ==
  ASSUME IInv, LoopInv, Up, Next, fault \in {"none", "useAfterFree"}
  PROVE  (Up' \/ Down') /\ fault' \in {"none", "useAfterFree"}
<1>u. ASSUME UNCHANGED <<ups, downs, inMap, closing>>, state' \in {"kConnected", "kDisconnecting"},
             Queued' \subseteq Queued \cup {"writeComplete", "highWater", "send", "shutdown"}
      PROVE  Up'
  BY <1>u DEF Up
<1>q. ASSUME UNCHANGED <<pending, batch>> PROVE Queued' = Queued
  BY <1>q DEF Queued
<1>n. ASSUME NEW op, NextFunctor(op), pending' = pending
      PROVE  op # "established" /\ op # "destroyed" /\ Queued' \subseteq Queued
  BY <1>n, KindsNext, SMTT(30), Z3T(30) DEF Up
<1>c. ASSUME handleClose, UNCHANGED <<pending, batch, inMap, ups>>, revents' \cap {"HUP", "IN"} = {}
      PROVE  Down' /\ fault' = fault
  <2>1. Queued' = Queued
    BY <1>c, <1>q
  <2> QED
    BY <1>c, <2>1 DEF handleClose, Up, Down
<1>1. CASE poll
  <2>1. Up'
    BY <1>1, <1>u, <1>q, SMTT(30), Z3T(30) DEF poll, Up, connVars, serverVars
  <2>2. fault' \in {"none", "useAfterFree"}
    BY <1>1 DEF poll
  <2> QED
    BY <2>1, <2>2, SMTT(30), Z3T(30)
<1>2. CASE eventClose
  <2>1. revents' \cap {"HUP", "IN"} = {}
    BY <1>2, Zenon DEF eventClose, IsNext, LoopInv
  <2> QED
    BY <1>2, <1>c, <2>1 DEF eventClose
<1>3. CASE eventError
  BY <1>3, <1>u, <1>q, Zenon DEF eventError, Up, connVars, serverVars, histVars
<1>4. CASE eventRead
  <2>1. CASE readData \/ readFails
    BY <1>4, <1>u, <1>q, <2>1, Zenon DEF eventRead, readData, readFails, Up, connVars, serverVars, histVars
  <2>2. CASE handleClose /\ UNCHANGED <<inMap, ups>>
    <3>1. revents' \cap {"HUP", "IN"} = {}
      BY <1>4, SMTT(30), Z3T(30) DEF eventRead, IsNext, LoopInv
    <3> QED
      BY <1>4, <1>c, <2>2, <3>1, SMTT(30), Z3T(30) DEF eventRead
  <2> QED
    BY <1>4, <2>1, <2>2 DEF eventRead, handleRead
<1>5. CASE eventWrite
  <2>1. Queued' \subseteq Queued \cup {"writeComplete"}
    BY <1>5, WriteKinds, SMTT(30), Z3T(30) DEF eventWrite, Queued
  <2> QED
    BY <1>5, <1>u, <2>1, SMTT(30), Z3T(30) DEF eventWrite, Up, serverVars, histVars
<1>6. CASE doPendingFunctors
  <2>1. batch = <<>> /\ batch' = pending /\ pending' = <<>>
    BY <1>6 DEF doPendingFunctors, LoopInv
  <2>2. Queued' = Queued
    BY <2>1, Zenon DEF Queued
  <2> QED
    BY <1>6, <1>u, <2>2, SMTT(30), Z3T(30) DEF doPendingFunctors, Up, connVars, serverVars, histVars
<1>7. CASE functorsDone
  BY <1>7, <1>u, <1>q, Zenon DEF functorsDone, Up, connVars, serverVars, histVars
<1>8. CASE connectEstablished \/ connectDestroyed
  BY <1>8, <1>n, Zenon DEF connectEstablished, connectDestroyed
<1>9. CASE notifyUser
  BY <1>9, <1>n, <1>u, SMTT(30), Z3T(30) DEF notifyUser, Up, connVars, serverVars, histVars
<1>10. CASE queuedSend
  <2>1. Queued' \subseteq Queued \cup {"writeComplete", "highWater"}
    <3>1. batch \in Seq(FunctorOf) /\ batch # <<>> /\ batch' = Tail(batch)
      BY <1>10 DEF queuedSend, NextFunctor, IInv, QueueInv
    <3>2. Kinds(batch') \subseteq Kinds(batch)
      BY <3>1, KindsTail, SMTT(30), Z3T(30)
    <3>3. Kinds(pending') \subseteq Kinds(pending) \cup {"writeComplete", "highWater"}
      BY <1>10, SendKinds, SMTT(30), Z3T(30) DEF queuedSend, Drop
    <3> QED
      BY <3>2, <3>3, SMTT(30), Z3T(30) DEF Queued
  <2>2. fault' \in {"none", "useAfterFree"}
    BY <1>10, SMTT(30), Z3T(30) DEF queuedSend
  <2> QED
    BY <1>10, <1>u, <2>1, <2>2, SMTT(30), Z3T(30) DEF queuedSend, Up, serverVars
<1>11. CASE queuedShutdown
  BY <1>11, <1>n, <1>u, SMTT(30), Z3T(30) DEF queuedShutdown, Up, connVars, serverVars
<1>12. ASSUME NEW n \in MsgLens, callbackSends(n)
       PROVE  (Up' \/ Down') /\ fault' \in {"none", "useAfterFree"}
  <2>1. Queued' \subseteq Queued \cup {"writeComplete", "highWater"}
    BY <1>12, SendKinds, SMTT(30), Z3T(30) DEF callbackSends, Queued
  <2> QED
    BY <1>12, <1>u, <2>1, SMTT(30), Z3T(30) DEF callbackSends, Up, serverVars, histVars
<1>13. CASE callbackShutdown
  BY <1>13, <1>u, <1>q, SMTT(30), Z3T(30) DEF callbackShutdown, loopVars, serverVars, histVars
<1>14. CASE callbackReturns
  BY <1>14, <1>u, <1>q, SMTT(30), Z3T(30) DEF callbackReturns, Up, connVars, serverVars, histVars
<1>15. CASE removeConnectionInLoop
  BY <1>15 DEF removeConnectionInLoop, Up
<1>16. CASE PeerStep \/ Ended
  BY <1>16, <1>u, <1>q, Zenon DEF PeerStep, Ended, vars, Up, connVars, loopVars, serverVars, histVars
<1>17. ASSUME NEW t \in Users, UserStep(t)
       PROVE  (Up' \/ Down') /\ fault' \in {"none", "useAfterFree"}
  <2>1. ASSUME NEW n, sendQueues(t, n) \/ shutdownQueues(t), n \in Nat
        PROVE  Queued' \subseteq Queued \cup {"send", "shutdown"}
    <3>1. PICK op \in {"send", "shutdown"}, m \in Nat : Queue(t, op, m)
      BY <2>1 DEF sendQueues, shutdownQueues
    <3> DEFINE f == [op |-> op, from |-> t, len |-> m]
    <3>2. f \in FunctorOf /\ f.op = op /\ pending' = Append(pending, f)
      BY <3>1, ZenonT(60) DEF FunctorOf, Ops, Queue
    <3> HIDE DEF f
    <3> QED
      BY <2>1, <3>2, KindsQueue, SMTT(30), Z3T(30) DEF sendQueues, shutdownQueues
  <2>2. CASE shutdown(t)
    BY <1>u, <1>q, <2>2, SMTT(30), Z3T(30) DEF shutdown, Up, connVars, loopVars, serverVars, histVars
  <2>3. CASE shutdownSets(t)
    BY <1>u, <1>q, <2>3, ZenonT(60) DEF shutdownSets, loopVars, serverVars
  <2>4. CASE shutdownQueues(t)
    <3>1. Queued' \subseteq Queued \cup {"send", "shutdown"}
      BY <2>1, <2>4, Zenon
    <3> QED
      BY <1>u, <2>4, <3>1 DEF shutdownQueues, Up, connVars, serverVars, histVars
  <2>5. CASE release(t)
    BY <1>u, <1>q, <2>5, ZenonT(60) DEF release, Up, connVars, loopVars, serverVars, histVars
  <2>6. ASSUME NEW n \in MsgLens, send(t, n)
        PROVE  (Up' \/ Down') /\ fault' \in {"none", "useAfterFree"}
    BY <1>u, <1>q, <2>6, SMTT(30), Z3T(30) DEF send, Up, connVars, loopVars, serverVars, histVars
  <2>7. ASSUME NEW n \in MsgLens, sendQueues(t, n)
        PROVE  (Up' \/ Down') /\ fault' \in {"none", "useAfterFree"}
    <3>1. n \in Nat
      BY ConnAssumption
    <3>2. Queued' \subseteq Queued \cup {"send", "shutdown"}
      BY <2>1, <2>7, <3>1, SMTT(30), Z3T(30)
    <3> QED
      BY <1>u, <2>7, <3>2, SMTT(30), Z3T(30) DEF sendQueues, Up, connVars, serverVars, histVars
  <2> QED
    BY <1>17, <2>2, <2>3, <2>4, <2>5, <2>6, <2>7, SMTT(30), Z3T(30) DEF UserStep
<1> QED
  BY <1>1, <1>2, <1>3, <1>4, <1>5, <1>6, <1>7, <1>8, <1>9, <1>10, <1>11, <1>12, <1>13, <1>14,
     <1>15, <1>16, <1>17, SMTT(30), Z3T(30) DEF Next, IOStep, EventStep, FunctorStep

\* After handleClose() the channel stays disabled, and connectDestroyed() is on its way
\* until it is called; only a late shutdown() can write state_ again.
LEMMA DownNext ==
  ASSUME IInv, LoopInv, Down, Next, ~revived', fault \in {"none", "useAfterFree"}
  PROVE  Down' /\ fault' \in {"none", "useAfterFree"}
<1>d. ASSUME UNCHANGED <<ups, downs, state, reading, writing, registered, inMap, closing>>,
             revents' \subseteq revents,
             Queued' \subseteq Queued \cup {"writeComplete", "highWater", "send", "shutdown"},
             Queued \subseteq Queued' \cup {"writeComplete", "highWater", "send", "shutdown"}
      PROVE  Down'
  BY <1>d DEF Down
<1>q. ASSUME UNCHANGED <<pending, batch>> PROVE Queued' = Queued
  BY <1>q, ZenonT(60) DEF Queued
<1>1. CASE poll
  <2>1. revents' = {} /\ fault' = fault
    BY <1>1, Zenon DEF poll, Down
  <2> QED
    BY <1>1, <1>d, <1>q, <2>1 DEF poll, connVars, serverVars
<1>2. CASE eventClose \/ eventRead
  BY <1>2, ZenonT(60) DEF eventClose, eventRead, IsNext, Down
<1>3. CASE eventError
  BY <1>3, <1>d, <1>q DEF eventError, IsNext, connVars, serverVars, histVars
<1>4. CASE eventWrite
  <2>1. ~writing /\ UNCHANGED <<writing, registered, pending>>
    BY <1>4, SMTT(30), Z3T(30) DEF eventWrite, handleWrite, Down
  <2> QED
    BY <1>4, <1>d, <1>q, <2>1, ZenonT(60) DEF eventWrite, IsNext, serverVars, histVars
<1>5. CASE doPendingFunctors
  <2>1. batch = <<>> /\ batch' = pending /\ pending' = <<>>
    BY <1>5, SMTT(30), Z3T(30) DEF doPendingFunctors, LoopInv
  <2>2. Queued' = Queued
    BY <2>1 DEF Queued
  <2> QED
    BY <1>5, <1>d, <2>2, SMTT(30), Z3T(30) DEF doPendingFunctors, connVars, serverVars, histVars
<1>6. CASE functorsDone
  BY <1>6, <1>d, <1>q, ZenonT(60) DEF functorsDone, connVars, serverVars, histVars
<1>7. CASE connectEstablished
  BY <1>7, KindsNext, SMTT(30), Z3T(30) DEF connectEstablished, Down, Queued
<1>8. CASE connectDestroyed
  <2>1. Queued = Queued' \cup {"destroyed"}
    BY <1>8, KindsNext, SMTT(30), Z3T(30) DEF connectDestroyed
  <2>2. UNCHANGED <<state, reading, writing, downs>>
    BY <1>8 DEF connectDestroyed, destroysConnected, Down
  <2>3. fault' = fault /\ ~registered' /\ UNCHANGED <<ups, revents, inMap, closing>>
    BY <1>8, <2>2, Zenon DEF connectDestroyed, Down, serverVars
  <2> QED
    BY <2>1, <2>2, <2>3, SMTT(30), Z3T(30) DEF Down
<1>9. CASE notifyUser
  <2>1. Queued = Queued' \cup {"writeComplete"} \/ Queued = Queued' \cup {"highWater"}
    BY <1>9, KindsNext, Zenon DEF notifyUser
  <2> QED
    BY <1>9, <1>d, <2>1, Zenon DEF notifyUser, connVars, serverVars, histVars
<1>10. CASE queuedSend
  <2>1. UNCHANGED <<writing, registered, pending>>
    BY <1>10, SMTT(30), Z3T(30) DEF queuedSend, sendInLoop, Drop, Down
  <2>2. Queued = Queued' \cup {"send"}
    BY <1>10, <2>1, KindsNext, SMTT(30), Z3T(30) DEF queuedSend
  <2>3. fault' \in {"none", "useAfterFree"}
    BY <1>10, SMTT(30), Z3T(30) DEF queuedSend
  <2> QED
    BY <1>10, <1>d, <2>1, <2>2, <2>3, ZenonT(60) DEF queuedSend, serverVars
<1>11. CASE queuedShutdown
  <2>1. Queued = Queued' \cup {"shutdown"}
    BY <1>11, KindsNext, ZenonT(60) DEF queuedShutdown
  <2> QED
    BY <1>11, <1>d, <2>1, SMTT(30), Z3T(30) DEF queuedShutdown, connVars, serverVars
<1>12. CASE callbackShutdown \/ \E n \in MsgLens : callbackSends(n)
  BY <1>12, SMTT(30), Z3T(30) DEF callbackShutdown, callbackSends, Down
<1>13. CASE callbackReturns
  BY <1>13, <1>d, <1>q, SMTT(30), Z3T(30) DEF callbackReturns, connVars, serverVars, histVars
<1>14. CASE removeConnectionInLoop
  <2> DEFINE f == Call("destroyed")
  <2>1. f \in FunctorOf /\ f.op = "destroyed" /\ pending' = Append(pending, f) /\ batch' = batch
    BY <1>14, CallsAreFunctors, SMTT(30), Z3T(30) DEF removeConnectionInLoop, Call
  <2> HIDE DEF f
  <2>2. Queued' = Queued \cup {"destroyed"}
    BY <2>1, KindsQueue, SMTT(30), Z3T(30)
  <2> QED
    BY <1>14, <2>2, SMTT(30), Z3T(30) DEF removeConnectionInLoop, Down, connVars
<1>15. CASE PeerStep \/ Ended
  <2>1. UNCHANGED <<connVars, loopVars, serverVars, histVars>>
    BY <1>15, SMTT(30), Z3T(30) DEF PeerStep, Ended, vars
  <2> QED
    BY <1>d, <1>q, <2>1, SMTT(30), Z3T(30) DEF connVars, loopVars, serverVars, histVars
<1>16. ASSUME NEW t \in Users, UserStep(t) PROVE Down' /\ fault' \in {"none", "useAfterFree"}
  <2>1. ASSUME NEW n \in Nat, sendQueues(t, n) \/ shutdownQueues(t)
        PROVE  Queued' \subseteq Queued \cup {"send", "shutdown"} /\ Queued \subseteq Queued'
    <3>1. PICK op \in {"send", "shutdown"}, m \in Nat : Queue(t, op, m)
      BY <2>1 DEF sendQueues, shutdownQueues
    <3> DEFINE f == [op |-> op, from |-> t, len |-> m]
    <3>2. f \in FunctorOf /\ f.op = op /\ pending' = Append(pending, f)
      BY <3>1, ZenonT(60) DEF FunctorOf, Ops, Queue
    <3> HIDE DEF f
    <3> QED
      BY <2>1, <3>2, KindsQueue, SMTT(30), Z3T(30) DEF sendQueues, shutdownQueues
  <2>2. CASE shutdown(t) \/ \E n \in MsgLens : send(t, n)
    BY <2>2 DEF shutdown, send, Down
  <2>3. CASE shutdownSets(t)
    BY <2>3, Zenon DEF shutdownSets, Down
  <2>4. CASE shutdownQueues(t)
    <3>1. Queued' \subseteq Queued \cup {"send", "shutdown"} /\ Queued \subseteq Queued'
      BY <2>1, <2>4
    <3> QED
      BY <1>d, <2>4, <3>1, Zenon DEF shutdownQueues, connVars, serverVars, histVars
  <2>5. CASE release(t)
    BY <1>d, <1>q, <2>5, ZenonT(60) DEF release, connVars, loopVars, serverVars, histVars
  <2>6. ASSUME NEW n \in MsgLens, sendQueues(t, n)
        PROVE  Down' /\ fault' \in {"none", "useAfterFree"}
    <3>1. n \in Nat
      BY ConnAssumption, SMTT(30), Z3T(30)
    <3>2. Queued' \subseteq Queued \cup {"send", "shutdown"} /\ Queued \subseteq Queued'
      BY <2>1, <2>6, <3>1, SMTT(30), Z3T(30)
    <3> QED
      BY <1>d, <2>6, <3>2, SMTT(30), Z3T(30) DEF sendQueues, connVars, serverVars, histVars
  <2> QED
    BY <1>16, <2>2, <2>3, <2>4, <2>5, <2>6, ZenonT(60) DEF UserStep
<1> QED
  BY <1>1, <1>2, <1>3, <1>4, <1>5, <1>6, <1>7, <1>8, <1>9, <1>10, <1>11, <1>12, <1>13, <1>14,
     <1>15, <1>16, SMTT(30), Z3T(30) DEF Next, IOStep, EventStep, FunctorStep

\* The history variable revived never becomes FALSE again.
LEMMA RevivedStays == revived /\ [Next]_vars => revived'
<1> SUFFICES ASSUME revived, [Next]_vars PROVE revived'
  OBVIOUS
<1>1. CASE IOStep
  BY <1>1, Zenon DEF IOStep, EventStep, FunctorStep, poll, eventClose, eventError, eventRead, handleRead,
     readData, readFails, eventWrite, doPendingFunctors, functorsDone, connectEstablished,
     connectDestroyed, notifyUser, queuedSend, queuedShutdown, callbackReturns, histVars
<1>2. CASE callbackShutdown \/ removeConnectionInLoop \/ PeerStep \/ \E n \in MsgLens : callbackSends(n)
  BY <1>2, Zenon DEF callbackShutdown, removeConnectionInLoop, PeerStep, callbackSends, histVars
<1>3. CASE \E t \in Users : UserStep(t)
  BY <1>3, ZenonT(60) DEF UserStep, shutdown, shutdownSets, shutdownQueues, release, send, sendQueues, histVars
<1>4. CASE UNCHANGED vars
  BY <1>4, SMTT(30), Z3T(30) DEF vars, histVars
<1> QED
  BY <1>1, <1>2, <1>3, <1>4, SMTT(30), Z3T(30) DEF Next, Ended

\* The connection is coming, up or down, in this order.
LEMMA LifeNext == IInv /\ LoopInv /\ LifeInv /\ [Next]_vars => LifeInv'
<1> SUFFICES ASSUME IInv, LoopInv, LifeInv, [Next]_vars, ~revived'
             PROVE  (Coming' \/ Up' \/ Down') /\ fault' \in {"none", "useAfterFree"}
  BY DEF LifeInv
<1>1. (Coming \/ Up \/ Down) /\ fault \in {"none", "useAfterFree"}
  BY RevivedStays, SMTT(30), Z3T(30) DEF LifeInv
<1>2. CASE Next
  BY <1>1, <1>2, ComingNext, UpNext, DownNext, SMTT(30), Z3T(30)
<1>3. CASE UNCHANGED vars
  <2>1. UNCHANGED <<connVars, loopVars, userVars, serverVars, histVars>> /\ Queued' = Queued
    BY <1>3 DEF vars, Queued, loopVars
  <2>2. Coming => Coming'
    BY <2>1, Zenon DEF Coming, connVars, loopVars, userVars, serverVars, histVars
  <2>3. (Up => Up') /\ (Down => Down')
    BY <2>1, SMTT(30), Z3T(30) DEF Up, Down, connVars, loopVars, serverVars, histVars
  <2> QED
    BY <1>1, <2>1, <2>2, <2>3, SMTT(30), Z3T(30) DEF histVars
<1> QED
  BY <1>2, <1>3, SMTT(30), Z3T(30)

\* A new connection.
LEMMA LifeInit == Init => LoopInv /\ LifeInv
  BY KindsNone DEF Init, LoopInv, LifeInv, Coming

-----------------------------------------------------------------------------
(* Theorems about its life *)

\* A channel that the Poller knows belongs to a connection that somebody still holds:
\* handleClose(), removeConnectionInLoop() and connectDestroyed() hand it on.
THEOREM WatchedStaysAlive == Spec => []WatchedIsAlive
<1>1. LoopInv /\ LifeInv => WatchedIsAlive
  <2> SUFFICES ASSUME LoopInv, LifeInv, registered, ~revived PROVE Alive
    BY DEF WatchedIsAlive
  <2>1. CASE inMap
    BY <2>1 DEF Alive
  <2>2. CASE "destroyed" \in Kinds(pending)
    BY <2>2, SharedKinds, SMTT(30), Z3T(30) DEF Alive
  <2>3. CASE "destroyed" \in Kinds(batch)
    BY <2>3 DEF LoopInv, Alive
  <2> QED
    BY <2>1, <2>2, <2>3, SMTT(30), Z3T(30) DEF LifeInv, Coming, Up, Down, Queued
<1> QED
  BY <1>1, InitInv, NextInv, LoopNext, LifeInit, LifeNext, PTL DEF Spec

\* connectionCallback_ tells the user of one UP and then of at most one DOWN, after
\* which the channel is disabled, and no assertion fails.
THEOREM DownStaysFinal == Spec => []DownIsFinal
<1>1. LifeInv => DownIsFinal
  BY DEF LifeInv, Coming, Up, Down, DownIsFinal
<1> QED
  BY <1>1, InitInv, NextInv, LoopNext, LifeInit, LifeNext, PTL DEF Spec
=============================================================================
