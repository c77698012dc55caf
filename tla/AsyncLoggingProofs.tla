-------------------------- MODULE AsyncLoggingProofs --------------------------
(***************************************************************************)
(* Proofs about AsyncLogging and its LogFile for any sizes of buffers and  *)
(* files, any intervals and any number of lines.                           *)
(***************************************************************************)
EXTENDS AsyncLogging, SequenceTheorems, TLAPS

-----------------------------------------------------------------------------
(* Lines and buffers *)

LogBuffer == Seq(Nat)
LogBuffers == Seq(LogBuffer)

\* The order of sets of lines goes by their elements.
LEMMA BeforeUnion ==
  ASSUME NEW S, NEW T, NEW U
  PROVE  /\ Before(S \cup T, U) <=> Before(S, U) /\ Before(T, U)
         /\ Before(U, S \cup T) <=> Before(U, S) /\ Before(U, T)
         /\ Before({}, U) /\ Before(U, {})
  BY Zenon DEF Before

\* Where the elements of a concatenation come from.
LEMMA ConcatPlaces ==
  ASSUME NEW S, NEW a \in Seq(S), NEW b \in Seq(S)
  PROVE  /\ a \o b \in Seq(S) /\ DOMAIN a = 1 .. Len(a) /\ DOMAIN b = 1 .. Len(b)
         /\ Len(a) \in Nat /\ Len(b) \in Nat /\ DOMAIN (a \o b) = 1 .. Len(a) + Len(b)
         /\ \A i \in DOMAIN a : i \in DOMAIN (a \o b) /\ (a \o b)[i] = a[i]
         /\ \A j \in DOMAIN b : Len(a) + j \in DOMAIN (a \o b) /\ (a \o b)[Len(a) + j] = b[j]
         /\ \A k \in DOMAIN (a \o b) :
              \/ k \in DOMAIN a
              \/ \E j \in DOMAIN b : k = Len(a) + j
<1>1. /\ a \o b \in Seq(S) /\ Len(a \o b) = Len(a) + Len(b)
      /\ \A i \in 1 .. Len(a) + Len(b) : (a \o b)[i] = IF i <= Len(a) THEN a[i] ELSE b[i - Len(a)]
  BY ConcatProperties, SMTT(30), Z3T(30)
<1> DEFINE c == a \o b
           m == Len(a)
           n == Len(b)
<1>2. /\ DOMAIN a = 1 .. m /\ DOMAIN b = 1 .. n /\ DOMAIN c = 1 .. m + n /\ m \in Nat /\ n \in Nat
  BY <1>1, LenProperties
<1> HIDE DEF c, m, n
<1>3. \A i \in 1 .. m + n : c[i] = IF i <= m THEN a[i] ELSE b[i - m]
  BY <1>1, ZenonT(30) DEF c, m, n
<1>4. \A i \in DOMAIN a : i \in DOMAIN c /\ c[i] = a[i]
  BY <1>2, <1>3
<1>5. ASSUME NEW j \in DOMAIN b PROVE m + j \in DOMAIN c /\ c[m + j] = b[j]
  <2>1. m + j \in 1 .. m + n /\ ~(m + j <= m) /\ (m + j) - m = j
    BY <1>2
  <2> QED
    BY <1>2, <1>3, <2>1
<1>6. ASSUME NEW k \in DOMAIN c PROVE k \in DOMAIN a \/ \E j \in DOMAIN b : k = m + j
  <2>1. CASE k <= m
    BY <1>2, <2>1
  <2>2. CASE ~(k <= m)
    <3>1. k - m \in DOMAIN b /\ k = m + (k - m)
      BY <1>2, <2>2
    <3> QED
      BY <3>1
  <2> QED
    BY <2>1, <2>2
<1> QED
  BY <1>1, <1>2, <1>4, <1>5, <1>6, Zenon DEF c, m, n

\* A sequence is its head followed by its tail.
LEMMA HeadAndTail ==
  ASSUME NEW S, NEW q \in Seq(S), q # <<>>
  PROVE  q = <<Head(q)>> \o Tail(q)
<1> DEFINE h == <<Head(q)>>
           t == Tail(q)
<1>1. /\ h \in Seq(S) /\ t \in Seq(S) /\ Len(h) = 1 /\ Len(t) = Len(q) - 1 /\ Len(q) \in Nat \ {0}
      /\ h[1] = q[1] /\ \A i \in 1 .. Len(q) - 1 : t[i] = q[i + 1]
  BY HeadTailProperties, EmptySeq
<1> HIDE DEF h, t
<1>2. /\ h \o t \in Seq(S) /\ Len(h \o t) = Len(h) + Len(t)
      /\ \A i \in 1 .. Len(h) + Len(t) : (h \o t)[i] = IF i <= Len(h) THEN h[i] ELSE t[i - Len(h)]
  BY <1>1, ConcatProperties, ZenonT(60)
<1>3. Len(h) + Len(t) = Len(q)
  BY <1>1
<1>4. ASSUME NEW i \in 1 .. Len(q) PROVE (h \o t)[i] = q[i]
  BY <1>1, <1>2, <1>3, SMTT(30), Z3T(30)
<1> QED
  BY <1>2, <1>3, <1>4, SeqEqual DEF h, t

\* The lines of concatenated buffers, and when they are in order.
LEMMA SortedConcat ==
  ASSUME NEW a \in LogBuffer, NEW b \in LogBuffer
  PROVE  /\ a \o b \in LogBuffer
         /\ Range(a \o b) = Range(a) \cup Range(b)
         /\ Sorted(a) /\ Sorted(b) /\ Before(Range(a), Range(b)) =>
              Sorted(a \o b)
<1> DEFINE c == a \o b
<1>1. /\ c \in Seq(Nat) /\ DOMAIN a = 1 .. Len(a) /\ DOMAIN b = 1 .. Len(b)
      /\ Len(a) \in Nat /\ Len(b) \in Nat /\ DOMAIN c = 1 .. Len(a) + Len(b)
      /\ \A i \in DOMAIN a : i \in DOMAIN c /\ c[i] = a[i]
      /\ \A j \in DOMAIN b : Len(a) + j \in DOMAIN c /\ c[Len(a) + j] = b[j]
      /\ \A k \in DOMAIN c : k \in DOMAIN a \/ \E j \in DOMAIN b : k = Len(a) + j
  BY ConcatPlaces, Zenon DEF LogBuffer
<1> HIDE DEF c
<1>2. Range(c) = Range(a) \cup Range(b)
  <2>1. \A l : /\ l \in Range(a) <=> \E i \in DOMAIN a : l = a[i]
               /\ l \in Range(b) <=> \E i \in DOMAIN b : l = b[i]
               /\ l \in Range(c) <=> \E i \in DOMAIN c : l = c[i]
    BY Zenon DEF Range
  <2>2. ASSUME NEW l PROVE l \in Range(a) \/ l \in Range(b) => l \in Range(c)
    BY <1>1, <2>1
  <2>3. ASSUME NEW l \in Range(c) PROVE l \in Range(a) \/ l \in Range(b)
    <3>1. PICK k \in DOMAIN c : l = c[k]
      BY <2>1
    <3>2. CASE k \in DOMAIN a
      BY <1>1, <2>1, <3>1, <3>2
    <3>3. ASSUME NEW j \in DOMAIN b, k = Len(a) + j PROVE l \in Range(b)
      BY <1>1, <2>1, <3>1, <3>3
    <3> QED
      BY <1>1, <3>2, <3>3, Zenon
  <2> QED
    BY <2>2, <2>3, Zenon
<1>3. ASSUME Sorted(a), Sorted(b), Before(Range(a), Range(b))
      PROVE  Sorted(c)
  <2> SUFFICES ASSUME NEW i \in DOMAIN c, NEW j \in DOMAIN c, i < j
               PROVE  Before({c[i]}, {c[j]})
    BY DEF Sorted
  <2>1. CASE i \in DOMAIN a /\ j \in DOMAIN a
    BY <1>1, <1>3, <2>1, Zenon DEF Sorted
  <2>2. ASSUME i \in DOMAIN a, NEW l \in DOMAIN b, j = Len(a) + l PROVE Before({c[i]}, {c[j]})
    <3>1. c[i] \in Range(a) /\ c[j] \in Range(b)
      BY <1>1, <2>2, Zenon DEF Range
    <3> QED
      BY <1>3, <3>1, Zenon DEF Before
  <2>3. ASSUME NEW k \in DOMAIN b, i = Len(a) + k, NEW l \in DOMAIN b, j = Len(a) + l
        PROVE  Before({c[i]}, {c[j]})
    <3>1. k < l
      BY <1>1, <2>3
    <3> QED
      BY <1>1, <1>3, <2>3, <3>1, Zenon DEF Sorted
  <2>4. ASSUME NEW k \in DOMAIN b, i = Len(a) + k, j \in DOMAIN a PROVE FALSE
    BY <1>1, <2>4
  <2> QED
    BY <1>1, <2>1, <2>2, <2>3, <2>4, Zenon
<1> QED
  BY <1>1, <1>2, <1>3, Zenon DEF c, LogBuffer

LEMMA LinesConcat ==
  ASSUME NEW a \in LogBuffers, NEW b \in LogBuffers
  PROVE  /\ a \o b \in LogBuffers
         /\ Lines(a \o b) = Lines(a) \cup Lines(b)
         /\ InOrder(a \o b) <=>
              InOrder(a) /\ InOrder(b) /\ Before(Lines(a), Lines(b))
<1> DEFINE c == a \o b
<1>1. /\ c \in Seq(LogBuffer) /\ DOMAIN a = 1 .. Len(a) /\ DOMAIN b = 1 .. Len(b)
      /\ Len(a) \in Nat /\ Len(b) \in Nat /\ DOMAIN c = 1 .. Len(a) + Len(b)
      /\ \A i \in DOMAIN a : i \in DOMAIN c /\ c[i] = a[i]
      /\ \A j \in DOMAIN b : Len(a) + j \in DOMAIN c /\ c[Len(a) + j] = b[j]
      /\ \A k \in DOMAIN c : k \in DOMAIN a \/ \E j \in DOMAIN b : k = Len(a) + j
  BY ConcatPlaces, Zenon DEF LogBuffers
<1> HIDE DEF c
<1>2. \A l : /\ l \in Lines(a) <=> \E i \in DOMAIN a : l \in Range(a[i])
             /\ l \in Lines(b) <=> \E i \in DOMAIN b : l \in Range(b[i])
             /\ l \in Lines(c) <=> \E i \in DOMAIN c : l \in Range(c[i])
  BY Zenon DEF Lines
<1>3. Lines(c) = Lines(a) \cup Lines(b)
  BY <1>1, <1>2, ZenonT(30)
<1>4. ASSUME InOrder(c)
      PROVE  InOrder(a) /\ InOrder(b) /\ Before(Lines(a), Lines(b))
  <2>1. InOrder(a)
    BY <1>1, <1>4, Zenon DEF InOrder
  <2>2. \A k, l \in DOMAIN b : k < l => Len(a) + k < Len(a) + l
    BY <1>1
  <2>3. InOrder(b)
    BY <1>1, <1>4, <2>2, Zenon DEF InOrder
  <2>4. \A k \in DOMAIN a, l \in DOMAIN b : k < Len(a) + l
    BY <1>1
  <2>5. \A k \in DOMAIN a, l \in DOMAIN b : Before(Range(a[k]), Range(b[l]))
    BY <1>1, <1>4, <2>4, Zenon DEF InOrder
  <2>6. Before(Lines(a), Lines(b))
    BY <1>2, <2>5, Zenon DEF Before
  <2> QED
    BY <2>1, <2>3, <2>6
<1>5. ASSUME InOrder(a), InOrder(b), Before(Lines(a), Lines(b))
      PROVE  InOrder(c)
  <2>1. ASSUME NEW i \in DOMAIN c PROVE Sorted(c[i])
    BY <1>1, <1>5, Zenon DEF InOrder
  <2>2. ASSUME NEW i \in DOMAIN c, NEW j \in DOMAIN c, i < j
        PROVE  Before(Range(c[i]), Range(c[j]))
    <3>1. CASE i \in DOMAIN a /\ j \in DOMAIN a
      BY <1>1, <1>5, <2>2, <3>1, Zenon DEF InOrder
    <3>2. ASSUME i \in DOMAIN a, NEW l \in DOMAIN b, j = Len(a) + l
          PROVE  Before(Range(c[i]), Range(c[j]))
      <4>1. \A k : /\ k \in Range(c[i]) => k \in Lines(a)
                   /\ k \in Range(c[j]) => k \in Lines(b)
        BY <1>1, <1>2, <3>2, Zenon
      <4> QED
        BY <1>5, <4>1, Zenon DEF Before
    <3>3. ASSUME NEW k \in DOMAIN b, i = Len(a) + k, NEW l \in DOMAIN b, j = Len(a) + l
          PROVE  Before(Range(c[i]), Range(c[j]))
      <4>1. k < l
        BY <1>1, <2>2, <3>3, SMTT(30), Z3T(30)
      <4> QED
        BY <1>1, <1>5, <3>3, <4>1, Zenon DEF InOrder
    <3>4. ASSUME NEW k \in DOMAIN b, i = Len(a) + k, j \in DOMAIN a PROVE FALSE
      BY <1>1, <2>2, <3>4
    <3> QED
      BY <1>1, <3>1, <3>2, <3>3, <3>4, Zenon
  <2> QED
    BY <2>1, <2>2, Zenon DEF InOrder
<1> QED
  BY <1>1, <1>3, <1>4, <1>5, Zenon DEF c, LogBuffers

\* Nothing, one line, and one buffer.
LEMMA NoLines ==
  /\ <<>> \in LogBuffer /\ Range(<<>>) = {} /\ Sorted(<<>>)
  /\ <<>> \in LogBuffers /\ Lines(<<>>) = {} /\ InOrder(<<>>)
<1>1. <<>> \in LogBuffer /\ <<>> \in LogBuffers /\ DOMAIN <<>> = {}
  BY DEF LogBuffer, LogBuffers
<1> QED
  BY <1>1, Zenon DEF Range, Sorted, Lines, InOrder

LEMMA OneLine ==
  ASSUME NEW l \in Nat
  PROVE  <<l>> \in LogBuffer /\ Range(<<l>>) = {l} /\ Sorted(<<l>>)
<1>1. <<l>> \in LogBuffer /\ DOMAIN <<l>> = 1 .. 1 /\ <<l>>[1] = l
  BY DEF LogBuffer
<1>2. \A i \in 1 .. 1 : i = 1
  OBVIOUS
<1>3. Range(<<l>>) = {l}
  <2>1. \A k : k \in Range(<<l>>) <=> \E i \in DOMAIN <<l>> : k = <<l>>[i]
    BY Zenon DEF Range
  <2>2. 1 \in 1 .. 1
    OBVIOUS
  <2> QED
    BY <1>1, <1>2, <2>1, <2>2
<1>4. \A i, j \in 1 .. 1 : ~(i < j)
  OBVIOUS
<1>5. Sorted(<<l>>)
  BY <1>1, <1>4, Zenon DEF Sorted
<1> QED
  BY <1>1, <1>3, <1>5

LEMMA OneBuffer ==
  ASSUME NEW b \in LogBuffer
  PROVE  /\ <<b>> \in LogBuffers /\ Lines(<<b>>) = Range(b)
         /\ InOrder(<<b>>) <=> Sorted(b)
<1>1. <<b>> \in LogBuffers /\ DOMAIN <<b>> = 1 .. 1 /\ <<b>>[1] = b
  BY DEF LogBuffers
<1>2. (\A i \in 1 .. 1 : i = 1) /\ 1 \in 1 .. 1 /\ \A i, j \in 1 .. 1 : ~(i < j)
  OBVIOUS
<1>3. Lines(<<b>>) = Range(b)
  <2>1. \A k : k \in Lines(<<b>>) <=> \E i \in DOMAIN <<b>> : k \in Range(<<b>>[i])
    BY Zenon DEF Lines
  <2> QED
    BY <1>1, <1>2, <2>1, Zenon
<1>4. InOrder(<<b>>) <=> Sorted(b)
  BY <1>1, <1>2, Zenon DEF InOrder
<1> QED
  BY <1>1, <1>3, <1>4

\* The stream is in order when its four parts are, each before the next ones.
Ordered(o, w, b, c) ==
  /\ InOrder(o) /\ InOrder(w) /\ InOrder(b) /\ Sorted(c)
  /\ Before(Lines(o), Lines(w)) /\ Before(Lines(o), Lines(b))
  /\ Before(Lines(o), Range(c)) /\ Before(Lines(w), Lines(b))
  /\ Before(Lines(w), Range(c)) /\ Before(Lines(b), Range(c))

LEMMA StreamParts ==
  ASSUME NEW o \in LogBuffers, NEW w \in LogBuffers, NEW b \in LogBuffers, NEW c \in LogBuffer
  PROVE  /\ InOrder(o \o w \o b \o <<c>>) <=> Ordered(o, w, b, c)
         /\ Lines(o \o w \o b \o <<c>>) =
              Lines(o) \cup Lines(w) \cup Lines(b) \cup Range(c)
<1>1. /\ o \o w \in LogBuffers /\ Lines(o \o w) = Lines(o) \cup Lines(w)
      /\ InOrder(o \o w) <=>
           InOrder(o) /\ InOrder(w) /\ Before(Lines(o), Lines(w))
  BY LinesConcat, Zenon
<1>2. /\ o \o w \o b \in LogBuffers
      /\ Lines(o \o w \o b) = Lines(o \o w) \cup Lines(b)
      /\ InOrder(o \o w \o b) <=>
           InOrder(o \o w) /\ InOrder(b) /\ Before(Lines(o \o w), Lines(b))
  BY <1>1, LinesConcat, Zenon
<1>0. <<c>> \in LogBuffers /\ Lines(<<c>>) = Range(c) /\ (InOrder(<<c>>) <=> Sorted(c))
  BY OneBuffer, Zenon
<1>3. /\ Lines(o \o w \o b \o <<c>>) = Lines(o \o w \o b) \cup Range(c)
      /\ InOrder(o \o w \o b \o <<c>>) <=>
           InOrder(o \o w \o b) /\ Sorted(c)
             /\ Before(Lines(o \o w \o b), Range(c))
  <2> DEFINE p == o \o w \o b
             q == <<c>>
  <2>1. p \in LogBuffers /\ q \in LogBuffers
    BY <1>2, <1>0
  <2> HIDE DEF p, q
  <2>2. /\ Lines(p \o q) = Lines(p) \cup Lines(q)
        /\ InOrder(p \o q) <=>
             InOrder(p) /\ InOrder(q) /\ Before(Lines(p), Lines(q))
    BY <2>1, LinesConcat, Zenon
  <2> QED
    BY <1>0, <2>2, Zenon DEF p, q
<1>4. Lines(o \o w \o b) = (Lines(o) \cup Lines(w)) \cup Lines(b)
  BY <1>1, <1>2
<1>5. Before(Lines(o \o w), Lines(b)) <=>
        Before(Lines(o), Lines(b)) /\ Before(Lines(w), Lines(b))
  BY <1>1, BeforeUnion, ZenonT(60)
<1>6. Before(Lines(o \o w \o b), Range(c)) <=>
        /\ Before(Lines(o), Range(c)) /\ Before(Lines(w), Range(c))
        /\ Before(Lines(b), Range(c))
  <2>1. Before((Lines(o) \cup Lines(w)) \cup Lines(b), Range(c)) <=>
          /\ Before(Lines(o) \cup Lines(w), Range(c))
          /\ Before(Lines(b), Range(c))
    BY Zenon DEF Before
  <2>2. Before(Lines(o) \cup Lines(w), Range(c)) <=>
          Before(Lines(o), Range(c)) /\ Before(Lines(w), Range(c))
    BY BeforeUnion, Zenon
  <2> QED
    BY <1>4, <2>1, <2>2, Zenon
<1> QED
  BY <1>1, <1>2, <1>3, <1>4, <1>5, <1>6, Zenon DEF Ordered

-----------------------------------------------------------------------------
(* LogFile *)

LogFiles == Seq([name : Nat, lines : LogBuffer])

\* The lines of the files, as Output has them.
LinesOf(fs) == [i \in DOMAIN fs |-> fs[i].lines]

LEMMA LinesOfType ==
  ASSUME NEW fs \in LogFiles
  PROVE  /\ LinesOf(fs) \in LogBuffers /\ Len(LinesOf(fs)) = Len(fs) /\ Len(fs) \in Nat
         /\ DOMAIN LinesOf(fs) = DOMAIN fs /\ DOMAIN fs = 1 .. Len(fs)
<1>1. Len(fs) \in Nat /\ DOMAIN fs = 1 .. Len(fs) /\ \A i \in 1 .. Len(fs) : fs[i].lines \in LogBuffer
  <2>1. Len(fs) \in Nat /\ DOMAIN fs = 1 .. Len(fs)
    BY LenProperties DEF LogFiles
  <2>2. \A i \in 1 .. Len(fs) : fs[i] \in [name : Nat, lines : LogBuffer]
    BY ElementOfSeq, Zenon DEF LogFiles
  <2> QED
    BY <2>1, <2>2
<1>2. LinesOf(fs) = [i \in 1 .. Len(fs) |-> fs[i].lines]
  BY <1>1 DEF LinesOf
<1>3. LinesOf(fs) \in [1 .. Len(fs) -> LogBuffer]
  BY <1>1, <1>2
<1> QED
  BY <1>1, <1>3 DEF LogBuffers

\* A line at the end of the last buffer: a file that is written to.
LEMMA ExtendLast ==
  ASSUME NEW g \in LogBuffers, g # <<>>, NEW x \in LogBuffer, NEW h \in LogBuffers,
         h = [g EXCEPT ![Len(g)] = g[Len(g)] \o x]
  PROVE  /\ Lines(h) = Lines(g) \cup Range(x)
         /\ InOrder(g) /\ Sorted(x) /\ Before(Lines(g), Range(x)) => InOrder(h)
<1> DEFINE n == Len(g)
<1>1. n \in Nat \ {0} /\ DOMAIN g = 1 .. n /\ DOMAIN h = 1 .. n
  BY EmptySeq DEF LogBuffers
<1>2. n \in 1 .. n /\ g[n] \in LogBuffer /\ h[n] = g[n] \o x /\ \A i \in (1 .. n) \ {n} : h[i] = g[i]
  <2>1. n \in 1 .. n
    BY <1>1
  <2>2. g[n] \in LogBuffer
    BY <2>1, ElementOfSeq, Zenon DEF LogBuffers
  <2>3. h[n] = g[n] \o x /\ \A i \in (1 .. n) \ {n} : h[i] = g[i]
    BY <1>1, <2>1, Zenon
  <2> QED
    BY <2>1, <2>2, <2>3
<1> HIDE DEF n
<1>3. Range(h[n]) = Range(g[n]) \cup Range(x)
  BY <1>2, SortedConcat, Zenon
<1>4. \A l : /\ l \in Lines(g) <=> \E i \in 1 .. n : l \in Range(g[i])
             /\ l \in Lines(h) <=> \E i \in 1 .. n : l \in Range(h[i])
  BY <1>1, Zenon DEF Lines
<1>5. \A i \in 1 .. n : \A l : l \in Range(h[i]) <=>
                                  l \in Range(g[i]) \/ (i = n /\ l \in Range(x))
  BY <1>2, <1>3
<1>6. Lines(h) = Lines(g) \cup Range(x)
  BY <1>2, <1>4, <1>5, Zenon
<1>7. ASSUME InOrder(g), Sorted(x), Before(Lines(g), Range(x))
      PROVE  InOrder(h)
  <2>1. Sorted(g[n])
    BY <1>1, <1>2, <1>7, Zenon DEF InOrder
  <2>2. Before(Range(g[n]), Range(x))
    BY <1>2, <1>4, <1>7, Zenon DEF Before
  <2>3. Sorted(h[n])
    BY <1>2, <1>7, <2>1, <2>2, SortedConcat, Zenon
  <2>4. ASSUME NEW i \in 1 .. n PROVE Sorted(h[i])
    <3>1. CASE i = n
      BY <2>3, <3>1
    <3>2. CASE i # n
      <4>1. h[i] = g[i]
        BY <1>2, <3>2
      <4> QED
        BY <1>1, <1>7, <4>1, Zenon DEF InOrder
    <3> QED
      BY <3>1, <3>2
  <2>5. ASSUME NEW i \in 1 .. n, NEW j \in 1 .. n, i < j
        PROVE  Before(Range(h[i]), Range(h[j]))
    <3>1. i # n
      BY <1>1, <2>5
    <3>2. Before(Range(g[i]), Range(g[j]))
      BY <1>1, <1>7, <2>5, Zenon DEF InOrder
    <3>3. Before(Range(g[i]), Range(x))
      BY <1>4, <1>7, Zenon DEF Before
    <3> QED
      BY <1>5, <3>1, <3>2, <3>3, Zenon DEF Before
  <2> QED
    BY <1>1, <2>4, <2>5, Zenon DEF InOrder
<1> QED
  BY <1>6, <1>7, Zenon

\* A new file at the end, named by the time t.
WithNew(fs, t) == Append(fs, [name |-> t, lines |-> <<>>])

LEMMA LinesOfNew ==
  ASSUME NEW fs \in LogFiles, NEW t \in Nat, NEW gs, gs = WithNew(fs, t)
  PROVE  /\ gs \in LogFiles /\ Len(gs) = Len(fs) + 1 /\ gs # <<>>
         /\ gs[Len(gs)].name = t /\ gs[Len(gs)].lines = <<>>
         /\ \A i \in 1 .. Len(fs) : gs[i] = fs[i]
         /\ Lines(LinesOf(gs)) = Lines(LinesOf(fs))
         /\ InOrder(LinesOf(fs)) => InOrder(LinesOf(gs))
<1> DEFINE f == [name |-> t, lines |-> <<>>]
           n == Len(fs)
<1>1. f \in [name : Nat, lines : LogBuffer] /\ f.name = t /\ f.lines = <<>>
  BY NoLines
<1> HIDE DEF f
<1>2. /\ gs \in LogFiles /\ Len(gs) = n + 1 /\ gs # <<>> /\ gs[n + 1] = f
      /\ \A i \in 1 .. n : gs[i] = fs[i]
  <2>1. gs = Append(fs, f)
    BY DEF f, WithNew
  <2> QED
    BY <1>1, <2>1, AppendProperties, SMTT(30), Z3T(30) DEF LogFiles
<1>3. n \in Nat /\ DOMAIN fs = 1 .. n /\ LinesOf(fs) \in LogBuffers /\ Len(LinesOf(fs)) = n
  BY LinesOfType
<1>4. DOMAIN gs = 1 .. n + 1 /\ LinesOf(gs) \in LogBuffers /\ Len(LinesOf(gs)) = n + 1
  BY <1>2, LinesOfType
<1>5. LinesOf(gs) = LinesOf(fs) \o << <<>> >>
  <2>1. \A i \in 1 .. n + 1 : LinesOf(gs)[i] = IF i <= n THEN LinesOf(fs)[i] ELSE <<>>
    BY <1>1, <1>2, <1>3, <1>4 DEF LinesOf
  <2> DEFINE p == LinesOf(fs)
             q == LinesOf(gs)
  <2>2. /\ p \in Seq(LogBuffer) /\ q \in Seq(LogBuffer) /\ Len(p) = n /\ Len(q) = n + 1
        /\ <<>> \in LogBuffer /\ \A i \in 1 .. n + 1 : q[i] = IF i <= n THEN p[i] ELSE <<>>
    BY <1>3, <1>4, <2>1, NoLines DEF LogBuffers
  <2> HIDE DEF p, q, n
  <2>3. q = Append(p, <<>>)
    BY <1>3, <2>2
  <2>4. Append(p, <<>>) = p \o << <<>> >>
    BY <2>2, AppendIsConcat
  <2> QED
    BY <2>3, <2>4 DEF p, q
<1>6. << <<>> >> \in LogBuffers /\ Lines(<< <<>> >>) = {} /\ InOrder(<< <<>> >>)
  BY OneBuffer, NoLines, Zenon
<1>7. /\ Lines(LinesOf(gs)) = Lines(LinesOf(fs)) \cup {}
      /\ InOrder(LinesOf(fs)) /\ Before(Lines(LinesOf(fs)), {}) => InOrder(LinesOf(gs))
  <2> DEFINE p == LinesOf(fs)
             q == << <<>> >>
  <2> HIDE DEF p, q
  <2>1. p \in LogBuffers /\ q \in LogBuffers /\ Lines(q) = {} /\ InOrder(q)
    BY <1>3, <1>6 DEF p, q
  <2>2. /\ Lines(p \o q) = Lines(p) \cup Lines(q)
        /\ InOrder(p \o q) <=>
             InOrder(p) /\ InOrder(q) /\ Before(Lines(p), Lines(q))
    BY <2>1, LinesConcat, Zenon
  <2> QED
    BY <1>5, <2>1, <2>2, Zenon DEF p, q
<1> QED
  BY <1>1, <1>2, <1>7, BeforeUnion, Zenon

\* The files fs are named by seconds, in order; the last one has the name of the last roll.
FilesInv(fs, last, time) ==
  /\ fs \in LogFiles /\ last \in Nat /\ time \in Nat /\ last <= time
  /\ \A i, j \in DOMAIN fs : i < j => fs[i].name < fs[j].name
  /\ \A i \in DOMAIN fs : fs[i].name <= last
  /\ fs # <<>> => fs[Len(fs)].name = last

RollInv ==
  /\ FilesInv(files, lastRoll, now)
  /\ files # <<>> =>
       /\ startOfPeriod = Period(lastRoll)
       /\ Len(files[Len(files)].lines) > rollSize => lastAppend = lastRoll

\* rollFile() keeps the lines, and leaves a full file only when it is of this second.
LEMMA RollFileInv ==
  ASSUME NEW fs, NEW n, FilesInv(fs, lastRoll, now),
         fs # <<>> \/ lastRoll < now, fs # <<>> => startOfPeriod = Period(lastRoll),
         rollFile(fs, n)
  PROVE  /\ FilesInv(files', lastRoll', now) /\ files' # <<>>
         /\ startOfPeriod' = Period(lastRoll')
         /\ Len(files'[Len(files')].lines) > rollSize => now = lastRoll' /\ fs # <<>>
         /\ \A i \in DOMAIN fs : i \in DOMAIN files' /\ files'[i] = fs[i]
         /\ Lines(LinesOf(files')) = Lines(LinesOf(fs))
         /\ InOrder(LinesOf(fs)) => InOrder(LinesOf(files'))
<1>1. fs \in LogFiles /\ lastRoll \in Nat /\ now \in Nat /\ lastRoll <= now /\ rollSize \in Nat
  BY LogFileAssumption DEF FilesInv
<1>2. CASE now > lastRoll
  <2>1. /\ lastRoll' = now /\ startOfPeriod' = Period(now)
        /\ files' = WithNew(fs, now)
    BY <1>1, <1>2 DEF rollFile, WithNew
  <2>2. /\ files' \in LogFiles /\ Len(files') = Len(fs) + 1 /\ files' # <<>>
        /\ files'[Len(files')].name = now /\ files'[Len(files')].lines = <<>>
        /\ \A i \in 1 .. Len(fs) : files'[i] = fs[i]
        /\ Lines(LinesOf(files')) = Lines(LinesOf(fs))
        /\ InOrder(LinesOf(fs)) => InOrder(LinesOf(files'))
    <3> DEFINE g == files'
    <3>1. fs \in LogFiles /\ now \in Nat /\ g = WithNew(fs, now)
      BY <1>1, <2>1
    <3> HIDE DEF g
    <3>2. g \in LogFiles /\ Len(g) = Len(fs) + 1 /\ g # <<>>
      BY <3>1, LinesOfNew, ZenonT(60)
    <3>3. /\ g[Len(g)].name = now /\ g[Len(g)].lines = <<>>
          /\ \A i \in 1 .. Len(fs) : g[i] = fs[i]
      BY <3>1, LinesOfNew
    <3>4. /\ Lines(LinesOf(g)) = Lines(LinesOf(fs))
          /\ InOrder(LinesOf(fs)) => InOrder(LinesOf(g))
      BY <3>1, LinesOfNew, Zenon
    <3> QED
      BY <3>2, <3>3, <3>4 DEF g
  <2> DEFINE m == Len(fs)
             g == files'
  <2>3. m \in Nat /\ DOMAIN fs = 1 .. m /\ Len(g) = m + 1 /\ DOMAIN g = 1 .. m + 1
    BY <1>1, <2>2, LinesOfType
  <2> HIDE DEF g, m
  <2>4. g[m + 1].name = now /\ g[m + 1].lines = <<>> /\ \A i \in 1 .. m : g[i] = fs[i]
    BY <2>2, <2>3 DEF g, m
  <2>5. \A i \in 1 .. m : g[i].name \in Nat /\ g[i].name <= lastRoll
    <3>1. \A i \in 1 .. m : fs[i] \in [name : Nat, lines : LogBuffer]
      BY <1>1, ElementOfSeq, Zenon DEF LogFiles, m
    <3> QED
      BY <2>3, <2>4, <3>1, Zenon DEF FilesInv
  <2>6. ASSUME NEW i \in 1 .. m + 1, NEW j \in 1 .. m + 1, i < j PROVE g[i].name < g[j].name
    <3>1. i \in 1 .. m
      BY <2>3, <2>6
    <3>2. CASE j = m + 1
      BY <1>1, <1>2, <2>4, <2>5, <3>1, <3>2
    <3>3. CASE j # m + 1
      <4>1. j \in 1 .. m
        BY <2>3, <3>3
      <4>2. fs[i].name < fs[j].name
        BY <2>3, <2>6, <3>1, <4>1 DEF FilesInv
      <4> QED
        BY <2>4, <3>1, <4>1, <4>2
    <3> QED
      BY <3>2, <3>3
  <2>7. ASSUME NEW i \in 1 .. m + 1 PROVE g[i].name <= now
    <3>1. CASE i = m + 1
      BY <1>1, <2>4, <3>1
    <3>2. CASE i # m + 1
      <4>1. i \in 1 .. m
        BY <2>3, <3>2
      <4> QED
        BY <1>1, <2>5, <4>1
    <3> QED
      BY <3>1, <3>2
  <2>8. FilesInv(g, now, now)
    <3>1. now <= now /\ g \in LogFiles
      BY <1>1, <2>2 DEF g
    <3>2. g[Len(g)].name = now
      BY <2>3, <2>4
    <3>3. \A i, j \in DOMAIN g : i < j => g[i].name < g[j].name
      BY <2>3, <2>6, Zenon
    <3>4. \A i \in DOMAIN g : g[i].name <= now
      BY <2>3, <2>7, Zenon
    <3> QED
      BY <1>1, <3>1, <3>2, <3>3, <3>4, Zenon DEF FilesInv
  <2>9. ~(Len(g[Len(g)].lines) > rollSize)
    BY <1>1, <2>3, <2>4
  <2>10. \A i \in DOMAIN fs : i \in DOMAIN g /\ g[i] = fs[i]
    BY <2>3, <2>4
  <2> QED
    BY <2>1, <2>2, <2>8, <2>9, <2>10, Zenon DEF g
<1>3. CASE now <= lastRoll
  <2>1. files' = fs /\ lastRoll' = lastRoll /\ startOfPeriod' = startOfPeriod
    BY <1>1, <1>3 DEF rollFile
  <2>2. now = lastRoll /\ fs # <<>>
    BY <1>1, <1>3
  <2> QED
    BY <2>1, <2>2, Zenon
<1> QED
  BY <1>1, <1>2, <1>3, SMTT(30), Z3T(30)

\* A file keeps its name and its lines; only the last file gets more lines, behind
\* those it has.
FilesOnlyGrow ==
  \A i \in DOMAIN files :
    /\ i \in DOMAIN files' /\ files'[i].name = files[i].name
    /\ i # Len(files) => files'[i] = files[i]
    /\ \E more \in LogBuffer : files'[i].lines = files[i].lines \o more

LEMMA FilesStay ==
  ASSUME files \in LogFiles, \A i \in DOMAIN files : i \in DOMAIN files' /\ files'[i] = files[i]
  PROVE  FilesOnlyGrow
<1> SUFFICES ASSUME NEW i \in DOMAIN files
             PROVE  \E more \in LogBuffer : files[i].lines = files[i].lines \o more
  BY Zenon DEF FilesOnlyGrow
<1>1. files[i] \in [name : Nat, lines : LogBuffer]
  BY LinesOfType, ElementOfSeq, Zenon DEF LogFiles
<1>2. files[i].lines \in Seq(Nat) /\ <<>> \in LogBuffer
  BY <1>1, NoLines DEF LogBuffer
<1>3. files[i].lines \o <<>> = files[i].lines
  BY <1>2, ConcatEmptySeq
<1> QED
  BY <1>2, <1>3, Zenon

\* append_unlocked() puts the lines at the end of the last file, and keeps FilesRoll.
LEMMA AppendUnlockedInv ==
  ASSUME RollInv, files # <<>>, NEW x \in LogBuffer, append_unlocked(x)
  PROVE  /\ RollInv' /\ files' # <<>> /\ now' = now /\ FilesOnlyGrow
         /\ Lines(LinesOf(files')) = Lines(LinesOf(files)) \cup Range(x)
         /\ InOrder(LinesOf(files)) /\ Sorted(x)
              /\ Before(Lines(LinesOf(files)), Range(x)) => InOrder(LinesOf(files'))
<1> DEFINE n == Len(files)
           fs == [files EXCEPT ![n].lines = @ \o x]
<1>1. /\ files \in LogFiles /\ n \in Nat \ {0} /\ DOMAIN files = 1 .. n /\ n \in 1 .. n
      /\ lastRoll \in Nat /\ now \in Nat /\ lastRoll <= now /\ rollSize \in Nat
  <2>1. files \in LogFiles /\ lastRoll \in Nat /\ now \in Nat /\ lastRoll <= now
    BY DEF RollInv, FilesInv
  <2>2. n \in Nat /\ DOMAIN files = 1 .. n /\ n # 0
    BY <2>1, LinesOfType, EmptySeq DEF LogFiles
  <2> QED
    BY <2>1, <2>2, LogFileAssumption
<1>2. \A i \in 1 .. n : files[i] \in [name : Nat, lines : LogBuffer]
  BY <1>1, ElementOfSeq, Zenon DEF LogFiles
<1>3. files[n].lines \o x \in LogBuffer
  <2>1. files[n].lines \in LogBuffer
    BY <1>1, <1>2
  <2> QED
    BY <2>1, SortedConcat, Zenon
<1>4. /\ fs \in LogFiles /\ Len(fs) = n /\ DOMAIN fs = 1 .. n /\ fs # <<>>
      /\ fs[n].lines = files[n].lines \o x
      /\ \A i \in 1 .. n : fs[i].name = files[i].name /\ (i # n => fs[i] = files[i])
  <2> DEFINE y == files[n].lines \o x
             r == [files[n] EXCEPT !.lines = y]
  <2>1. fs = [files EXCEPT ![n] = r]
    OBVIOUS
  <2>2. r \in [name : Nat, lines : LogBuffer] /\ r.name = files[n].name /\ r.lines = y
    BY <1>1, <1>2, <1>3, Zenon
  <2> HIDE DEF r, y, fs, n
  <2>3. fs \in Seq([name : Nat, lines : LogBuffer]) /\ Len(fs) = n /\ DOMAIN fs = 1 .. n
    BY <1>1, <2>1, <2>2 DEF LogFiles, n
  <2>4. fs[n] = r /\ \A i \in 1 .. n : i # n => fs[i] = files[i]
    BY <1>1, <2>1
  <2> QED
    BY <1>1, <2>2, <2>3, <2>4, SMTT(30), Z3T(30) DEF LogFiles, y
<1> HIDE DEF fs
<1>5. FilesInv(fs, lastRoll, now)
  BY <1>1, <1>4, Zenon DEF RollInv, FilesInv
<1>6. /\ Lines(LinesOf(fs)) = Lines(LinesOf(files)) \cup Range(x)
      /\ InOrder(LinesOf(files)) /\ Sorted(x)
           /\ Before(Lines(LinesOf(files)), Range(x)) => InOrder(LinesOf(fs))
  <2> DEFINE g == LinesOf(files)
             h == LinesOf(fs)
  <2>1. g \in LogBuffers /\ h \in LogBuffers /\ Len(g) = n /\ DOMAIN g = 1 .. n /\ DOMAIN h = 1 .. n
    BY <1>1, <1>4, LinesOfType, Zenon
  <2>2. \A i \in 1 .. n : h[i] = IF i = n THEN g[n] \o x ELSE g[i]
    BY <1>1, <1>4, Zenon DEF LinesOf
  <2> HIDE DEF g, h
  <2>3. h = [g EXCEPT ![Len(g)] = g[Len(g)] \o x] /\ g # <<>>
    <3>1. h = [i \in 1 .. n |-> h[i]] /\ g = [i \in 1 .. n |-> g[i]] /\ g # <<>>
      BY <1>1, <2>1 DEF LogBuffers
    <3> QED
      BY <1>1, <2>1, <2>2, <3>1, Zenon
  <2> QED
    BY <2>1, <2>3, ExtendLast, Zenon DEF g, h
<1>7. /\ lastAppend' = now /\ now' = now
      /\ \/ \E k : rollFile(fs, k)
         \/ /\ files' = fs /\ lastRoll' = lastRoll /\ startOfPeriod' = startOfPeriod
            /\ ~(Len(fs[n].lines) > rollSize)
  BY Zenon DEF append_unlocked, Full, fs, n
<1>8. fs # <<>> /\ startOfPeriod = Period(lastRoll)
  BY <1>4, Zenon DEF RollInv
<1>9. ASSUME NEW k, rollFile(fs, k)
      PROVE  /\ FilesInv(files', lastRoll', now) /\ files' # <<>>
             /\ startOfPeriod' = Period(lastRoll')
             /\ Len(files'[Len(files')].lines) > rollSize => now = lastRoll' /\ fs # <<>>
             /\ \A i \in DOMAIN fs : i \in DOMAIN files' /\ files'[i] = fs[i]
             /\ Lines(LinesOf(files')) = Lines(LinesOf(fs))
             /\ InOrder(LinesOf(fs)) => InOrder(LinesOf(files'))
  BY <1>5, <1>8, <1>9, RollFileInv
<1>10. FilesOnlyGrow
  <2>1. \A i \in 1 .. n : i \in DOMAIN files' /\ files'[i] = fs[i]
    BY <1>4, <1>7, <1>9, Zenon
  <2>2. <<>> \in LogBuffer
    BY NoLines, SMTT(30), Z3T(30)
  <2>3. ASSUME NEW i \in 1 .. n
        PROVE  /\ i \in DOMAIN files' /\ files'[i].name = files[i].name
               /\ i # n => files'[i] = files[i]
               /\ \E more \in LogBuffer : files'[i].lines = files[i].lines \o more
    <3>1. CASE i = n
      BY <1>4, <2>1, <3>1, Zenon
    <3>2. CASE i # n
      <4>1. files'[i] = files[i] /\ i \in DOMAIN files'
        BY <1>4, <2>1, <3>2, Zenon
      <4>2. files[i].lines \in Seq(Nat)
        BY <1>2 DEF LogBuffer
      <4>3. files[i].lines \o <<>> = files[i].lines
        BY <4>2, ConcatEmptySeq
      <4> QED
        BY <2>2, <4>1, <4>3, Zenon
    <3> QED
      BY <3>1, <3>2
  <2> QED
    BY <1>1, <2>3, Zenon DEF FilesOnlyGrow, n
<1>11. CASE files' = fs /\ lastRoll' = lastRoll /\ startOfPeriod' = startOfPeriod
              /\ ~(Len(fs[n].lines) > rollSize)
  <2>1. RollInv'
    BY <1>4, <1>5, <1>7, <1>8, <1>11, Zenon DEF RollInv, Period
  <2> QED
    BY <1>6, <1>7, <1>8, <1>10, <1>11, <2>1, Zenon
<1>12. CASE \E k : rollFile(fs, k)
  <2>1. RollInv' /\ files' # <<>>
    BY <1>7, <1>9, <1>12 DEF RollInv
  <2> QED
    BY <1>6, <1>7, <1>9, <1>10, <1>12, <2>1, Zenon
<1> QED
  BY <1>7, <1>11, <1>12

-----------------------------------------------------------------------------
(* AsyncLogging: the invariant *)

LogType ==
  /\ appended \in Nat /\ spare \in Nat /\ 0 < now
  /\ running \in BOOLEAN /\ nextBuffer \in BOOLEAN /\ newBuffer1 \in BOOLEAN /\ newBuffer2 \in BOOLEAN
  /\ currentBuffer \in LogBuffer /\ buffers \in LogBuffers /\ buffersToWrite \in LogBuffers

\* The thread opens its first file when it begins, and begins while start() waits.
StageInv ==
  /\ IF logger \in {"none", "begin"} THEN files = <<>> /\ lastRoll = 0 ELSE files # <<>>
  /\ owner = "new" <=> logger = "none"
  /\ logger = "begin" => owner = "latch"
  /\ owner = "latch" => running

\* The thread has newBuffer1 and newBuffer2 except while it writes; then it has
\* taken at least as many buffers as it needs to replace the ones it gave away.
Suffices(n) == IF newBuffer2 THEN 1 <= n ELSE 2 <= n
BufferInv ==
  /\ nextBuffer \/ buffers # <<>>
  /\ logger \notin {"drop", "write"} => newBuffer1 /\ newBuffer2 /\ buffersToWrite = <<>>
  /\ logger = "drop" => Suffices(Len(buffersToWrite))
  /\ logger = "write" => Suffices(spare)

\* LinesKept, part by part of the stream.
LineInv ==
  /\ Ordered(LinesOf(files), buffersToWrite, buffers, currentBuffer)
  /\ (Lines(LinesOf(files)) \cup Lines(buffersToWrite) \cup Lines(buffers)
        \cup Range(currentBuffer)) \ {0} = (1 .. appended) \ dropped
  /\ dropped \subseteq 0 .. appended
  /\ fault = FALSE

LogInv == LogType /\ RollInv /\ StageInv /\ BufferInv /\ LineInv

\* The invariant is stronger than the two properties.
LEMMA LogInvProperties ==
  ASSUME LogInv
  PROVE  LinesKept /\ FilesRoll
<1>1. FilesRoll
  BY DEF LogInv, RollInv, FilesInv, FilesRoll
<1>2. Output = LinesOf(files)
  BY Zenon DEF Output, LinesOf
<1>3. /\ LinesOf(files) \in LogBuffers
      /\ currentBuffer \in LogBuffer /\ buffers \in LogBuffers /\ buffersToWrite \in LogBuffers
  BY LinesOfType DEF LogInv, RollInv, FilesInv, LogType
<1>4. /\ InOrder(Stream)
      /\ Lines(Stream) = Lines(LinesOf(files)) \cup Lines(buffersToWrite)
                                   \cup Lines(buffers) \cup Range(currentBuffer)
  <2>1. Stream = LinesOf(files) \o buffersToWrite \o buffers \o <<currentBuffer>>
    BY <1>2 DEF Stream
  <2>2. Ordered(LinesOf(files), buffersToWrite, buffers, currentBuffer)
    BY DEF LogInv, LineInv
  <2> DEFINE o == LinesOf(files)
             w == buffersToWrite
             b == buffers
             c == currentBuffer
  <2> HIDE DEF o, w, b, c
  <2>3. o \in LogBuffers /\ w \in LogBuffers /\ b \in LogBuffers /\ c \in LogBuffer /\ Ordered(o, w, b, c)
    BY <1>3, <2>2 DEF o, w, b, c
  <2>4. /\ InOrder(o \o w \o b \o <<c>>)
        /\ Lines(o \o w \o b \o <<c>>) =
             Lines(o) \cup Lines(w) \cup Lines(b) \cup Range(c)
    BY <2>3, StreamParts
  <2> QED
    BY <2>1, <2>4, Zenon DEF o, w, b, c
<1>5. LinesKept
  BY <1>4 DEF LogInv, LineInv, LinesKept, Notice
<1> QED
  BY <1>1, <1>5

LEMMA LogInit ==
  ASSUME Init
  PROVE  LogInv
<1>1. /\ now = 1 /\ files = <<>> /\ lastRoll = 0 /\ running = FALSE
      /\ currentBuffer = <<>> /\ nextBuffer = TRUE /\ buffers = <<>> /\ newBuffer1 = TRUE
      /\ newBuffer2 = TRUE /\ buffersToWrite = <<>> /\ spare = 0 /\ logger = "none"
      /\ owner = "new" /\ appended = 0 /\ dropped = {} /\ fault = FALSE
  BY DEF Init, LogFileInit
<1>2. LogType /\ StageInv /\ BufferInv
  <2>1. LogType
    <3>1. <<>> \in LogBuffer /\ <<>> \in LogBuffers
      BY NoLines
    <3>2. appended \in Nat /\ spare \in Nat /\ 0 < now
      BY <1>1
    <3> QED
      BY <1>1, <3>1, <3>2, Zenon DEF LogType
  <2>2. StageInv /\ BufferInv
    BY <1>1 DEF StageInv, BufferInv
  <2> QED
    BY <2>1, <2>2
<1>3. RollInv
  <2>1. files \in LogFiles /\ DOMAIN files = {}
    BY <1>1 DEF LogFiles
  <2> QED
    BY <1>1, <2>1 DEF RollInv, FilesInv
<1>4. LinesOf(files) = <<>>
  BY <1>1 DEF LinesOf
<1>5. 1 .. appended = {}
  BY <1>1
<1>6. LineInv
  BY <1>1, <1>4, <1>5, NoLines, BeforeUnion, Zenon DEF LineInv, Ordered
<1> QED
  BY <1>2, <1>3, <1>6 DEF LogInv

\* A step that leaves the buffers, the files and the clock alone.
LEMMA QuietInv ==
  ASSUME LogInv,
         UNCHANGED <<now, files, startOfPeriod, lastRoll, lastAppend, currentBuffer, buffers,
                     buffersToWrite, appended, dropped>>
  PROVE  RollInv' /\ (fault' = FALSE => LineInv')
<1>1. RollInv'
  BY SMTT(30), Z3T(30) DEF LogInv, RollInv, FilesInv, Period
<1>2. ASSUME fault' = FALSE PROVE LineInv'
  BY <1>2 DEF LogInv, LineInv, Ordered, LinesOf
<1> QED
  BY <1>1, <1>2, ZenonT(30)

-----------------------------------------------------------------------------
(* AsyncLogging: the steps *)

\* The thread that starts and stops the logger, and the logger's wait.
LEMMA OwnerInv ==
  ASSUME LogInv, ownerSteps \/ stop \/ wait \/ timeout
  PROVE  LogInv'
<1>1. /\ UNCHANGED <<now, files, startOfPeriod, lastRoll, lastAppend, currentBuffer, buffers,
                     buffersToWrite, appended, dropped, fault, nextBuffer, newBuffer1, newBuffer2,
                     spare>>
      /\ \/ owner = "new" /\ running' = TRUE /\ logger' = "begin" /\ owner' = "latch"
         \/ owner = "latch" /\ logger # "begin" /\ owner' = "running" /\ UNCHANGED <<running, logger>>
         \/ owner = "running" /\ running' = FALSE /\ owner' = "notify" /\ UNCHANGED logger
         \/ /\ owner = "notify" /\ owner' = "join" /\ UNCHANGED running
            /\ logger' = IF logger = "wait" THEN "woken" ELSE logger
         \/ owner = "join" /\ owner' = "done" /\ UNCHANGED <<running, logger>>
         \/ /\ logger = "lock" /\ logger' = "wait" /\ UNCHANGED <<running, owner>>
         \/ /\ logger = "wait" /\ logger' = "woken" /\ UNCHANGED <<running, owner>>
  BY Zenon DEF ownerSteps, start, started, stop, stopNotifies, join, wait,
         timeout, logFileVars
<1>2. LogType /\ StageInv /\ BufferInv /\ fault = FALSE
  BY DEF LogInv, LineInv
<1>3. RollInv' /\ LineInv'
  BY <1>1, <1>2, QuietInv, Zenon
<1>4. LogType'
  BY <1>1, <1>2, Zenon DEF LogType
<1>5. StageInv'
  BY <1>1, <1>2 DEF StageInv
<1>6. BufferInv'
  BY <1>1, <1>2 DEF BufferInv, StageInv, Suffices
<1> QED
  BY <1>3, <1>4, <1>5, <1>6, SMTT(30), Z3T(30) DEF LogInv

\* The first file, and the while condition with its assertions.
LEMMA BeginInv ==
  ASSUME LogInv, begin
  PROVE  LogInv'
<1>1. /\ logger = "begin" /\ logger' = "while" /\ fault' = ~running
      /\ rollFile(files, unflushed) /\ now' = now /\ lastAppend' = lastAppend
      /\ UNCHANGED <<running, currentBuffer, nextBuffer, buffers, newBuffer1, newBuffer2,
                     buffersToWrite, spare, owner, appended, dropped>>
  BY Zenon DEF begin, openLogFile
<1>2. LogType /\ RollInv /\ StageInv /\ BufferInv /\ LineInv
  BY DEF LogInv
<1>3. /\ files = <<>> /\ lastRoll = 0 /\ 0 < now /\ running = TRUE
      /\ FilesInv(files, lastRoll, now)
  BY <1>1, <1>2, SMTT(30), Z3T(30) DEF StageInv, LogType, RollInv
<1>4. /\ FilesInv(files', lastRoll', now) /\ files' # <<>>
      /\ startOfPeriod' = Period(lastRoll')
      /\ ~(Len(files'[Len(files')].lines) > rollSize)
      /\ Lines(LinesOf(files')) = Lines(LinesOf(files))
      /\ InOrder(LinesOf(files)) => InOrder(LinesOf(files'))
  <2>1. files # <<>> \/ lastRoll < now
    BY <1>3
  <2> QED
    BY <1>1, <1>3, <2>1, RollFileInv
<1>5. LineInv'
  BY <1>1, <1>2, <1>3, <1>4, Zenon DEF LineInv, Ordered
<1>6. RollInv'
  BY <1>1, <1>4 DEF RollInv
<1>7. LogType'
  BY <1>1, <1>2, SMTT(30), Z3T(30) DEF LogType
<1>8. StageInv' /\ BufferInv'
  BY <1>1, <1>2, <1>4 DEF StageInv, BufferInv
<1> QED
  BY <1>5, <1>6, <1>7, <1>8 DEF LogInv

LEMMA WhileInv ==
  ASSUME LogInv, while
  PROVE  LogInv'
<1>1. LogType /\ StageInv /\ BufferInv /\ fault = FALSE
  BY DEF LogInv, LineInv
<1>2. /\ UNCHANGED <<now, files, startOfPeriod, lastRoll, lastAppend, currentBuffer, buffers,
                     buffersToWrite, appended, dropped, nextBuffer, newBuffer1, newBuffer2,
                     spare, running, owner>>
      /\ logger = "while" /\ logger' \in {"lock", "done"}
      /\ fault' = fault \/ fault' = ~(newBuffer1 /\ newBuffer2 /\ buffersToWrite = <<>>)
  BY DEF while, flush, logFileVars
<1>3. fault' = FALSE
  BY <1>1, <1>2, Zenon DEF BufferInv
<1>4. RollInv' /\ LineInv'
  BY <1>2, <1>3, QuietInv, Zenon
<1>5. LogType'
  BY <1>1, <1>2 DEF LogType
<1>6. StageInv' /\ BufferInv'
  BY <1>1, <1>2 DEF StageInv, BufferInv
<1> QED
  BY <1>4, <1>5, <1>6 DEF LogInv

\* The buffers come back: as many as are missing, so no assertion fails.
LEMMA RecycleInv ==
  ASSUME LogInv, recycle
  PROVE  LogInv'
<1>1. LogType /\ StageInv /\ BufferInv
  BY DEF LogInv
<1>2. /\ UNCHANGED <<now, files, startOfPeriod, lastRoll, lastAppend, currentBuffer, buffers,
                     buffersToWrite, appended, dropped, nextBuffer, running, owner>>
      /\ logger = "write" /\ buffersToWrite = <<>> /\ logger' = "while"
      /\ newBuffer1' = TRUE /\ newBuffer2' = TRUE /\ spare' = 0
      /\ fault' = ((IF spare > 2 THEN 2 ELSE spare)
                     < (IF newBuffer1 THEN 0 ELSE 1) + (IF newBuffer2 THEN 0 ELSE 1))
  BY DEF recycle, flush
<1>3. spare \in Nat /\ IF newBuffer2 THEN 1 <= spare ELSE 2 <= spare
  BY <1>1, <1>2 DEF LogType, BufferInv, Suffices
<1>4. fault' = FALSE
  <2> DEFINE has == IF spare > 2 THEN 2 ELSE spare
             needs == (IF newBuffer1 THEN 0 ELSE 1) + (IF newBuffer2 THEN 0 ELSE 1)
  <2>1. (has < needs) = FALSE
    BY <1>3
  <2>2. fault' = (has < needs)
    BY <1>2, Zenon
  <2> HIDE DEF has, needs
  <2> QED
    BY <2>1, <2>2, Zenon
<1>5. RollInv' /\ LineInv'
  BY <1>2, <1>4, QuietInv, Zenon
<1>6. LogType'
  BY <1>1, <1>2 DEF LogType
<1>7. StageInv' /\ BufferInv'
  BY <1>1, <1>2 DEF StageInv, BufferInv
<1> QED
  BY <1>5, <1>6, <1>7 DEF LogInv

\* The clock: the files are of earlier seconds all the same.
LEMMA ClockInv ==
  ASSUME LogInv, clock
  PROVE  LogInv'
<1>1. /\ now' = now + 1
      /\ UNCHANGED <<files, startOfPeriod, lastRoll, lastAppend, currentBuffer, buffers,
                     buffersToWrite, appended, dropped, fault, nextBuffer, newBuffer1, newBuffer2,
                     spare, logger, owner, running>>
  BY DEF clock, tick, loggingVars
<1>2. LogType /\ RollInv /\ StageInv /\ BufferInv /\ LineInv
  BY DEF LogInv
<1>3. now \in Nat /\ lastRoll \in Nat /\ lastRoll <= now /\ lastRoll <= now + 1
  BY <1>2, SMTT(30), Z3T(30) DEF RollInv, FilesInv
<1>4. RollInv'
  BY <1>1, <1>2, <1>3 DEF RollInv, FilesInv, Period
<1>5. LogType'
  BY <1>1, <1>2, <1>3 DEF LogType
<1>6. StageInv' /\ BufferInv'
  BY <1>1, <1>2, SMTT(30), Z3T(30) DEF StageInv, BufferInv, Suffices
<1>7. LineInv'
  BY <1>1, <1>2 DEF LineInv, Ordered, LinesOf
<1> QED
  BY <1>4, <1>5, <1>6, <1>7 DEF LogInv

\* append(): the new line is behind all the others.
LEMMA AppendInv ==
  ASSUME LogInv, append
  PROVE  LogInv'
<1> DEFINE line == appended + 1
           O == Lines(LinesOf(files))
           W == Lines(buffersToWrite)
           B == Lines(buffers)
           C == Range(currentBuffer)
<1>1. LogType /\ RollInv /\ StageInv /\ BufferInv /\ LineInv
  BY DEF LogInv
<1>2. /\ UNCHANGED <<now, files, startOfPeriod, lastRoll, lastAppend, buffersToWrite, dropped,
                     fault, newBuffer1, newBuffer2, spare, owner, running>>
      /\ appended' = line
      /\ \/ /\ currentBuffer' = Append(currentBuffer, line)
            /\ UNCHANGED <<buffers, nextBuffer, logger>>
         \/ /\ buffers' = Append(buffers, currentBuffer) /\ nextBuffer' = FALSE
            /\ currentBuffer' = <<line>>
            /\ logger' = IF logger = "wait" THEN "woken" ELSE logger
  BY DEF append, logFileVars
<1>3. line \in Nat \ {0} /\ appended \in Nat
  BY <1>1 DEF LogType
<1>4. currentBuffer \in LogBuffer /\ buffers \in LogBuffers
  BY <1>1 DEF LogType
<1>5. /\ <<line>> \in LogBuffer /\ Range(<<line>>) = {line} /\ Sorted(<<line>>)
      /\ <<currentBuffer>> \in LogBuffers /\ Lines(<<currentBuffer>>) = C
      /\ InOrder(<<currentBuffer>>) <=> Sorted(currentBuffer)
  BY <1>3, <1>4, OneLine, OneBuffer, SMTT(30), Z3T(30)
<1> HIDE DEF line
<1>6. RollInv'
  BY <1>1, <1>2 DEF RollInv, FilesInv, Period
<1>7. \A l \in (O \cup W \cup B \cup C) \ {0} : l < line
  BY <1>1, <1>3 DEF LineInv, line
<1>8. /\ Before(O, {line}) /\ Before(W, {line}) /\ Before(B, {line})
      /\ Before(C, {line})
  BY <1>7, Zenon DEF Before, Notice
<1>9. (O \cup W \cup B \cup (C \cup {line})) \ {0} = (1 .. line) \ dropped
  <2>1. /\ (O \cup W \cup B \cup C) \ {0} = (1 .. appended) \ dropped
        /\ dropped \subseteq 0 .. appended
    BY <1>1 DEF LineInv
  <2>2. line \notin dropped /\ 1 .. line = (1 .. appended) \cup {line} /\ line # 0
    BY <1>3, <2>1 DEF line
  <2> HIDE DEF O, W, B, C
  <2> QED
    BY <2>1, <2>2, Zenon
<1>10. dropped \subseteq 0 .. line
  <2>1. 0 .. appended \subseteq 0 .. line /\ dropped \subseteq 0 .. appended
    BY <1>1, <1>3 DEF LineInv, line
  <2> QED
    BY <2>1, Zenon
<1>11. LineInv' /\ currentBuffer' \in LogBuffer /\ buffers' \in LogBuffers
  <2>1. CASE currentBuffer' = Append(currentBuffer, line) /\ UNCHANGED buffers
    <3>1. currentBuffer' = currentBuffer \o <<line>>
      BY <1>3, <1>4, <2>1, AppendIsConcat DEF LogBuffer
    <3>2. /\ currentBuffer' \in LogBuffer /\ Range(currentBuffer') = C \cup {line}
          /\ Sorted(currentBuffer')
      <4>1. Sorted(currentBuffer)
        BY <1>1 DEF LineInv, Ordered
      <4> QED
        BY <1>4, <1>5, <1>8, <3>1, <4>1, SortedConcat, Zenon
    <3>3. Ordered(LinesOf(files'), buffersToWrite', buffers', currentBuffer')
      <4>1. Before(O, C) /\ Before(W, C) /\ Before(B, C)
        BY <1>1 DEF LineInv, Ordered
      <4>2. /\ Before(O, C \cup {line}) /\ Before(W, C \cup {line})
            /\ Before(B, C \cup {line})
        BY <1>8, <4>1, BeforeUnion, ZenonT(30)
      <4> QED
        BY <1>1, <1>2, <2>1, <3>2, <4>2, ZenonT(30) DEF LineInv, Ordered
    <3> QED
      BY <1>1, <1>2, <1>4, <1>9, <1>10, <2>1, <3>2, <3>3 DEF LineInv
  <2>2. CASE buffers' = Append(buffers, currentBuffer) /\ currentBuffer' = <<line>>
    <3>1. buffers' = buffers \o <<currentBuffer>>
      BY <1>4, <2>2, AppendIsConcat, SMTT(30), Z3T(30) DEF LogBuffers
    <3>2. /\ buffers' \in LogBuffers /\ Lines(buffers') = B \cup C /\ InOrder(buffers')
      <4>1. InOrder(buffers) /\ Sorted(currentBuffer) /\ Before(B, C)
        BY <1>1 DEF LineInv, Ordered
      <4> QED
        BY <1>4, <1>5, <3>1, <4>1, LinesConcat, SMTT(30), Z3T(30)
    <3>3. Range(currentBuffer') = {line} /\ Sorted(currentBuffer') /\ currentBuffer' \in LogBuffer
      BY <1>5, <2>2
    <3>4. Ordered(LinesOf(files'), buffersToWrite', buffers', currentBuffer')
      <4>1. /\ Before(O, B \cup C) /\ Before(W, B \cup C)
            /\ Before(B \cup C, {line})
        <5>1. Before(O, B) /\ Before(O, C) /\ Before(W, B) /\ Before(W, C)
          BY <1>1 DEF LineInv, Ordered
        <5> QED
          BY <1>8, <5>1, BeforeUnion, ZenonT(30)
      <4> QED
        BY <1>1, <1>2, <1>8, <3>2, <3>3, <4>1, Zenon DEF LineInv, Ordered
    <3> QED
      BY <1>1, <1>2, <1>9, <1>10, <3>2, <3>3, <3>4 DEF LineInv
  <2> QED
    BY <1>2, <2>1, <2>2, SMTT(30), Z3T(30)
<1>12. buffers' # <<>> \/ UNCHANGED <<buffers, nextBuffer>>
  <2>1. Append(buffers, currentBuffer) # <<>>
    BY <1>4, AppendProperties DEF LogBuffers
  <2> QED
    BY <1>2, <2>1, Zenon
<1>13. LogType'
  BY <1>1, <1>2, <1>3, <1>11, ZenonT(30) DEF LogType
<1>14. StageInv' /\ BufferInv'
  BY <1>1, <1>2, <1>12, SMTT(30), Z3T(30) DEF StageInv, BufferInv, Suffices
<1> QED
  BY <1>6, <1>11, <1>13, <1>14, SMTT(30), Z3T(30) DEF LogInv

\* The critical section takes every buffer, and two at least if it leaves two.
LEMMA SwapInv ==
  ASSUME LogInv, swap
  PROVE  LogInv'
<1> DEFINE O == Lines(LinesOf(files))
           B == Lines(buffers)
           C == Range(currentBuffer)
<1>1. LogType /\ RollInv /\ StageInv /\ BufferInv /\ LineInv
  BY DEF LogInv
<1>2. /\ UNCHANGED <<now, files, startOfPeriod, lastRoll, lastAppend, appended, dropped,
                     fault, spare, owner, running>>
      /\ logger \in {"woken", "lock"} /\ logger' = "drop"
      /\ buffersToWrite' = Append(buffers, currentBuffer) /\ buffers' = <<>>
      /\ currentBuffer' = <<>> /\ newBuffer1' = FALSE
      /\ newBuffer2' = nextBuffer /\ nextBuffer' = TRUE
  BY DEF swap, logFileVars
<1>3. currentBuffer \in LogBuffer /\ buffers \in LogBuffers /\ nextBuffer \in BOOLEAN
  BY <1>1 DEF LogType
<1>4. buffersToWrite = <<>> /\ (nextBuffer \/ buffers # <<>>)
  BY <1>1, <1>2 DEF BufferInv
<1>5. /\ buffersToWrite' \in LogBuffers /\ Lines(buffersToWrite') = B \cup C
      /\ InOrder(buffersToWrite')
  <2>1. buffersToWrite' = buffers \o <<currentBuffer>>
    BY <1>2, <1>3, AppendIsConcat DEF LogBuffers
  <2>2. InOrder(buffers) /\ Sorted(currentBuffer) /\ Before(B, C)
    BY <1>1 DEF LineInv, Ordered
  <2>3. /\ <<currentBuffer>> \in LogBuffers /\ Lines(<<currentBuffer>>) = C
        /\ InOrder(<<currentBuffer>>)
    BY <1>3, <2>2, OneBuffer, SMTT(30), Z3T(30)
  <2> QED
    BY <1>3, <2>1, <2>2, <2>3, LinesConcat
<1>6. LineInv'
  <2>1. Before(O, B \cup C)
    BY <1>1, BeforeUnion DEF LineInv, Ordered
  <2>2. \A S : Before(S, {}) /\ Before({}, S)
    BY BeforeUnion, Zenon
  <2>3. Ordered(LinesOf(files'), buffersToWrite', buffers', currentBuffer')
    BY <1>1, <1>2, <1>5, <2>1, <2>2, NoLines, Zenon DEF LineInv, Ordered
  <2>4. (O \cup {} \cup B \cup C) \ {0} = (1 .. appended) \ dropped
    BY <1>1, <1>4, NoLines DEF LineInv
  <2>5. (O \cup (B \cup C) \cup {} \cup {}) \ {0} = (1 .. appended) \ dropped
    BY <2>4, SMTT(30), Z3T(30)
  <2> QED
    BY <1>1, <1>2, <1>5, <2>3, <2>5, NoLines, SMTT(30), Z3T(30) DEF LineInv
<1>7. RollInv'
  BY <1>1, <1>2 DEF RollInv, FilesInv, Period
<1>8. LogType'
  <2>1. <<>> \in LogBuffer /\ <<>> \in LogBuffers
    BY NoLines
  <2> QED
    BY <1>1, <1>2, <1>5, <2>1, Zenon DEF LogType
<1>9. Suffices(Len(buffersToWrite))'
  <2>1. Len(buffers) \in Nat /\ Len(buffersToWrite') = Len(buffers) + 1
    BY <1>2, <1>3, AppendProperties DEF LogBuffers
  <2>2. nextBuffer \/ Len(buffers) # 0
    BY <1>3, <1>4, EmptySeq, SMTT(30), Z3T(30) DEF LogBuffers
  <2> QED
    BY <1>2, <2>1, <2>2, SMTT(30), Z3T(30) DEF Suffices
<1>10. StageInv' /\ BufferInv'
  BY <1>1, <1>2, <1>9 DEF StageInv, BufferInv
<1> QED
  BY <1>6, <1>7, <1>8, <1>10 DEF LogInv

\* What Kept() leaves, and what it leaves out.
LEMMA KeptIs ==
  ASSUME NEW w \in LogBuffers, InOrder(w), Len(w) > MaxBuffers
  PROVE  /\ Kept(w) \in LogBuffers /\ InOrder(Kept(w)) /\ Len(Kept(w)) = 2
         /\ Lines(Kept(w)) \subseteq Lines(w)
         /\ Before(Lines(Kept(w)), Lines(w) \ Lines(Kept(w)))
<1> DEFINE k == SubSeq(w, 1, 2)
           r == SubSeq(w, 3, Len(w))
<1>1. Len(w) \in Nat /\ MaxBuffers \in Nat \ {0, 1} /\ 2 < Len(w)
  BY LoggingAssumption DEF LogBuffers
<1>2. Kept(w) = k
  BY DEF Kept
<1>3. k \in LogBuffers /\ Len(k) = 2 /\ r \in LogBuffers
  BY <1>1, SubSeqProperties DEF LogBuffers
<1>4. w = k \o r
  <2>1. SubSeq(w, 1, 2) \o SubSeq(w, 2 + 1, Len(w)) = SubSeq(w, 1, Len(w))
    BY <1>1, ConcatAdjacentSubSeq DEF LogBuffers
  <2>2. SubSeq(w, 1, Len(w)) = w
    BY SubSeqFull DEF LogBuffers
  <2> QED
    BY <2>1, <2>2
<1> HIDE DEF k, r
<1>5. /\ Lines(w) = Lines(k) \cup Lines(r)
      /\ InOrder(k) /\ Before(Lines(k), Lines(r))
  BY <1>3, <1>4, LinesConcat
<1>6. Before(Lines(k), Lines(w) \ Lines(k))
  BY <1>5, Zenon DEF Before
<1> QED
  BY <1>2, <1>3, <1>5, <1>6, Zenon

\* The notice does not count, and what is dropped is nowhere else.
LEMMA DropInv ==
  ASSUME LogInv, drop
  PROVE  LogInv'
<1> DEFINE O == Lines(LinesOf(files))
           W == Lines(buffersToWrite)
           K == Lines(Kept(buffersToWrite))
           B == Lines(buffers)
           C == Range(currentBuffer)
<1>1. LogType /\ RollInv /\ StageInv /\ BufferInv /\ LineInv
  BY DEF LogInv
<1>2. /\ logger = "drop" /\ logger' = "write"
      /\ buffersToWrite' = Kept(buffersToWrite)
      /\ dropped' = dropped \cup (W \ K)
      /\ spare' = Len(Kept(buffersToWrite))
      /\ UNCHANGED <<running, currentBuffer, nextBuffer, buffers, newBuffer1, newBuffer2, owner,
                     appended, fault>>
      /\ \/ Len(buffersToWrite) > MaxBuffers /\ append_unlocked(<<0>>)
         \/ /\ Len(buffersToWrite) <= MaxBuffers
            /\ UNCHANGED <<now, files, startOfPeriod, lastRoll, lastAppend>>
  BY SMTT(30), Z3T(30) DEF drop, logFileVars, Notice
<1>3. /\ buffersToWrite \in LogBuffers /\ Len(buffersToWrite) \in Nat /\ MaxBuffers \in Nat
      /\ Suffices(Len(buffersToWrite)) /\ files # <<>> /\ appended \in Nat
  BY <1>1, <1>2, LoggingAssumption, SMTT(30), Z3T(30) DEF LogType, BufferInv, StageInv, LogBuffers
<1>4. /\ (O \cup W \cup B \cup C) \ {0} = (1 .. appended) \ dropped /\ dropped \subseteq 0 .. appended
      /\ fault = FALSE
      /\ InOrder(LinesOf(files)) /\ InOrder(buffersToWrite) /\ InOrder(buffers)
      /\ Sorted(currentBuffer) /\ Before(O, W) /\ Before(O, B) /\ Before(O, C)
      /\ Before(W, B) /\ Before(W, C) /\ Before(B, C)
  BY <1>1, SMTT(30), Z3T(30) DEF LineInv, Ordered
<1>5. CASE Len(buffersToWrite) > MaxBuffers /\ append_unlocked(<<0>>)
  <2>1. /\ Kept(buffersToWrite) \in LogBuffers /\ InOrder(Kept(buffersToWrite))
        /\ Len(Kept(buffersToWrite)) = 2 /\ K \subseteq W
    BY <1>3, <1>4, <1>5, KeptIs, Zenon
  <2>2. <<0>> \in LogBuffer /\ Range(<<0>>) = {0} /\ Sorted(<<0>>)
    BY OneLine
  <2>3. \A S : Before(S, {0}) /\ Before({0}, S)
    BY Zenon DEF Before, Notice
  <2>4. /\ RollInv' /\ files' # <<>> /\ Lines(LinesOf(files')) = O \cup {0}
        /\ InOrder(LinesOf(files')) /\ now' = now
    BY <1>1, <1>3, <1>4, <1>5, <2>2, <2>3, AppendUnlockedInv, Zenon
  <2> HIDE DEF O, W, K, B, C
  <2>5. /\ Before(O \cup {0}, K) /\ Before(O \cup {0}, B) /\ Before(O \cup {0}, C)
        /\ Before(K, B) /\ Before(K, C)
    BY <1>4, <2>1, Zenon DEF Before, Notice
  <2>6. \A l : l \in W /\ l # 0 /\ l \in 1 .. appended => l \notin O /\ l \notin B /\ l \notin C
    <3>1. \A l \in 1 .. appended : ~(l < l)
      BY <1>3
    <3> QED
      BY <1>4, <3>1, Zenon DEF Before, Notice
  <2>7. 0 \notin 1 .. appended
    OBVIOUS
  <2>8. (O \cup {0} \cup K \cup B \cup C) \ {0} = (1 .. appended) \ (dropped \cup (W \ K))
    BY <1>4, <2>1, <2>6, <2>7, Zenon
  <2>9. dropped \cup (W \ K) \subseteq 0 .. appended
    <3>1. 1 .. appended \subseteq 0 .. appended /\ 0 \in 0 .. appended
      BY <1>3
    <3> QED
      BY <1>4, <3>1, Zenon
  <2>10. LineInv'
    BY <1>2, <1>4, <2>1, <2>4, <2>5, <2>8, <2>9, ZenonT(30) DEF LineInv, Ordered, K, B, C
  <2>11. LogType'
    BY <1>1, <1>2, <2>1, <2>4, SMTT(30), Z3T(30) DEF LogType
  <2>12. StageInv' /\ BufferInv'
    BY <1>1, <1>2, <2>1, <2>4 DEF StageInv, BufferInv, Suffices
  <2> QED
    BY <2>4, <2>10, <2>11, <2>12, SMTT(30), Z3T(30) DEF LogInv
<1>6. CASE Len(buffersToWrite) <= MaxBuffers
             /\ UNCHANGED <<now, files, startOfPeriod, lastRoll, lastAppend>>
  <2>1. Kept(buffersToWrite) = buffersToWrite
    BY <1>3, <1>6 DEF Kept
  <2>2. dropped' = dropped /\ spare' = Len(buffersToWrite)
    BY <1>2, <2>1
  <2>3. RollInv' /\ LineInv'
    BY <1>2, <1>4, <1>6, <2>1, <2>2, QuietInv, ZenonT(30)
  <2>4. LogType'
    BY <1>1, <1>2, <1>3, <1>6, <2>1, <2>2, SMTT(30), Z3T(30) DEF LogType
  <2>5. StageInv' /\ BufferInv'
    BY <1>1, <1>2, <1>3, <1>6, <2>1, <2>2, SMTT(30), Z3T(30) DEF StageInv, BufferInv, Suffices
  <2> QED
    BY <2>3, <2>4, <2>5 DEF LogInv
<1> QED
  BY <1>2, <1>5, <1>6, SMTT(30), Z3T(30)

\* A buffer that is written goes from the head of the buffers to the end of the file.
LEMMA WriteInv ==
  ASSUME LogInv, write
  PROVE  LogInv'
<1> DEFINE O == Lines(LinesOf(files))
           h == Head(buffersToWrite)
           t == Tail(buffersToWrite)
           H == Range(h)
           T == Lines(t)
           B == Lines(buffers)
           C == Range(currentBuffer)
<1>1. LogType /\ RollInv /\ StageInv /\ BufferInv /\ LineInv
  BY DEF LogInv
<1>2. /\ logger = "write" /\ buffersToWrite # <<>> /\ append_unlocked(h) /\ buffersToWrite' = t
      /\ UNCHANGED <<running, currentBuffer, nextBuffer, buffers, newBuffer1, newBuffer2, spare,
                     logger, owner, appended, dropped, fault>>
  BY DEF write
<1>3. h \in LogBuffer /\ t \in LogBuffers /\ buffersToWrite = <<h>> \o t
  <2>1. buffersToWrite \in Seq(LogBuffer) /\ buffersToWrite # <<>>
    BY <1>1, <1>2 DEF LogType, LogBuffers
  <2>2. h \in LogBuffer /\ t \in Seq(LogBuffer)
    BY <2>1, HeadTailProperties
  <2>3. buffersToWrite = <<h>> \o t
    BY <2>1, HeadAndTail
  <2> QED
    BY <2>2, <2>3 DEF LogBuffers
<1>4. /\ Lines(buffersToWrite) = H \cup T
      /\ InOrder(buffersToWrite) <=> Sorted(h) /\ InOrder(t) /\ Before(H, T)
  <2> HIDE DEF h, t
  <2>1. <<h>> \in LogBuffers /\ Lines(<<h>>) = H /\ (InOrder(<<h>>) <=> Sorted(h))
    BY <1>3, OneBuffer, Zenon
  <2> QED
    BY <1>3, <2>1, LinesConcat
<1> HIDE DEF h, t
<1>5. /\ (O \cup (H \cup T) \cup B \cup C) \ {0} = (1 .. appended) \ dropped
      /\ dropped \subseteq 0 .. appended /\ fault = FALSE
      /\ InOrder(LinesOf(files)) /\ Sorted(h) /\ InOrder(t) /\ InOrder(buffers)
      /\ Sorted(currentBuffer) /\ Before(O, H \cup T) /\ Before(O, B)
      /\ Before(O, C) /\ Before(H \cup T, B) /\ Before(H \cup T, C)
      /\ Before(B, C) /\ Before(H, T)
  BY <1>1, <1>4, Zenon DEF LineInv, Ordered
<1>6. Before(O, H) /\ files # <<>>
  BY <1>1, <1>2, <1>5, BeforeUnion, Zenon DEF StageInv
<1>7. /\ RollInv' /\ files' # <<>> /\ Lines(LinesOf(files')) = O \cup H
      /\ InOrder(LinesOf(files')) /\ now' = now
  BY <1>1, <1>2, <1>3, <1>5, <1>6, AppendUnlockedInv, Zenon
<1>8. LineInv'
  <2> HIDE DEF O, H, T, B, C
  <2>1. /\ Before(O \cup H, T) /\ Before(O \cup H, B) /\ Before(O \cup H, C)
        /\ Before(T, B) /\ Before(T, C)
    BY <1>5, ZenonT(30) DEF Before
  <2>2. ((O \cup H) \cup T \cup B \cup C) \ {0} = (1 .. appended) \ dropped
    BY <1>5, SMTT(30), Z3T(30)
  <2> QED
    BY <1>2, <1>5, <1>7, <2>1, <2>2, Zenon DEF LineInv, Ordered, T, B, C
<1>9. LogType'
  BY <1>1, <1>2, <1>3, <1>7, SMTT(30), Z3T(30) DEF LogType
<1>10. StageInv' /\ BufferInv'
  BY <1>1, <1>2, <1>7 DEF StageInv, BufferInv, Suffices
<1> QED
  BY <1>7, <1>8, <1>9, <1>10, SMTT(30), Z3T(30) DEF LogInv

LEMMA LogNextInv ==
  ASSUME LogInv, [Next]_vars
  PROVE  LogInv'
<1>1. CASE threadFunc
  BY <1>1, BeginInv, WhileInv, OwnerInv, SwapInv, DropInv, WriteInv, RecycleInv DEF threadFunc
<1>2. CASE ownerSteps \/ stop
  BY <1>2, OwnerInv
<1>3. CASE append
  BY <1>3, AppendInv
<1>4. CASE clock
  BY <1>4, ClockInv
<1>5. CASE UNCHANGED vars
  <2>1. /\ UNCHANGED <<now, files, startOfPeriod, lastRoll, lastAppend, currentBuffer, buffers,
                       buffersToWrite, appended, dropped>>
        /\ UNCHANGED <<fault, nextBuffer, newBuffer1, newBuffer2, spare, logger, owner, running>>
    BY <1>5 DEF vars, logFileVars, loggingVars
  <2>2. LogType /\ StageInv /\ BufferInv /\ fault = FALSE
    BY DEF LogInv, LineInv
  <2>3. RollInv' /\ LineInv'
    BY <2>1, <2>2, QuietInv, Zenon
  <2>4. LogType'
    BY <2>1, <2>2, SMTT(30), Z3T(30) DEF LogType
  <2>5. StageInv' /\ BufferInv'
    BY <2>1, <2>2 DEF StageInv, BufferInv, Suffices
  <2> QED
    BY <2>3, <2>4, <2>5, SMTT(30), Z3T(30) DEF LogInv
<1> QED
  BY <1>1, <1>2, <1>3, <1>4, <1>5 DEF Next

\* No line is lost, repeated or overtaken between append() and the files, except
\* the lines of dropped buffers, and no assertion of threadFunc() fails: for any
\* sizes of buffers and files and any number of lines.
THEOREM LogLinesKept ==
  Spec => []LinesKept
<1>1. Init => LogInv
  BY LogInit
<1>2. LogInv /\ [Next]_vars => LogInv'
  BY LogNextInv
<1>3. LogInv => LinesKept
  BY LogInvProperties
<1> QED
  BY <1>1, <1>2, <1>3, PTL DEF Spec

\* Files have different names in the order of time, and a full file is kept only
\* for the second it was made in: for any rollSize, checkEveryN and period.
THEOREM LogFilesRoll ==
  Spec => []FilesRoll
<1>1. Init => LogInv
  BY LogInit
<1>2. LogInv /\ [Next]_vars => LogInv'
  BY LogNextInv
<1>3. LogInv => FilesRoll
  BY LogInvProperties
<1> QED
  BY <1>1, <1>2, <1>3, PTL DEF Spec

\* The files are append-only: a closed file never changes, and the one that is open
\* only gets lines at its end.
THEOREM LogFilesOnlyGrow ==
  Spec => [][FilesOnlyGrow]_vars
<1>1. Init => LogInv
  BY LogInit
<1>2. LogInv /\ [Next]_vars => LogInv'
  BY LogNextInv
<1>3. LogInv /\ [Next]_vars => [FilesOnlyGrow]_vars
  <2> SUFFICES ASSUME LogInv, Next
               PROVE  FilesOnlyGrow
    BY ZenonT(30)
  <2>1. files \in LogFiles /\ RollInv /\ StageInv /\ LogType
    BY DEF LogInv, RollInv, FilesInv
  <2>2. CASE write
    <3>1. /\ Head(buffersToWrite) \in LogBuffer /\ files # <<>>
          /\ append_unlocked(Head(buffersToWrite))
      BY <2>1, <2>2, HeadTailProperties, SMTT(30), Z3T(30) DEF write, StageInv, LogType, LogBuffers
    <3> QED
      BY <2>1, <3>1, AppendUnlockedInv, SMTT(30), Z3T(30)
  <2>3. CASE drop /\ append_unlocked(<<0>>)
    <3>1. <<0>> \in LogBuffer /\ files # <<>>
      BY <2>1, <2>3, OneLine DEF drop, StageInv
    <3> QED
      BY <2>1, <2>3, <3>1, AppendUnlockedInv, SMTT(30), Z3T(30)
  <2>4. CASE begin
    <3>1. DOMAIN files = {}
      BY <2>1, <2>4 DEF begin, StageInv
    <3> QED
      BY <3>1, Zenon DEF FilesOnlyGrow
  <2>5. CASE files' = files
    BY <2>1, <2>5, FilesStay, Zenon
  <2> QED
    BY <2>2, <2>3, <2>4, <2>5, Zenon
       DEF Next, threadFunc, ownerSteps, start, started, stop,
           stopNotifies, join, while, flush, wait, timeout, swap, drop,
           recycle, append, clock, tick, logFileVars, Notice
<1> QED
  BY <1>1, <1>2, <1>3, PTL DEF Spec
=============================================================================
