-------------------------- MODULE TimerQueueProofs --------------------------
(***************************************************************************)
(* Proofs about TimerQueue for any threads, addresses, timers, intervals   *)
(* and times.                                                              *)
(***************************************************************************)
EXTENDS TimerQueue, FiniteSetTheorems, TLAPS

Timer == [sequence : Nat, expiration : Nat, interval : Nat]
Functor == ({"add"} \X Addr) \cup ({"cancel"} \X (Addr \X Nat))

TypeInv ==
  /\ now \in Nat /\ readAt \in Nat /\ created \in Nat /\ nextExpired \in Nat
  /\ heap \in [Addr -> Timer]
  /\ timers \subseteq Nat \X Addr /\ activeTimers \subseteq Addr \X Nat
  /\ expired \in Seq(Nat \X Addr) /\ pending \in Seq(Functor)
  /\ ids \subseteq Addr \X Nat /\ adding \in [Threads -> 0 .. MaxAddr]
  /\ calling \in BOOLEAN /\ inUser \in BOOLEAN

\* The timers that the functors p add, each of them once.
Adds(p) == {p[i][2] : i \in {j \in 1 .. Len(p) : p[j][1] = "add"}}
AddsOnce(p) ==
  \A i, j \in 1 .. Len(p) : p[i][1] = "add" /\ p[j][1] = "add" /\ p[i][2] = p[j][2] => i = j

\* The timers in the batch e, each of them once.
Called(e) == {e[i][2] : i \in 1 .. Len(e)}
CalledOnce(e) == \A i, j \in 1 .. Len(e) : e[i][2] = e[j][2] => i = j

\* The two sets hold the same timers, as the heap has them.
AgreeInv ==
  /\ \A id \in activeTimers : id[2] = heap[id[1]].sequence
  /\ \A e \in timers : e[1] = heap[e[2]].expiration /\ e[2] \in Active
  /\ \A a \in Active : Entry(a) \in timers

\* Every Timer has one owner.
OwnInv ==
  /\ \A a \in Addr : heap[a] # NoTimer <=> a \in Active \cup Called(expired) \cup Adds(pending)
  /\ Active \cap Called(expired) = {}
  /\ Adds(pending) \cap (Active \cup Called(expired)) = {}
  /\ CalledOnce(expired) /\ AddsOnce(pending)
  /\ ~calling => expired = <<>> /\ ~inUser

\* A sequence number was given to one timer and is never given again.
FreshInv ==
  /\ \A a \in Addr : heap[a] # NoTimer => heap[a].sequence \in 1 .. created
  /\ \A a, b \in Addr : heap[a] # NoTimer /\ heap[b] # NoTimer
                          /\ heap[a].sequence = heap[b].sequence => a = b
  /\ cancelled \subseteq 1 .. created /\ called \subseteq 1 .. created

\* What was cancelled or called and does not repeat is not started again: of the
\* timers that are being called, reset() knows those that were cancelled.
PastInv ==
  /\ \A a \in Active \cup Adds(pending) :
       /\ heap[a].sequence \notin cancelled
       /\ heap[a].interval = 0 => heap[a].sequence \notin called
  /\ \A a \in Called(expired) :
       heap[a].sequence \in cancelled => ActiveTimer(a) \in cancelingTimers

IInv == TypeInv /\ AgreeInv /\ OwnInv /\ FreshInv /\ PastInv

-----------------------------------------------------------------------------
(* Functors and the batch *)

\* A functor is put on the queue.
LEMMA AddsAppend ==
  ASSUME NEW p \in Seq(Functor), NEW f \in Functor
  PROVE  /\ Append(p, f) \in Seq(Functor)
         /\ f[1] = "add" => Adds(Append(p, f)) = Adds(p) \cup {f[2]}
         /\ f[1] # "add" => Adds(Append(p, f)) = Adds(p)
         /\ AddsOnce(p) /\ (f[1] = "add" => f[2] \notin Adds(p)) => AddsOnce(Append(p, f))
<1> DEFINE q == Append(p, f)
           n == Len(p)
<1>1. /\ n \in Nat /\ q \in Seq(Functor) /\ Len(q) = n + 1
      /\ q[n + 1] = f /\ \A i \in 1 .. n : q[i] = p[i]
  OBVIOUS
<1> HIDE DEF q, n
<1>2. \A i \in 1 .. n + 1 : i = n + 1 \/ i \in 1 .. n
  BY <1>1
<1>3. f[1] = "add" => Adds(q) = Adds(p) \cup {f[2]}
  BY <1>1, <1>2, SMTT(30), Z3T(30) DEF Adds, n
<1>4. f[1] # "add" => Adds(q) = Adds(p)
  BY <1>1, <1>2 DEF Adds, n
<1>5. AddsOnce(p) /\ (f[1] = "add" => f[2] \notin Adds(p)) => AddsOnce(q)
  BY <1>1, <1>2, SMTT(30), Z3T(30) DEF Adds, AddsOnce, n
<1> QED
  BY <1>1, <1>3, <1>4, <1>5, SMTT(30), Z3T(30) DEF q

\* A functor is taken from the queue.
LEMMA AddsTail ==
  ASSUME NEW p \in Seq(Functor), p # <<>>
  PROVE  /\ Tail(p) \in Seq(Functor) /\ Head(p) \in Functor
         /\ Head(p)[1] # "add" => Adds(Tail(p)) = Adds(p)
         /\ Head(p)[1] = "add" /\ AddsOnce(p) => /\ Adds(Tail(p)) = Adds(p) \ {Head(p)[2]}
                                                 /\ Head(p)[2] \in Adds(p)
         /\ AddsOnce(p) => AddsOnce(Tail(p))
<1> DEFINE q == Tail(p)
           n == Len(p)
           h == Head(p)
<1>1. /\ n \in Nat \ {0} /\ q \in Seq(Functor) /\ Len(q) = n - 1 /\ h \in Functor
      /\ h = p[1] /\ \A i \in 1 .. n - 1 : q[i] = p[i + 1]
  OBVIOUS
<1> HIDE DEF q, n, h
<1>2. \A i \in 1 .. n : i = 1 \/ (i - 1 \in 1 .. n - 1 /\ q[i - 1] = p[i])
  BY <1>1
<1>3. \A i \in 1 .. n - 1 : i + 1 \in 1 .. n /\ i + 1 # 1 /\ p[i + 1] = q[i]
  BY <1>1
<1>4. AddsOnce(p) => AddsOnce(q)
  <2> SUFFICES ASSUME AddsOnce(p), NEW i \in 1 .. Len(q), NEW j \in 1 .. Len(q),
                      q[i][1] = "add", q[j][1] = "add", q[i][2] = q[j][2]
               PROVE  i = j
    BY DEF AddsOnce
  <2>1. /\ i + 1 \in 1 .. n /\ p[i + 1] = q[i]
        /\ j + 1 \in 1 .. n /\ p[j + 1] = q[j]
    BY <1>1, <1>3
  <2>2. i + 1 = j + 1
    BY <2>1, SMTT(30), Z3T(30) DEF AddsOnce, n
  <2> QED
    BY <2>2
<1>5. ASSUME h[1] # "add" PROVE Adds(q) = Adds(p)
  <2>1. ASSUME NEW a \in Adds(q) PROVE a \in Adds(p)
    <3>1. PICK i \in 1 .. n - 1 : q[i][1] = "add" /\ q[i][2] = a
      BY <1>1 DEF Adds
    <3> QED
      BY <1>3, <3>1, SMTT(30), Z3T(30) DEF Adds, n
  <2>2. ASSUME NEW a \in Adds(p) PROVE a \in Adds(q)
    <3>1. PICK i \in 1 .. n : p[i][1] = "add" /\ p[i][2] = a
      BY DEF Adds, n
    <3>2. i - 1 \in 1 .. n - 1 /\ q[i - 1] = p[i]
      BY <1>1, <1>2, <1>5, <3>1, SMTT(30), Z3T(30)
    <3> QED
      BY <1>1, <3>1, <3>2, SMTT(30), Z3T(30) DEF Adds
  <2> QED
    BY <2>1, <2>2, Zenon
<1>6. ASSUME h[1] = "add", AddsOnce(p) PROVE Adds(q) = Adds(p) \ {h[2]} /\ h[2] \in Adds(p)
  <2>1. 1 \in 1 .. n /\ h[2] \in Adds(p)
    BY <1>1, <1>6, SMTT(30), Z3T(30) DEF Adds, n
  <2>2. ASSUME NEW a \in Adds(q) PROVE a \in Adds(p) /\ a # h[2]
    <3>1. PICK i \in 1 .. n - 1 : q[i][1] = "add" /\ q[i][2] = a
      BY <1>1 DEF Adds
    <3>2. i + 1 \in 1 .. n /\ i + 1 # 1 /\ p[i + 1] = q[i]
      BY <1>3
    <3> QED
      BY <1>1, <1>6, <2>1, <3>1, <3>2, SMTT(30), Z3T(30) DEF Adds, AddsOnce, n
  <2>3. ASSUME NEW a \in Adds(p), a # h[2] PROVE a \in Adds(q)
    <3>1. PICK i \in 1 .. n : p[i][1] = "add" /\ p[i][2] = a
      BY DEF Adds, n
    <3>2. i - 1 \in 1 .. n - 1 /\ q[i - 1] = p[i]
      BY <1>1, <1>2, <2>3, <3>1
    <3> QED
      BY <1>1, <3>1, <3>2 DEF Adds
  <2> QED
    BY <2>1, <2>2, <2>3
<1> QED
  BY <1>1, <1>4, <1>5, <1>6 DEF q, h

\* The names that the properties use.
LEMMA Names == Queued = Adds(pending) /\ Batch = Called(expired)
  BY DEF Queued, Adds, Batch, Called

\* Nothing has been called or queued.
LEMMA NothingYet == Adds(<<>>) = {} /\ AddsOnce(<<>>) /\ Called(<<>>) = {} /\ CalledOnce(<<>>)
  BY DEF Adds, AddsOnce, Called, CalledOnce

\* A new queue.
LEMMA InitInv == Init => IInv
<1> SUFFICES ASSUME Init PROVE IInv
  OBVIOUS
<1>1. TypeInv
  <2>1. NoTimer \in Timer
    BY DEF NoTimer, Timer
  <2>2. heap \in [Addr -> Timer] /\ adding \in [Threads -> 0 .. MaxAddr]
    BY <2>1, TimerAssumption DEF Init
  <2>3. expired \in Seq(Nat \X Addr) /\ pending \in Seq(Functor)
    BY DEF Init
  <2> QED
    BY <2>2, <2>3, Zenon DEF Init, TypeInv
<1>2. Active = {}
  BY DEF Init, Active
<1> QED
  BY <1>1, <1>2, NothingYet DEF IInv, Init, AgreeInv, OwnInv, FreshInv, PastInv

-----------------------------------------------------------------------------
(* Steps that leave the timers to their owners *)

\* Time, the timerfd, the loop between its calls and the TimerId of another
\* thread.
LEMMA IdleInv ==
  ASSUME IInv, fire \/ Tick \/ poll \/ pollOther \/ timerReturns \/ \E t \in Threads : returnId(t)
  PROVE  IInv'
<1>1. UNCHANGED <<heap, created, setVars, calling, expired, pending, histVars>>
  BY DEF fire, Tick, poll, pollOther, timerReturns, returnId, vars, heapVars, callVars,
         userVars, histVars, setVars
<1>2. /\ readAt' = readAt /\ nextExpired' = nextExpired /\ now' \in Nat
      /\ inUser' \in BOOLEAN /\ (inUser' => inUser)
  <2>1. readAt' = readAt /\ nextExpired' = nextExpired /\ (now' = now \/ now' = now + 1)
    BY DEF fire, Tick, poll, pollOther, timerReturns, returnId, vars, callVars
  <2>2. inUser' = inUser \/ inUser' = FALSE
    BY DEF fire, Tick, poll, pollOther, timerReturns, returnId, vars, callVars
  <2>3. now' \in Nat
    BY <2>1 DEF IInv, TypeInv
  <2>4. inUser \in BOOLEAN
    BY DEF IInv, TypeInv
  <2>5. inUser' \in BOOLEAN
    BY <2>2, <2>4, Zenon
  <2>6. inUser' => inUser
    <3>1. CASE inUser' = inUser
      BY <3>1, Zenon
    <3>2. CASE inUser' = FALSE
      BY <3>2, Zenon
    <3> QED
      BY <2>2, <3>1, <3>2, Zenon
  <2> QED
    BY <2>1, <2>3, <2>5, <2>6
<1>3. ids' \subseteq Addr \X Nat /\ adding' \in [Threads -> 0 .. MaxAddr]
  <2>1. ASSUME NEW t \in Threads, returnId(t)
        PROVE  ids' \subseteq Addr \X Nat /\ adding' \in [Threads -> 0 .. MaxAddr]
    <3>1. adding[t] \in Addr /\ 0 \in 0 .. MaxAddr /\ Sequence \subseteq Nat
      BY <2>1, TimerAssumption DEF IInv, TypeInv, returnId, Addr, Sequence
    <3> QED
      BY <2>1, <3>1, SMTT(30), Z3T(30) DEF IInv, TypeInv, returnId
  <2> QED
    BY <2>1 DEF fire, Tick, poll, pollOther, timerReturns, vars, userVars, IInv, TypeInv
<1>4. TypeInv'
  BY <1>1, <1>2, <1>3, SMTT(30), Z3T(30) DEF IInv, TypeInv, setVars
<1>5. Active' = Active
  BY <1>1, Zenon DEF Active, setVars
<1>6. AgreeInv' /\ FreshInv' /\ PastInv' /\ OwnInv'
  BY <1>1, <1>2, <1>5 DEF IInv, AgreeInv, FreshInv, PastInv, OwnInv, setVars, histVars, Entry,
                          ActiveTimer
<1> QED
  BY <1>4, <1>6 DEF IInv

\* A timer's callback begins: the timer is in the batch.
LEMMA RunInv ==
  ASSUME IInv, runTimer
  PROVE  IInv'
<1>1. /\ UNCHANGED <<now, heap, created, setVars, calling, expired, readAt, userVars, cancelled>>
      /\ nextExpired' = nextExpired + 1 /\ nextExpired < Len(expired) /\ inUser' = TRUE /\ calling
      /\ called' = called \cup {heap[expired[nextExpired + 1][2]].sequence}
  BY DEF runTimer, heapVars
<1> DEFINE a == expired[nextExpired + 1][2]
<1>2. a \in Called(expired) /\ a \in Addr /\ nextExpired' \in Nat
  <2>1. nextExpired + 1 \in 1 .. Len(expired) /\ nextExpired + 1 \in Nat
    BY <1>1 DEF IInv, TypeInv
  <2>2. expired[nextExpired + 1] \in Nat \X Addr
    BY <2>1 DEF IInv, TypeInv
  <2> QED
    BY <1>1, <2>1, <2>2 DEF Called
<1> HIDE DEF a
<1>3. heap[a] # NoTimer /\ a \notin Active \cup Adds(pending) /\ heap[a].sequence \in 1 .. created
  BY <1>2, SMTT(30), Z3T(30) DEF IInv, OwnInv, FreshInv
<1>4. Active' = Active /\ Adds(pending)' = Adds(pending) /\ Called(expired)' = Called(expired)
  BY <1>1 DEF Active, setVars, userVars
<1>5. TypeInv'
  BY <1>1, <1>2, Zenon DEF IInv, TypeInv, setVars, userVars
<1>6. AgreeInv' /\ OwnInv'
  BY <1>1, <1>4 DEF IInv, AgreeInv, OwnInv, setVars, userVars, Entry
<1>7. FreshInv'
  BY <1>1, <1>3, ZenonT(60) DEF IInv, FreshInv, a
<1>8. PastInv'
  <2>1. ASSUME NEW b \in Active \cup Adds(pending)
        PROVE  b \in Addr /\ heap[b] # NoTimer
    BY SMTT(30), Z3T(30) DEF IInv, OwnInv, TypeInv, Active, Adds, Functor
  <2>2. \A b \in Active \cup Adds(pending) : heap[b].sequence # heap[a].sequence
    BY <1>2, <1>3, <2>1 DEF IInv, FreshInv
  <2> QED
    BY <1>1, <1>4, <2>2 DEF IInv, PastInv, setVars, userVars, ActiveTimer, a
<1> QED
  BY <1>5, <1>6, <1>7, <1>8, SMTT(30), Z3T(30) DEF IInv

\* Addresses that have an owner.
LEMMA OwnedAddr ==
  ASSUME IInv
  PROVE  Active \subseteq Addr /\ Called(expired) \subseteq Addr /\ Adds(pending) \subseteq Addr
<1>1. Active \subseteq Addr
  BY DEF IInv, TypeInv, Active
<1>2. Called(expired) \subseteq Addr
  BY DEF IInv, TypeInv, Called
<1>3. Adds(pending) \subseteq Addr
  BY DEF IInv, TypeInv, Adds, Functor
<1> QED
  BY <1>1, <1>2, <1>3

\* cancel() in another thread queues the TimerId.
LEMMA QueueCancelInv ==
  ASSUME IInv, NEW id \in ids, cancel(id)
  PROVE  IInv'
<1>1. /\ UNCHANGED <<now, heapVars, setVars, callVars, adding, histVars>>
      /\ ids' = ids \ {id} /\ pending' = Append(pending, <<"cancel", id>>)
  BY DEF cancel
<1>2. <<"cancel", id>> \in Functor /\ <<"cancel", id>>[1] # "add"
  <2>1. id \in Addr \X Nat
    BY DEF IInv, TypeInv
  <2> QED
    BY <2>1 DEF Functor
<1>3. pending \in Seq(Functor) /\ AddsOnce(pending)
  BY DEF IInv, TypeInv, OwnInv
<1>4. pending' \in Seq(Functor) /\ Adds(pending') = Adds(pending) /\ AddsOnce(pending')
  BY <1>1, <1>2, <1>3, AddsAppend, SMTT(30), Z3T(30)
<1>5. TypeInv'
  BY <1>1, <1>4 DEF IInv, TypeInv, heapVars, setVars, callVars
<1>6. Active' = Active
  BY <1>1, SMTT(30), Z3T(30) DEF Active, setVars
<1>7. AgreeInv' /\ OwnInv'
  BY <1>1, <1>4, <1>6, SMTT(30), Z3T(30) DEF IInv, AgreeInv, OwnInv, heapVars, setVars, callVars, Entry
<1>8. FreshInv' /\ PastInv'
  BY <1>1, <1>4, <1>6, SMTT(30), Z3T(30) DEF IInv, FreshInv, PastInv, heapVars, setVars, callVars, histVars, ActiveTimer
<1> QED
  BY <1>5, <1>7, <1>8 DEF IInv

-----------------------------------------------------------------------------
(* New timers *)

\* What new Timer() does to the heap.
LEMMA NewTimerIs ==
  ASSUME IInv, NEW a \in Addr, NEW when \in Nat, NEW interval \in Nat, newTimer(a, when, interval)
  PROVE  /\ heap' \in [Addr -> Timer] /\ created' \in Nat /\ created' = created + 1
         /\ heap[a] = NoTimer /\ heap'[a] # NoTimer
         /\ heap'[a].sequence = created' /\ heap'[a].expiration = when
         /\ \A b \in Addr : b # a => heap'[b] = heap[b]
         /\ a \notin Active /\ a \notin Called(expired) /\ a \notin Adds(pending)
         /\ \A b \in Addr : heap'[b] # NoTimer => heap'[b].sequence \in 1 .. created'
         /\ \A b, c \in Addr : heap'[b] # NoTimer /\ heap'[c] # NoTimer
                                 /\ heap'[b].sequence = heap'[c].sequence => b = c
         /\ 1 .. created \subseteq 1 .. created' /\ created' \notin 1 .. created
<1> DEFINE r == [sequence |-> created', expiration |-> when, interval |-> interval]
<1>1. heap[a] = NoTimer /\ created' = created + 1 /\ heap' = [heap EXCEPT ![a] = r]
  BY DEF newTimer
<1>2. created \in Nat /\ heap \in [Addr -> Timer]
  BY SMTT(30), Z3T(30) DEF IInv, TypeInv
<1>3. created' \in Nat /\ created' # 0 /\ 1 .. created \subseteq 1 .. created'
        /\ created' \notin 1 .. created /\ created' \in 1 .. created'
  BY <1>1, <1>2, SMTT(30), Z3T(30)
<1>4. r \in Timer /\ r.sequence = created' /\ r.expiration = when
  BY <1>3 DEF Timer
<1>5. r # NoTimer
  BY <1>3, <1>4 DEF NoTimer
<1> HIDE DEF r
<1>6. heap' \in [Addr -> Timer] /\ heap'[a] = r /\ \A b \in Addr : b # a => heap'[b] = heap[b]
  BY <1>1, <1>2, <1>4
<1>7. a \notin Active /\ a \notin Called(expired) /\ a \notin Adds(pending)
  BY <1>1 DEF IInv, OwnInv
<1>8. \A b \in Addr : heap[b] # NoTimer => heap[b].sequence \in 1 .. created
  BY DEF IInv, FreshInv
<1>9. \A b, c \in Addr : heap[b] # NoTimer /\ heap[c] # NoTimer
                           /\ heap[b].sequence = heap[c].sequence => b = c
  BY DEF IInv, FreshInv
<1>10. \A b \in Addr : heap'[b] # NoTimer => heap'[b].sequence \in 1 .. created'
  BY <1>3, <1>4, <1>6, <1>8, SMTT(30), Z3T(30)
<1>11. \A b, c \in Addr : heap'[b] # NoTimer /\ heap'[c] # NoTimer
                            /\ heap'[b].sequence = heap'[c].sequence => b = c
  BY <1>3, <1>4, <1>6, <1>8, <1>9, SMTT(30), Z3T(30)
<1> QED
  BY <1>1, <1>3, <1>4, <1>5, <1>6, <1>7, <1>10, <1>11, SMTT(30), Z3T(30)

\* addTimer() in another thread: the functor owns the timer.
LEMMA QueueAddInv ==
  ASSUME IInv, NEW t \in Threads, NEW a \in Addr, NEW when \in Nat, NEW interval \in Nat,
         addTimer(t, a, when, interval)
  PROVE  IInv'
<1>1. /\ UNCHANGED <<now, setVars, callVars, ids, histVars>> /\ newTimer(a, when, interval)
      /\ adding' = [adding EXCEPT ![t] = a] /\ pending' = Append(pending, <<"add", a>>)
  BY DEF addTimer
<1>2. <<"add", a>> \in Functor /\ <<"add", a>>[1] = "add" /\ <<"add", a>>[2] = a
  BY ZenonT(60) DEF Functor
<1>3. pending \in Seq(Functor) /\ AddsOnce(pending) /\ a \notin Adds(pending)
  BY <1>1, NewTimerIs, SMTT(30), Z3T(30) DEF IInv, TypeInv, OwnInv
<1>4. /\ pending' \in Seq(Functor) /\ Adds(pending') = Adds(pending) \cup {a}
      /\ AddsOnce(pending')
  BY <1>1, <1>2, <1>3, AddsAppend
<1>5. TypeInv'
  <2>1. adding' \in [Threads -> 0 .. MaxAddr]
    BY <1>1, TimerAssumption DEF IInv, TypeInv, Addr
  <2> QED
    BY <1>1, <1>4, <2>1, NewTimerIs, Zenon DEF IInv, TypeInv, setVars, callVars
<1>6. Active' = Active /\ Called(expired)' = Called(expired) /\ a \notin Active
        /\ a \notin Called(expired) /\ Active \subseteq Addr /\ Called(expired) \subseteq Addr
        /\ Adds(pending) \subseteq Addr
  BY <1>1, NewTimerIs, OwnedAddr, Zenon DEF Active, setVars, callVars
<1>7. AgreeInv'
  <2>1. \A b \in Active : heap'[b] = heap[b]
    BY <1>1, <1>6, NewTimerIs, Zenon
  <2>2. \A x \in activeTimers : x[1] \in Active
    BY DEF Active
  <2> QED
    BY <1>1, <1>6, <2>1, <2>2, Zenon DEF IInv, AgreeInv, setVars, Entry
<1>8. OwnInv'
  <2>1. \A b \in Addr : heap'[b] # NoTimer <=> b = a \/ heap[b] # NoTimer
    BY <1>1, NewTimerIs, ZenonT(30)
  <2> QED
    BY <1>1, <1>4, <1>6, <2>1, Zenon DEF IInv, OwnInv, callVars
<1>9. FreshInv'
  BY <1>1, NewTimerIs, Zenon DEF IInv, FreshInv, histVars
<1>10. PastInv'
  <2>1. heap'[a].sequence \notin cancelled /\ heap'[a].sequence \notin called
    BY <1>1, NewTimerIs, SMTT(30), Z3T(30) DEF IInv, FreshInv
  <2>2. \A b \in Active \cup Adds(pending) \cup Called(expired) : heap'[b] = heap[b]
    BY <1>1, <1>3, <1>6, NewTimerIs, SMTT(30), Z3T(30)
  <2> QED
    BY <1>1, <1>4, <1>6, <2>1, <2>2, ZenonT(60) DEF IInv, PastInv, histVars, setVars, callVars, ActiveTimer
<1> QED
  BY <1>5, <1>7, <1>8, <1>9, <1>10, SMTT(30), Z3T(30) DEF IInv

\* addTimerInLoop() gives the timer at a, which the heap has after the step, to the
\* two sets.
LEMMA InsertedIs ==
  ASSUME IInv, NEW a \in Addr, addTimerInLoop(a), a \notin Active,
         heap' \in [Addr -> Timer], \A b \in Active : heap'[b] = heap[b]
  PROVE  /\ timers' \subseteq Nat \X Addr /\ activeTimers' \subseteq Addr \X Nat
         /\ Active' = Active \cup {a} /\ cancelingTimers' = cancelingTimers
         /\ AgreeInv'
<1>1. /\ timers' = timers \cup {<<heap'[a].expiration, a>>}
      /\ activeTimers' = activeTimers \cup {<<a, heap'[a].sequence>>}
      /\ cancelingTimers' = cancelingTimers
  BY DEF addTimerInLoop
<1>2. heap'[a].expiration \in Nat /\ heap'[a].sequence \in Nat
  BY DEF Timer
<1>3. timers \subseteq Nat \X Addr /\ activeTimers \subseteq Addr \X Nat
  BY SMTT(30), Z3T(30) DEF IInv, TypeInv
<1>4. timers' \subseteq Nat \X Addr /\ activeTimers' \subseteq Addr \X Nat
  BY <1>1, <1>2, <1>3, SMTT(30), Z3T(30)
<1>5. Active' = Active \cup {a}
  <2> DEFINE id == <<a, heap'[a].sequence>>
  <2>1. activeTimers' = activeTimers \cup {id} /\ id[1] = a
    BY <1>1, SMTT(30), Z3T(30)
  <2> HIDE DEF id
  <2> QED
    BY <2>1, SMTT(30), Z3T(30) DEF Active
<1>6. \A id \in activeTimers' : id[2] = heap'[id[1]].sequence
  <2>1. \A id \in activeTimers : id[1] \in Active
    BY SMTT(30), Z3T(30) DEF Active
  <2> QED
    BY <1>1, <2>1, SMTT(30), Z3T(30) DEF IInv, AgreeInv
<1>7. \A e \in timers' : e[1] = heap'[e[2]].expiration /\ e[2] \in Active'
  BY <1>1, <1>5, SMTT(30), Z3T(30) DEF IInv, AgreeInv
<1>8. \A b \in Active' : <<heap'[b].expiration, b>> \in timers'
  BY <1>1, <1>5, SMTT(30), Z3T(30) DEF IInv, AgreeInv, Entry
<1> QED
  BY <1>1, <1>4, <1>5, <1>6, <1>7, <1>8, SMTT(30), Z3T(30) DEF AgreeInv, Entry

\* addTimer() in the loop thread.
LEMMA LoopAddInv ==
  ASSUME IInv, NEW a \in Addr, NEW when \in Nat, NEW interval \in Nat,
         loopAddsTimer(a, when, interval)
  PROVE  IInv'
<1>1. /\ UNCHANGED <<now, callVars, pending, adding, histVars>> /\ newTimer(a, when, interval)
      /\ addTimerInLoop(a) /\ ids' = ids \cup {<<a, created'>>}
  BY ZenonT(60) DEF loopAddsTimer
<1>2. /\ heap' \in [Addr -> Timer] /\ created' \in Nat /\ heap'[a] # NoTimer
      /\ heap'[a].sequence = created' /\ \A b \in Addr : b # a => heap'[b] = heap[b]
      /\ a \notin Active /\ a \notin Called(expired) /\ a \notin Adds(pending)
      /\ created' \notin 1 .. created
  BY <1>1, NewTimerIs
<1>3. /\ Active \subseteq Addr /\ Called(expired) \subseteq Addr /\ Adds(pending) \subseteq Addr
      /\ Called(expired)' = Called(expired) /\ Adds(pending)' = Adds(pending)
  BY <1>1, OwnedAddr, ZenonT(60) DEF callVars
<1>4. /\ timers' \subseteq Nat \X Addr /\ activeTimers' \subseteq Addr \X Nat
      /\ Active' = Active \cup {a} /\ cancelingTimers' = cancelingTimers /\ AgreeInv'
  BY <1>1, <1>2, <1>3, InsertedIs, SMTT(30), Z3T(30)
<1>5. TypeInv'
  <2>1. ids' \subseteq Addr \X Nat
    BY <1>1, <1>2 DEF IInv, TypeInv
  <2> QED
    BY <1>1, <1>2, <1>4, <2>1, SMTT(30), Z3T(30) DEF IInv, TypeInv, callVars
<1>6. OwnInv'
  <2>1. \A b \in Addr : heap'[b] # NoTimer <=> b = a \/ heap[b] # NoTimer
    BY <1>2
  <2> QED
    BY <1>1, <1>2, <1>3, <1>4, <2>1, ZenonT(60) DEF IInv, OwnInv, callVars
<1>7. FreshInv'
  BY <1>1, NewTimerIs, Zenon DEF IInv, FreshInv, histVars
<1>8. PastInv'
  <2>1. heap'[a].sequence \notin cancelled /\ heap'[a].sequence \notin called
    BY <1>2, Zenon DEF IInv, FreshInv
  <2>2. \A b \in Active \cup Adds(pending) \cup Called(expired) : heap'[b] = heap[b]
    BY <1>2, <1>3
  <2> QED
    BY <1>1, <1>3, <1>4, <2>1, <2>2, ZenonT(30) DEF IInv, PastInv, histVars, ActiveTimer
<1> QED
  BY <1>4, <1>5, <1>6, <1>7, <1>8, SMTT(30), Z3T(30) DEF IInv

-----------------------------------------------------------------------------
(* Cancelling *)

\* cancelInLoop(), called by the user in the loop thread or by a functor that is no
\* longer on the queue.
LEMMA CancelInv ==
  ASSUME IInv, NEW id \in Addr \X Nat, cancelInLoop(id),
         UNCHANGED <<now, created, callVars, adding, ids, called>>,
         pending' \in Seq(Functor), Adds(pending') = Adds(pending), AddsOnce(pending')
  PROVE  IInv'
<1>1. /\ Active \subseteq Addr /\ Called(expired) \subseteq Addr /\ Adds(pending) \subseteq Addr
      /\ Called(expired)' = Called(expired) /\ Adds(pending)' = Adds(pending)
  BY OwnedAddr DEF callVars
<1>2. heap \in [Addr -> Timer] /\ timers \subseteq Nat \X Addr /\ activeTimers \subseteq Addr \X Nat
  BY DEF IInv, TypeInv
<1>3. CASE id \in activeTimers
  <2> DEFINE a == id[1]
  <2>1. /\ timers' = timers \ {Entry(a)} /\ activeTimers' = activeTimers \ {id}
        /\ heap' = [heap EXCEPT ![a] = NoTimer] /\ cancelled' = cancelled \cup {id[2]}
        /\ cancelingTimers' = cancelingTimers
    BY <1>3 DEF cancelInLoop
  <2>2. a \in Active /\ a \in Addr /\ id[2] = heap[a].sequence /\ id = <<a, id[2]>>
    BY <1>3 DEF Active, IInv, AgreeInv
  <2> HIDE DEF a
  <2>3. NoTimer \in Timer
    BY DEF NoTimer, Timer
  <2>4. heap' \in [Addr -> Timer] /\ heap'[a] = NoTimer /\ \A b \in Addr : b # a => heap'[b] = heap[b]
    BY <1>2, <2>1, <2>2, <2>3, SMTT(30), Z3T(30)
  <2>5. \A x \in activeTimers : x[1] = a <=> x = id
    <3>1. \A x \in activeTimers : x[2] = heap[x[1]].sequence /\ x = <<x[1], x[2]>>
      BY <1>2, SMTT(30), Z3T(30) DEF IInv, AgreeInv
    <3> QED
      BY <2>2, <3>1, SMTT(30), Z3T(30) DEF a
  <2>6. Active' = Active \ {a}
    BY <2>1, <2>5 DEF Active
  <2>7. \A e \in timers : e[2] = a <=> e = Entry(a)
    <3>1. \A e \in timers : e[1] = heap[e[2]].expiration /\ e = <<e[1], e[2]>>
      BY <1>2, SMTT(30), Z3T(30) DEF IInv, AgreeInv
    <3> QED
      BY <3>1, SMTT(30), Z3T(30) DEF Entry
  <2>8. TypeInv'
    BY <1>2, <2>1, <2>4, SMTT(30), Z3T(30) DEF IInv, TypeInv, callVars
  <2>9. AgreeInv'
    <3>1. \A x \in activeTimers' : x[2] = heap'[x[1]].sequence
      BY <1>2, <2>1, <2>4, <2>5, SMTT(30), Z3T(30) DEF IInv, AgreeInv
    <3>2. \A e \in timers' : e[1] = heap'[e[2]].expiration /\ e[2] \in Active'
      BY <1>2, <2>1, <2>4, <2>6, <2>7, SMTT(30), Z3T(30) DEF IInv, AgreeInv
    <3>3. \A b \in Active' : <<heap'[b].expiration, b>> \in timers'
      BY <1>1, <2>1, <2>4, <2>6 DEF IInv, AgreeInv, Entry
    <3> QED
      BY <3>1, <3>2, <3>3, SMTT(30), Z3T(30) DEF AgreeInv, Entry
  <2>10. a \notin Called(expired) /\ a \notin Adds(pending) /\ heap[a] # NoTimer
    BY <2>2, ZenonT(60) DEF IInv, OwnInv
  <2>11. OwnInv'
    BY <1>1, <2>2, <2>4, <2>6, <2>10, SMTT(30), Z3T(30) DEF IInv, OwnInv, callVars
  <2>12. heap[a].sequence \in 1 .. created
    BY <2>2, <2>10 DEF IInv, FreshInv
  <2>13. FreshInv'
    <3>1. /\ \A b \in Addr : heap[b] # NoTimer => heap[b].sequence \in 1 .. created
          /\ \A b, c \in Addr : heap[b] # NoTimer /\ heap[c] # NoTimer
                                /\ heap[b].sequence = heap[c].sequence => b = c
          /\ cancelled \subseteq 1 .. created /\ called \subseteq 1 .. created
      BY ZenonT(60) DEF IInv, FreshInv
    <3>2. \A b \in Addr : heap'[b] # NoTimer => heap'[b] = heap[b]
      BY <2>4, ZenonT(60)
    <3>3. \A b \in Addr : heap'[b] # NoTimer => heap'[b].sequence \in 1 .. created
      BY <3>1, <3>2, ZenonT(60)
    <3>4. \A b, c \in Addr : heap'[b] # NoTimer /\ heap'[c] # NoTimer
                              /\ heap'[b].sequence = heap'[c].sequence => b = c
      BY <3>1, <3>2, ZenonT(60)
    <3>5. cancelled' \subseteq 1 .. created
      BY <2>1, <2>2, <2>12, <3>1, ZenonT(60)
    <3> QED
      BY <3>1, <3>3, <3>4, <3>5, ZenonT(60) DEF FreshInv
  <2>14. \A b \in Active' \cup Adds(pending) \cup Called(expired) :
           heap'[b] = heap[b] /\ heap[b].sequence # id[2]
    <3>1. \A b \in Active' \cup Adds(pending) \cup Called(expired) : b # a /\ b \in Addr
      BY <1>1, <2>6, <2>10, SMTT(30), Z3T(30)
    <3>2. \A b \in Active' \cup Adds(pending) \cup Called(expired) : heap[b] # NoTimer
      BY <1>1, <2>6, SMTT(30), Z3T(30) DEF IInv, OwnInv
    <3> QED
      BY <2>2, <2>4, <2>10, <3>1, <3>2, ZenonT(60) DEF IInv, FreshInv
  <2>15. PastInv'
    <3>1. \A b \in Active' \cup Adds(pending) :
            heap[b].sequence \notin cancelled' /\ (heap[b].interval = 0 => heap[b].sequence \notin called)
      BY <2>1, <2>6, <2>14, SMTT(30), Z3T(30) DEF IInv, PastInv
    <3>2. \A b \in Called(expired) :
            heap[b].sequence \in cancelled' => <<b, heap[b].sequence>> \in cancelingTimers
      BY <2>1, <2>14 DEF IInv, PastInv, ActiveTimer
    <3>3. /\ Adds(pending)' = Adds(pending) /\ Called(expired)' = Called(expired)
          /\ cancelingTimers' = cancelingTimers /\ called' = called
      BY <1>1, <2>1, Zenon
    <3> QED
      BY <2>14, <3>1, <3>2, <3>3, SMTT(30), Z3T(30) DEF PastInv, ActiveTimer
  <2> QED
    BY <2>8, <2>9, <2>11, <2>13, <2>15, SMTT(30), Z3T(30) DEF IInv
<1>4. CASE id \notin activeTimers
  <2>1. UNCHANGED <<timers, activeTimers, heap>>
    BY <1>4, SMTT(30), Z3T(30) DEF cancelInLoop, setVars
  <2>2. Active' = Active
    BY <2>1, SMTT(30), Z3T(30) DEF Active
  <2>3. TypeInv'
    BY <2>1, SMTT(30), Z3T(30) DEF IInv, TypeInv, callVars
  <2>4. AgreeInv' /\ OwnInv'
    BY <1>1, <2>1, <2>2, SMTT(30), Z3T(30) DEF IInv, AgreeInv, OwnInv, callVars, Entry
  <2>5. CASE calling /\ \E i \in 1 .. Len(expired) : ActiveTimer(expired[i][2]) = id
    <3>1. /\ cancelingTimers' = cancelingTimers \cup {id}
          /\ cancelled' = cancelled \cup {id[2]}
      BY <1>4, <2>5 DEF cancelInLoop
    <3>2. PICK a \in Called(expired) : ActiveTimer(a) = id
      BY <2>5, ZenonT(60) DEF Called
    <3>3. a \in Addr /\ heap[a] # NoTimer /\ heap[a].sequence = id[2]
            /\ a \notin Active \cup Adds(pending)
      BY <1>1, <3>2 DEF ActiveTimer, IInv, OwnInv
    <3>4. FreshInv'
      BY <2>1, <3>1, <3>3, ZenonT(60) DEF IInv, FreshInv
    <3>5. \A b \in Active \cup Adds(pending) \cup Called(expired) :
            b # a => heap[b].sequence # id[2]
      <4>1. \A b \in Active \cup Adds(pending) \cup Called(expired) : b \in Addr /\ heap[b] # NoTimer
        BY <1>1 DEF IInv, OwnInv
      <4> QED
        BY <3>3, <4>1, SMTT(30), Z3T(30) DEF IInv, FreshInv
    <3>6. PastInv'
      <4>1. \A b \in Active' \cup Adds(pending)' :
              /\ heap'[b].sequence \notin cancelled'
              /\ heap'[b].interval = 0 => heap'[b].sequence \notin called'
        BY <1>1, <2>1, <2>2, <3>1, <3>3, <3>5, SMTT(30), Z3T(30) DEF IInv, PastInv
      <4>2. ASSUME NEW b \in Called(expired), heap[b].sequence \in cancelled'
            PROVE  <<b, heap[b].sequence>> \in cancelingTimers'
        <5>1. CASE b = a
          BY <3>1, <3>2, <5>1, ZenonT(60) DEF ActiveTimer
        <5>2. CASE b # a
          BY <3>1, <3>5, <4>2, <5>2, SMTT(30), Z3T(30) DEF IInv, PastInv, ActiveTimer
        <5> QED
          BY <5>1, <5>2
      <4> QED
        BY <1>1, <2>1, <4>1, <4>2, ZenonT(60) DEF PastInv, ActiveTimer
    <3> QED
      BY <2>3, <2>4, <3>4, <3>6, SMTT(30), Z3T(30) DEF IInv
  <2>6. CASE ~(calling /\ \E i \in 1 .. Len(expired) : ActiveTimer(expired[i][2]) = id)
    <3>1. cancelingTimers \subseteq cancelingTimers' /\ cancelled' = cancelled
      <4>1. CASE calling
        BY <1>4, <2>6, <4>1, Zenon DEF cancelInLoop
      <4>2. CASE ~calling
        BY <1>4, <4>2, ZenonT(60) DEF cancelInLoop, setVars
      <4> QED
        BY <4>1, <4>2
    <3>2. FreshInv' /\ PastInv'
      BY <1>1, <2>1, <2>2, <3>1, SMTT(30), Z3T(30) DEF IInv, FreshInv, PastInv, ActiveTimer
    <3> QED
      BY <2>3, <2>4, <3>2, SMTT(30), Z3T(30) DEF IInv
  <2> QED
    BY <2>5, <2>6, SMTT(30), Z3T(30)
<1> QED
  BY <1>3, <1>4

\* cancel() in the loop thread.
LEMMA LoopCancelInv ==
  ASSUME IInv, NEW id \in ids, loopCancels(id)
  PROVE  IInv'
<1>1. /\ cancelInLoop(id) /\ UNCHANGED <<now, created, callVars, adding, ids, called>>
      /\ pending' = pending
  BY DEF loopCancels, userVars
<1>2. id \in Addr \X Nat /\ pending \in Seq(Functor) /\ AddsOnce(pending)
  BY DEF IInv, TypeInv, OwnInv
<1> QED
  BY <1>1, <1>2, CancelInv, SMTT(30), Z3T(30)

\* The loop calls a functor: the timer of addTimerInLoop() passes from the functor to
\* the two sets.
LEMMA FunctorInv ==
  ASSUME IInv, callFunctor
  PROVE  IInv'
<1> DEFINE f == Head(pending)
<1>1. /\ pending # <<>> /\ pending' = Tail(pending) /\ ~calling
      /\ UNCHANGED <<now, created, callVars, adding, ids, called>>
  BY DEF callFunctor
<1>2. pending \in Seq(Functor) /\ AddsOnce(pending)
  BY SMTT(30), Z3T(30) DEF IInv, TypeInv, OwnInv
<1>3. /\ pending' \in Seq(Functor) /\ f \in Functor /\ AddsOnce(pending')
      /\ f[1] # "add" => Adds(pending') = Adds(pending)
      /\ f[1] = "add" => Adds(pending') = Adds(pending) \ {f[2]} /\ f[2] \in Adds(pending)
  BY <1>1, <1>2, AddsTail, SMTT(30), Z3T(30)
<1>4. CASE f[1] = "cancel"
  <2>1. cancelInLoop(f[2]) /\ f[2] \in Addr \X Nat
    BY <1>3, <1>4, SMTT(30), Z3T(30) DEF callFunctor, Functor
  <2>2. Adds(pending') = Adds(pending)
    BY <1>3, <1>4
  <2> QED
    BY <1>1, <1>3, <2>1, <2>2, CancelInv, SMTT(30), Z3T(30)
<1>5. CASE f[1] = "add"
  <2> DEFINE a == f[2]
  <2>1. addTimerInLoop(a) /\ UNCHANGED <<heap, cancelled>>
    BY <1>5, SMTT(30), Z3T(30) DEF callFunctor
  <2>2. a \in Addr /\ a \in Adds(pending) /\ Adds(pending') = Adds(pending) \ {a}
    BY <1>3, <1>5, OwnedAddr, SMTT(30), Z3T(30)
  <2> HIDE DEF a, f
  <2>3. a \notin Active /\ a \notin Called(expired) /\ heap \in [Addr -> Timer]
    BY <2>2, SMTT(30), Z3T(30) DEF IInv, OwnInv, TypeInv
  <2>4. /\ timers' \subseteq Nat \X Addr /\ activeTimers' \subseteq Addr \X Nat
        /\ Active' = Active \cup {a} /\ cancelingTimers' = cancelingTimers /\ AgreeInv'
    BY <2>1, <2>2, <2>3, InsertedIs
  <2>5. TypeInv'
    BY <1>1, <1>3, <2>1, <2>4, Zenon DEF IInv, TypeInv, callVars
  <2>6. OwnInv'
    BY <1>1, <1>3, <2>1, <2>2, <2>3, <2>4, Zenon DEF IInv, OwnInv, callVars
  <2>7. FreshInv'
    BY <1>1, <2>1, Zenon DEF IInv, FreshInv
  <2>8. PastInv'
    BY <1>1, <2>1, <2>2, <2>4, Zenon DEF IInv, PastInv, callVars, ActiveTimer
  <2> QED
    BY <2>4, <2>5, <2>6, <2>7, <2>8, SMTT(30), Z3T(30) DEF IInv
<1> QED
  BY <1>4, <1>5 DEF callFunctor

-----------------------------------------------------------------------------
(* The batch of expired timers *)

\* What a member of getExpired() is, when the set of entries is finite.
LEMMA ExpiredIs ==
  ASSUME NEW due, IsFiniteSet(due), NEW s \in Bijection(1 .. Cardinality(due), due)
  PROVE  /\ s \in Seq(due) /\ Len(s) = Cardinality(due)
         /\ \A e \in due : \E i \in 1 .. Len(s) : s[i] = e
         /\ \A i, j \in 1 .. Len(s) : s[i] = s[j] => i = j
<1>1. Cardinality(due) \in Nat
  BY FS_CardinalityType
<1> DEFINE n == Cardinality(due)
<1> HIDE DEF n
<1>2. s \in [1 .. n -> due] /\ (\A x, y \in 1 .. n : s[x] = s[y] => x = y)
        /\ \A e \in due : \E x \in 1 .. n : s[x] = e
  BY DEF n, Bijection, Injection, Surjection, IsInjective
<1>3. n \in Nat
  BY <1>1 DEF n
<1>4. s \in Seq(due) /\ Len(s) = n
  BY <1>2, <1>3
<1> QED
  BY <1>2, <1>4 DEF n

\* The sets hold at most one entry for each address.
LEMMA TimersFinite ==
  ASSUME IInv
  PROVE  IsFiniteSet(timers)
<1>1. IsFiniteSet(Addr)
  BY FS_Interval, TimerAssumption DEF Addr
<1>2. Active \subseteq Addr
  BY OwnedAddr
<1>3. IsFiniteSet(Active)
  BY <1>1, <1>2, FS_Subset, SMTT(30), Z3T(30)
<1>4. timers = {Entry(a) : a \in Active}
  BY DEF IInv, AgreeInv, TypeInv, Entry
<1> DEFINE entry == [a \in Active |-> Entry(a)]
<1>5. entry \in Surjection(Active, timers)
  BY <1>4 DEF Surjection
<1> QED
  BY <1>3, <1>5, FS_Surjection

\* handleRead() moves the timers whose time has come from the two sets to the batch.
LEMMA ReadInv ==
  ASSUME IInv, handleRead
  PROVE  IInv'
<1> DEFINE due == {e \in timers : e[1] <= now}
<1>1. /\ UNCHANGED <<now, heap, created, inUser, userVars, histVars>> /\ readAt' = now /\ ~calling
      /\ expired' \in Bijection(1 .. Cardinality(due), due) /\ nextExpired' = 0
      /\ timers' = {e \in timers : e[1] > now}
      /\ activeTimers' = {id \in activeTimers : heap[id[1]].expiration > now}
      /\ calling' = TRUE /\ cancelingTimers' = {}
  BY DEF handleRead, getExpired, stillActive, heapVars
<1>2. IsFiniteSet(due)
  BY TimersFinite, FS_Subset, SMTT(30), Z3T(30)
<1>3. /\ expired' \in Seq(due)
      /\ \A e \in due : \E i \in 1 .. Len(expired') : expired'[i] = e
      /\ \A i, j \in 1 .. Len(expired') : expired'[i] = expired'[j] => i = j
  BY <1>1, <1>2, ExpiredIs, SMTT(30), Z3T(30)
<1>4. /\ heap \in [Addr -> Timer] /\ now \in Nat /\ Active \subseteq Addr
      /\ timers \subseteq Nat \X Addr /\ activeTimers \subseteq Addr \X Nat
  BY OwnedAddr DEF IInv, TypeInv
<1>5. /\ \A e \in due : e \in timers /\ e[1] <= now
      /\ \A e \in timers : e[1] <= now => e \in due
  BY SMTT(30), Z3T(30)
<1> HIDE DEF due
<1>6. /\ \A e \in timers : e = <<heap[e[2]].expiration, e[2]>> /\ e[2] \in Active
      /\ \A a \in Active : <<heap[a].expiration, a>> \in timers
      /\ \A a \in Active : heap[a].expiration \in Nat
  <2>1. \A e \in timers : e = <<e[1], e[2]>>
    BY <1>4
  <2> QED
    BY <1>4, <2>1 DEF IInv, AgreeInv, Entry, Timer
<1>7. \A a \in Active : (\E e \in due : e[2] = a) <=> heap[a].expiration <= now
  BY <1>5, <1>6, Zenon
<1>8. Called(expired') = {a \in Active : heap[a].expiration <= now}
  <2>1. ASSUME NEW a \in Called(expired') PROVE a \in Active /\ heap[a].expiration <= now
    <3>1. PICK i \in 1 .. Len(expired') : expired'[i][2] = a
      BY DEF Called
    <3>2. expired'[i] \in due
      BY <1>3
    <3> QED
      BY <1>5, <1>6, <1>7, <3>1, <3>2, SMTT(30), Z3T(30)
  <2>2. ASSUME NEW a \in Active, heap[a].expiration <= now PROVE a \in Called(expired')
    BY <1>3, <1>7, <2>2, SMTT(30), Z3T(30) DEF Called
  <2> QED
    BY <2>1, <2>2, SMTT(30), Z3T(30)
<1>9. CalledOnce(expired')
  <2>1. \A i \in 1 .. Len(expired') : expired'[i] \in timers
    BY <1>3, <1>5, SMTT(30), Z3T(30)
  <2>2. \A d, e \in timers : d[2] = e[2] => d = e
    BY <1>6, SMTT(30), Z3T(30)
  <2> QED
    BY <1>3, <2>1, <2>2, Zenon DEF CalledOnce
<1>10. Active' = {a \in Active : heap[a].expiration > now}
  BY <1>1, SMTT(30), Z3T(30) DEF Active
<1>11. TypeInv'
  <2>1. expired' \in Seq(Nat \X Addr)
    BY <1>3, <1>4, <1>5
  <2> QED
    BY <1>1, <1>4, <2>1, SMTT(30), Z3T(30) DEF IInv, TypeInv, userVars
<1>12. AgreeInv'
  <2>1. \A id \in activeTimers' : id[2] = heap'[id[1]].sequence
    BY <1>1, ZenonT(60) DEF IInv, AgreeInv
  <2>2. \A e \in timers' : e[1] = heap'[e[2]].expiration /\ e[2] \in Active'
    BY <1>1, <1>4, <1>10 DEF IInv, AgreeInv
  <2>3. \A a \in Active' : <<heap'[a].expiration, a>> \in timers'
    BY <1>1, <1>6, <1>10, Zenon
  <2> QED
    BY <2>1, <2>2, <2>3, Zenon DEF AgreeInv, Entry
<1>13. /\ Active' \cup Called(expired') = Active /\ Active' \cap Called(expired') = {}
       /\ Adds(pending') = Adds(pending) /\ Adds(pending) \cap Active = {}
       /\ expired = <<>>
  <2>1. \A a \in Active : heap[a].expiration > now <=> ~(heap[a].expiration <= now)
    BY <1>4, <1>6
  <2> QED
    BY <1>1, <1>8, <1>10, <2>1, ZenonT(60) DEF IInv, OwnInv, userVars
<1>14. OwnInv'
  BY <1>1, <1>9, <1>13, NothingYet, Zenon DEF IInv, OwnInv, userVars
<1>15. FreshInv'
  BY <1>1, Zenon DEF IInv, FreshInv, histVars
<1>16. PastInv'
  BY <1>1, <1>8, <1>10, <1>13, Zenon DEF IInv, PastInv, histVars
<1> QED
  BY <1>11, <1>12, <1>14, <1>15, <1>16, ZenonT(60) DEF IInv

\* reset() gives the timers that repeat and were not cancelled back to the two sets
\* and deletes the rest of the batch.
LEMMA ResetInv ==
  ASSUME IInv, reset
  PROVE  IInv'
<1> DEFINE batch == Called(expired)
           again == {a \in batch : restarts(a)}
           next(a) == IF a \in again THEN [heap[a] EXCEPT !.expiration = restart(a)]
                      ELSE IF a \in batch THEN NoTimer ELSE heap[a]
<1>1. /\ UNCHANGED <<now, created, cancelingTimers, inUser, userVars, histVars>>
      /\ calling' = FALSE /\ expired' = <<>> /\ nextExpired' = 0 /\ readAt' = 0 /\ ~inUser
      /\ heap' = [a \in Addr |-> next(a)]
      /\ timers' = timers \cup {<<heap'[a].expiration, a>> : a \in again}
      /\ activeTimers' = activeTimers \cup {ActiveTimer(a) : a \in again}
  BY SMTT(30), Z3T(30) DEF reset, Called
<1>2. /\ heap \in [Addr -> Timer] /\ readAt \in Nat /\ batch \subseteq Addr /\ Active \subseteq Addr
      /\ Adds(pending) \subseteq Addr
      /\ timers \subseteq Nat \X Addr /\ activeTimers \subseteq Addr \X Nat
  BY OwnedAddr, SMTT(30), Z3T(30) DEF IInv, TypeInv
<1>3. /\ again \subseteq batch
      /\ \A a \in again : heap[a].interval > 0 /\ ActiveTimer(a) \notin cancelingTimers
  BY Zenon DEF restarts
<1>4. /\ batch \cap Active = {} /\ Adds(pending) \cap (Active \cup batch) = {}
      /\ \A a \in Addr : heap[a] # NoTimer <=> a \in Active \cup batch \cup Adds(pending)
  BY DEF IInv, OwnInv
<1>5. ASSUME NEW a \in again
      PROVE  /\ heap'[a] \in Timer /\ heap'[a].sequence = heap[a].sequence
             /\ heap'[a].interval = heap[a].interval /\ heap'[a] # NoTimer
             /\ heap'[a].expiration \in Nat /\ heap[a].sequence \in Nat
  <2>1. a \in Addr /\ heap[a] \in Timer /\ heap[a] # NoTimer
    BY <1>2, <1>3, <1>4, SMTT(30), Z3T(30)
  <2>2. heap'[a] = [heap[a] EXCEPT !.expiration = restart(a)]
    BY <1>1, <2>1, SMTT(30), Z3T(30)
  <2>3. restart(a) \in Nat
    BY <1>2, <2>1, SMTT(30), Z3T(30) DEF restart, Timer
  <2>4. heap[a].interval > 0
    BY <1>3
  <2> QED
    BY <2>1, <2>2, <2>3, <2>4, SMTT(30), Z3T(30) DEF Timer, NoTimer
<1>6. \A a \in Addr : a \in batch /\ a \notin again => heap'[a] = NoTimer
  BY <1>1
<1>7. \A a \in Addr : a \notin batch => heap'[a] = heap[a]
  BY <1>1, <1>3
<1>8. NoTimer \in Timer /\ heap' \in [Addr -> Timer]
  <2>1. NoTimer \in Timer
    BY SMTT(30), Z3T(30) DEF NoTimer, Timer
  <2>2. \A a \in Addr : heap'[a] \in Timer
    BY <1>2, <1>5, <1>6, <1>7, <2>1
  <2> QED
    BY <1>1, <2>1, <2>2, Zenon
<1> HIDE DEF batch, again, next
<1> DEFINE entry(a) == <<heap'[a].expiration, a>>
<1>9. timers' = timers \cup {entry(a) : a \in again}
        /\ activeTimers' = activeTimers \cup {ActiveTimer(a) : a \in again}
  BY <1>1, Zenon
<1>10. \A a \in again : entry(a)[1] = heap'[a].expiration /\ entry(a)[2] = a
        /\ ActiveTimer(a)[1] = a /\ ActiveTimer(a)[2] = heap[a].sequence
        /\ entry(a) \in Nat \X Addr /\ ActiveTimer(a) \in Addr \X Nat
  BY <1>2, <1>3, <1>5, ZenonT(60) DEF ActiveTimer
<1> HIDE DEF entry
<1>11. Active' = Active \cup again
  BY <1>9, <1>10, SMTT(30), Z3T(30) DEF Active
<1>12. /\ Called(expired') = {} /\ CalledOnce(expired') /\ Adds(pending') = Adds(pending)
       /\ pending' = pending
  BY <1>1, NothingYet, SMTT(30), Z3T(30) DEF userVars
<1>13. TypeInv'
  <2>1. timers' \subseteq Nat \X Addr
    BY <1>2, <1>9, <1>10, SMTT(30), Z3T(30)
  <2>2. activeTimers' \subseteq Addr \X Nat
    BY <1>2, <1>9, <1>10, SMTT(30), Z3T(30)
  <2>3. calling' \in BOOLEAN /\ inUser' \in BOOLEAN
    BY <1>1, Zenon DEF IInv, TypeInv
  <2>4. /\ now' \in Nat /\ readAt' \in Nat /\ created' \in Nat /\ nextExpired' \in Nat
        /\ expired' \in Seq(Nat \X Addr) /\ pending' \in Seq(Functor)
        /\ ids' \subseteq Addr \X Nat /\ adding' \in [Threads -> 0 .. MaxAddr]
    <3>1. UNCHANGED <<now, created, pending, ids, adding>> /\ readAt' = 0 /\ nextExpired' = 0
            /\ expired' = <<>>
      BY <1>1, SMTT(30), Z3T(30) DEF userVars
    <3> QED
      BY <3>1, SMTT(30), Z3T(30) DEF IInv, TypeInv
  <2> QED
    BY <1>8, <2>1, <2>2, <2>3, <2>4, SMTT(30), Z3T(30) DEF TypeInv
<1>14. AgreeInv'
  <2>1. ASSUME NEW id \in activeTimers' PROVE id[2] = heap'[id[1]].sequence
    <3>1. CASE id \in activeTimers
      <4>1. id[1] \in Active /\ id[2] = heap[id[1]].sequence
        BY <3>1, ZenonT(60) DEF Active, IInv, AgreeInv
      <4> QED
        BY <1>2, <1>4, <1>7, <4>1, Zenon
    <3>2. CASE \E a \in again : id = ActiveTimer(a)
      BY <1>5, <1>10, <3>2, SMTT(30), Z3T(30)
    <3> QED
      BY <1>9, <3>1, <3>2, Zenon
  <2>2. ASSUME NEW e \in timers' PROVE e[1] = heap'[e[2]].expiration /\ e[2] \in Active'
    <3>1. CASE e \in timers
      <4>1. e[1] = heap[e[2]].expiration /\ e[2] \in Active
        BY <3>1 DEF IInv, AgreeInv
      <4> QED
        BY <1>2, <1>4, <1>7, <1>11, <4>1, SMTT(30), Z3T(30)
    <3>2. CASE \E a \in again : e = entry(a)
      BY <1>10, <1>11, <3>2, ZenonT(60)
    <3> QED
      BY <1>9, <3>1, <3>2, SMTT(30), Z3T(30)
  <2>3. ASSUME NEW a \in Active' PROVE entry(a) \in timers'
    <3>1. CASE a \in Active
      <4>1. heap'[a] = heap[a] /\ <<heap[a].expiration, a>> \in timers
        BY <1>2, <1>4, <1>7, <3>1 DEF IInv, AgreeInv, Entry
      <4> QED
        BY <1>9, <4>1, Zenon DEF entry
    <3>2. CASE a \in again
      BY <1>9, <3>2, ZenonT(60)
    <3> QED
      BY <1>11, <3>1, <3>2
  <2> QED
    BY <2>1, <2>2, <2>3 DEF AgreeInv, Entry, entry
<1>15. \A a \in Addr : heap'[a] # NoTimer <=> a \in Active \cup again \cup Adds(pending)
  BY <1>3, <1>4, <1>5, <1>6, <1>7, SMTT(30), Z3T(30)
<1>16. OwnInv'
  BY <1>1, <1>3, <1>4, <1>11, <1>12, <1>15, Zenon DEF IInv, OwnInv
<1>17. \A a \in Addr : heap'[a] # NoTimer => /\ heap[a] # NoTimer
                                            /\ heap'[a].sequence = heap[a].sequence
  BY <1>4, <1>5, <1>6, <1>7, ZenonT(60)
<1>18. FreshInv'
  BY <1>1, <1>17, SMTT(30), Z3T(30) DEF IInv, FreshInv, histVars
<1>19. PastInv'
  <2>1. \A a \in again : heap[a].sequence \notin cancelled /\ heap'[a].interval # 0
    BY <1>2, <1>3, <1>5, SMTT(30), Z3T(30) DEF IInv, PastInv, batch
  <2>2. \A a \in Active \cup Adds(pending) : heap'[a] = heap[a]
    BY <1>2, <1>4, <1>7, Zenon
  <2>3. cancelled' = cancelled /\ called' = called
    BY <1>1, ZenonT(60) DEF histVars
  <2>4. ASSUME NEW a \in Active' \cup Adds(pending)'
        PROVE  /\ heap'[a].sequence \notin cancelled
               /\ heap'[a].interval = 0 => heap'[a].sequence \notin called
    <3>1. CASE a \in again
      BY <1>5, <2>1, <3>1, SMTT(30), Z3T(30)
    <3>2. CASE a \in Active \cup Adds(pending)
      BY <2>2, <3>2, SMTT(30), Z3T(30) DEF IInv, PastInv
    <3> QED
      BY <1>11, <1>12, <3>1, <3>2, SMTT(30), Z3T(30)
  <2> QED
    BY <1>12, <2>3, <2>4, ZenonT(60) DEF PastInv
<1> QED
  BY <1>13, <1>14, <1>16, <1>18, <1>19, SMTT(30), Z3T(30) DEF IInv

-----------------------------------------------------------------------------
\* Every step of the queue.
LEMMA NextInv == IInv /\ [Next]_vars => IInv'
<1> SUFFICES ASSUME IInv, [Next]_vars PROVE IInv'
  OBVIOUS
<1>1. CASE fire \/ Tick \/ poll \/ pollOther \/ timerReturns \/ \E t \in Threads : returnId(t)
  BY <1>1, IdleInv, Zenon
<1>2. CASE UNCHANGED vars
  <2>1. Active' = Active
    BY <1>2, Zenon DEF vars, setVars, Active
  <2>2. UNCHANGED <<now, heap, created, timers, activeTimers, cancelingTimers, calling, expired,
                    nextExpired, readAt, inUser, pending, adding, ids, cancelled, called>>
    BY <1>2 DEF vars, setVars, heapVars, callVars, userVars, histVars
  <2> QED
    BY <2>1, <2>2, Zenon DEF IInv, TypeInv, AgreeInv, OwnInv, FreshInv, PastInv, Entry, ActiveTimer
<1>3. CASE runTimer
  BY <1>3, RunInv
<1>4. CASE handleRead
  BY <1>4, ReadInv, SMTT(30), Z3T(30)
<1>5. CASE reset
  BY <1>5, ResetInv
<1>6. CASE callFunctor
  BY <1>6, FunctorInv
<1>7. ASSUME NEW a \in Addr, NEW when \in 1 .. MaxTime, NEW i \in Intervals,
             loopAddsTimer(a, when, i) \/ \E t \in Threads : addTimer(t, a, when, i)
      PROVE  IInv'
  <2>1. when \in Nat /\ i \in Nat
    BY TimerAssumption
  <2> QED
    BY <1>7, <2>1, LoopAddInv, QueueAddInv, SMTT(30), Z3T(30)
<1>8. ASSUME NEW id \in ids, loopCancels(id) \/ cancel(id)
      PROVE  IInv'
  BY <1>8, LoopCancelInv, QueueCancelInv
<1> QED
  BY <1>1, <1>2, <1>3, <1>4, <1>5, <1>6, <1>7, <1>8, SMTT(30), Z3T(30) DEF Next, LoopStep

\* The invariant behind the two theorems below.
THEOREM TimersInductive == Spec => []IInv
  BY InitInv, NextInv, PTL DEF Spec

\* Whatever threads add and cancel, whenever the timerfd fires and whichever addresses
\* the allocator reuses, timers_ and activeTimers_ hold the same timers, and every
\* Timer has one owner: the sets, the batch that handleRead() calls or a queued functor.
THEOREM TimersOwnedOnce == Spec => []SetsAgree
<1>1. IInv => SetsAgree
  <2> SUFFICES ASSUME IInv PROVE SetsAgree
    OBVIOUS
  <2>1. timers = {Entry(a) : a \in Active}
    BY DEF IInv, AgreeInv, TypeInv, Entry
  <2>2. activeTimers = {ActiveTimer(a) : a \in Active}
    <3>1. \A id \in activeTimers : id = ActiveTimer(id[1])
      BY SMTT(30), Z3T(30) DEF IInv, AgreeInv, TypeInv, ActiveTimer
    <3> QED
      BY <3>1, SMTT(30), Z3T(30) DEF Active
  <2>3. /\ {a \in Addr : heap[a] # NoTimer} = Active \cup Batch \cup Queued
        /\ Active \cap Batch = {} /\ Queued \cap (Active \cup Batch) = {}
    BY OwnedAddr, Names, SMTT(30), Z3T(30) DEF IInv, OwnInv
  <2>4. Cardinality(Batch) = Len(expired)
    <3> DEFINE n == Len(expired)
               timer == [i \in 1 .. n |-> expired[i][2]]
    <3>1. n \in Nat /\ IsFiniteSet(1 .. n) /\ Cardinality(1 .. n) = n
      <4>1. n \in Nat
        BY SMTT(30), Z3T(30) DEF IInv, TypeInv
      <4> HIDE DEF n
      <4> QED
        BY <4>1, FS_Interval, SMTT(30), Z3T(30)
    <3>2. timer \in Bijection(1 .. n, Batch)
      BY SMTT(30), Z3T(30) DEF Bijection, Injection, Surjection, IsInjective, Batch, IInv, OwnInv, CalledOnce
    <3> QED
      BY <3>1, <3>2, FS_Bijection, SMTT(30), Z3T(30) DEF ExistsBijection
  <2> QED
    BY <2>1, <2>2, <2>3, <2>4 DEF SetsAgree
<1> QED
  BY <1>1, TimersInductive, PTL

\* A timer that cancelInLoop() has cancelled, waiting or being called, and a timer that
\* does not repeat and was called, is never in the sets or in a functor again: reset()
\* does not bring it back, however its address is reused.
THEOREM CancelledStaysAway == Spec => []NeverComesBack
<1>1. IInv => NeverComesBack
  BY Names DEF IInv, PastInv, NeverComesBack
<1> QED
  BY <1>1, TimersInductive, PTL
=============================================================================
