----------------------------- MODULE TimerQueue -----------------------------
(***************************************************************************)
(* muduo::net::TimerQueue: the timers of one EventLoop, on one timerfd.    *)
(* Any thread adds and cancels timers; the loop thread inserts, runs,      *)
(* restarts and deletes them.  The loop is the FIFO of functors that       *)
(* EventLoop implements.  Timers live at addresses that the allocator may  *)
(* reuse, which is why a TimerId also holds the timer's sequence number.   *)
(***************************************************************************)
EXTENDS Integers, Sequences, FiniteSets, FiniteSetsExt, Functions

CONSTANTS
  Threads,      \* threads other than the loop thread
  MaxAddr,      \* addresses 1 .. MaxAddr for Timer objects
  MaxTimers,    \* bound: timers created altogether
  Intervals,    \* intervals of timers, 0 for one that does not repeat
  MaxTime,      \* bound: the clock stops counting here
  Early         \* how many ticks early the timerfd may fire by the wall clock

ASSUME TimerAssumption ==
  /\ MaxAddr \in Nat /\ MaxTimers \in Nat /\ MaxTime \in Nat /\ Early \in Nat
  /\ Intervals \subseteq Nat

VARIABLES
  now,              \* Timestamp::now()
  heap,             \* the Timer at each address, or NoTimer
  created,          \* s_numCreated_
  timers,           \* timers_: pairs of an expiration and an address
  activeTimers,     \* activeTimers_: pairs of an address and a sequence number
  cancelingTimers,  \* cancelingTimers_
  calling,          \* callingExpiredTimers_
  expired,          \* the local vector of handleRead: timers_ entries in order
  nextExpired,      \* how many of them have been called
  readAt,           \* the local now of handleRead
  inUser,           \* a timer's callback is being executed
  armed,            \* when the timerfd fires, 0 if it is not armed
  fdReady,          \* the timerfd is readable
  reported,         \* poll() has returned timerfdChannel_
  pending,          \* functors of the loop: <<"add", address>>, <<"cancel", id>>
  adding,           \* the address of the timer each thread is adding, or 0
  ids,              \* TimerIds that users have got
  cancelled,        \* history: sequence numbers cancelInLoop() has cancelled
  called            \* history: sequence numbers of timers that were called

heapVars == <<heap, created>>
setVars == <<timers, activeTimers, cancelingTimers>>
callVars == <<calling, expired, nextExpired, readAt, inUser>>
fdVars == <<armed, fdReady, reported>>
userVars == <<pending, adding, ids>>
histVars == <<cancelled, called>>
vars == <<now, heapVars, setVars, callVars, fdVars, userVars, histVars>>

Addr == 1 .. MaxAddr
Sequence == 0 .. MaxTimers
TimerId == Addr \X Sequence
NoTimer == [sequence |-> 0, expiration |-> 0, interval |-> 0]
Entry(a) == <<heap[a].expiration, a>>
ActiveTimer(a) == <<a, heap[a].sequence>>
Earliest(s) == Min({e[1] : e \in s})

Init ==
  /\ now = 1 /\ heap = [a \in Addr |-> NoTimer] /\ created = 0
  /\ timers = {} /\ activeTimers = {} /\ cancelingTimers = {}
  /\ calling = FALSE /\ expired = <<>> /\ nextExpired = 0 /\ readAt = 0
  /\ inUser = FALSE
  /\ armed = 0 /\ fdReady = FALSE /\ reported = FALSE
  /\ pending = <<>> /\ adding = [t \in Threads |-> 0] /\ ids = {}
  /\ cancelled = {} /\ called = {}

\* The loop thread is in the user's code: a callback of another channel or a
\* functor, or the callback of a timer.
LoopInUser == ~calling \/ inUser

-----------------------------------------------------------------------------
(* The timerfd *)

\* howMuchTimeFromNow(): at least one tick from now.
howMuchTimeFromNow(when) == Max({when - now, 1})

\* timerfd_settime() also takes back an expiry that was not read.
resetTimerfd(when) == armed' = now + howMuchTimeFromNow(when) /\ fdReady' = FALSE

\* The timerfd fires; when the clock of the model has stopped, at any time.
fire ==
  /\ armed # 0 /\ (now + Early >= armed \/ now = MaxTime)
  /\ armed' = 0 /\ fdReady' = TRUE
  /\ UNCHANGED <<now, heapVars, setVars, callVars, reported, userVars, histVars>>

Tick ==
  /\ now < MaxTime /\ now' = now + 1
  /\ UNCHANGED <<heapVars, setVars, callVars, fdVars, userVars, histVars>>

-----------------------------------------------------------------------------
(* Functions of the loop thread *)

\* insert(): does the timer at a become the earliest one?
earliestChanged(a) == timers = {} \/ heap'[a].expiration < Earliest(timers)

\* addTimerInLoop(), for a timer that is in the heap after the step.
addTimerInLoop(a) ==
  /\ timers' = timers \cup {<<heap'[a].expiration, a>>}
  /\ activeTimers' = activeTimers \cup {<<a, heap'[a].sequence>>}
  /\ IF earliestChanged(a) THEN resetTimerfd(heap'[a].expiration)
                           ELSE UNCHANGED <<armed, fdReady>>
  /\ UNCHANGED cancelingTimers

\* cancelInLoop(): an active timer is deleted, one that is being called is
\* remembered, and anything else is ignored.
cancelInLoop(id) ==
  \/ /\ id \in activeTimers
     /\ timers' = timers \ {Entry(id[1])} /\ activeTimers' = activeTimers \ {id}
     /\ heap' = [heap EXCEPT ![id[1]] = NoTimer]
     /\ cancelled' = cancelled \cup {id[2]}
     /\ UNCHANGED cancelingTimers
  \/ /\ id \notin activeTimers /\ calling
     /\ cancelingTimers' = cancelingTimers \cup {id}
     /\ cancelled' =
          cancelled \cup {q \in {id[2]} : \E i \in 1 .. Len(expired) :
                                            ActiveTimer(expired[i][2]) = id}
     /\ UNCHANGED <<timers, activeTimers, heap>>
  \/ id \notin activeTimers /\ ~calling /\ UNCHANGED <<setVars, heap, cancelled>>

\* poll() returns; timerfdChannel_ is among the active channels.
poll ==
  /\ ~calling /\ ~reported /\ fdReady /\ reported' = TRUE
  /\ UNCHANGED <<now, heapVars, setVars, callVars, armed, fdReady, userVars,
                 histVars>>

\* poll() returns for other reasons.
pollOther == ~calling /\ UNCHANGED vars

\* The order of timers_.
Before(x, y) == x[1] < y[1] \/ (x[1] = y[1] /\ x[2] < y[2])

\* getExpired(): the entries up to the time t in the order of timers_, which is
\* one sequence; they leave timers_ ...
getExpired(t) ==
  LET due == {e \in timers : e[1] <= t}
  IN {s \in Bijection(1 .. Cardinality(due), due) :
        \A i, j \in 1 .. Cardinality(due) : i < j => Before(s[i], s[j])}

\* Mutant: they stay in activeTimers_.
stillActiveAll(t) == activeTimers

\* ... and activeTimers_.
stillActive(t) == {id \in activeTimers : heap[id[1]].expiration > t}

\* handleRead() up to the loop of callbacks.  The timerfd may have been set
\* again after poll(): then the read fails and the function goes on.
handleRead ==
  /\ reported /\ reported' = FALSE /\ ~calling
  /\ fdReady' = FALSE /\ readAt' = now
  /\ expired' \in getExpired(now) /\ nextExpired' = 0
  /\ timers' = {e \in timers : e[1] > now}
  /\ activeTimers' = stillActive(now)
  /\ calling' = TRUE /\ cancelingTimers' = {}
  /\ UNCHANGED <<now, heapVars, inUser, armed, userVars, histVars>>

\* it->second->run(): the callback begins ...
runTimer ==
  /\ calling /\ ~inUser /\ nextExpired < Len(expired)
  /\ nextExpired' = nextExpired + 1 /\ inUser' = TRUE
  /\ called' = called \cup {heap[expired[nextExpired'][2]].sequence}
  /\ UNCHANGED <<now, heapVars, setVars, calling, expired, readAt, fdVars,
                 userVars, cancelled>>

\* ... and returns.
timerReturns ==
  /\ inUser /\ inUser' = FALSE
  /\ UNCHANGED <<now, heapVars, setVars, calling, expired, nextExpired, readAt,
                 fdVars, userVars, histVars>>

\* Mutant: cancelingTimers_ is not looked at.
restartsCancelled(a) == heap[a].interval > 0
\* Does reset() restart the expired timer at a?
restarts(a) == heap[a].interval > 0 /\ ActiveTimer(a) \notin cancelingTimers

\* Timer::restart().
restart(a) == readAt + heap[a].interval

\* Mutant: the timerfd is left as it is.
rearmNever == UNCHANGED <<armed, fdReady>>

\* The timerfd is armed for the earliest timer that is left.
rearm ==
  IF timers' # {} THEN resetTimerfd(Earliest(timers'))
                  ELSE UNCHANGED <<armed, fdReady>>

\* The end of handleRead(): reset() restarts the timers that repeat and were not
\* cancelled, deletes the others, and arms the timerfd for the earliest one.
reset ==
  /\ calling /\ ~inUser /\ nextExpired = Len(expired)
  /\ calling' = FALSE /\ expired' = <<>> /\ nextExpired' = 0 /\ readAt' = 0
  /\ LET batch == {expired[i][2] : i \in 1 .. Len(expired)}
         again == {a \in batch : restarts(a)}
     IN  /\ heap' = [a \in Addr |->
                       IF a \in again
                       THEN [heap[a] EXCEPT !.expiration = restart(a)]
                       ELSE IF a \in batch THEN NoTimer ELSE heap[a]]
         /\ timers' = timers \cup {<<heap'[a].expiration, a>> : a \in again}
         /\ activeTimers' = activeTimers \cup {ActiveTimer(a) : a \in again}
  /\ rearm
  /\ UNCHANGED <<now, created, cancelingTimers, inUser, reported, userVars,
                 histVars>>

-----------------------------------------------------------------------------
(* Calls of users *)

\* new Timer(cb, when, interval) at a free address.
newTimer(a, when, interval) ==
  /\ heap[a] = NoTimer /\ created < MaxTimers /\ created' = created + 1
  /\ heap' = [heap EXCEPT ![a] = [sequence |-> created', expiration |-> when,
                                  interval |-> interval]]

\* addTimer() in the loop thread.
loopAddsTimer(a, when, interval) ==
  /\ LoopInUser /\ newTimer(a, when, interval) /\ addTimerInLoop(a)
  /\ ids' = ids \cup {<<a, created'>>}
  /\ UNCHANGED <<now, callVars, reported, pending, adding, histVars>>

\* addTimer() in another thread: the timer is handed to the loop ...
addTimer(t, a, when, interval) ==
  /\ adding[t] = 0 /\ adding' = [adding EXCEPT ![t] = a]
  /\ newTimer(a, when, interval)
  /\ pending' = Append(pending, <<"add", a>>)
  /\ UNCHANGED <<now, setVars, callVars, fdVars, ids, histVars>>

\* ... and then its sequence number is read.  A deleted timer has any number.
returnId(t) ==
  /\ adding[t] # 0 /\ adding' = [adding EXCEPT ![t] = 0]
  /\ \E q \in Sequence :
       /\ heap[adding[t]] # NoTimer => q = heap[adding[t]].sequence
       /\ ids' = ids \cup {<<adding[t], q>>}
  /\ UNCHANGED <<now, heapVars, setVars, callVars, fdVars, pending, histVars>>

loopCancels(id) ==
  /\ LoopInUser /\ id \in ids /\ cancelInLoop(id)
  /\ UNCHANGED <<now, created, callVars, fdVars, userVars, called>>

\* cancel() in another thread; a TimerId is used once.
cancel(id) ==
  /\ id \in ids /\ ids' = ids \ {id}
  /\ pending' = Append(pending, <<"cancel", id>>)
  /\ UNCHANGED <<now, heapVars, setVars, callVars, fdVars, adding, histVars>>

\* The loop calls its next functor.
callFunctor ==
  /\ ~calling /\ pending # <<>> /\ pending' = Tail(pending)
  /\ \/ /\ Head(pending)[1] = "add" /\ UNCHANGED <<heap, cancelled>>
        /\ addTimerInLoop(Head(pending)[2])
     \/ /\ Head(pending)[1] = "cancel" /\ cancelInLoop(Head(pending)[2])
        /\ UNCHANGED <<armed, fdReady>>
  /\ UNCHANGED <<now, created, callVars, reported, adding, ids, called>>

-----------------------------------------------------------------------------
\* What the loop does by itself.
LoopStep ==
  poll \/ handleRead \/ runTimer \/ timerReturns \/ reset \/ callFunctor

Next ==
  \/ LoopStep \/ pollOther \/ fire \/ Tick
  \/ \E a \in Addr, when \in 1 .. MaxTime, i \in Intervals :
       loopAddsTimer(a, when, i) \/ \E t \in Threads : addTimer(t, a, when, i)
  \/ \E t \in Threads : returnId(t)
  \/ \E id \in ids : loopCancels(id) \/ cancel(id)

Spec == Init /\ [][Next]_vars

\* The loop thread is scheduled and callbacks return, every iteration of the
\* loop calls functors, time passes and the timerfd fires.
FairSpec ==
  /\ Spec /\ WF_vars(LoopStep) /\ SF_vars(callFunctor)
  /\ WF_vars(fire) /\ WF_vars(Tick)

-----------------------------------------------------------------------------
(* Properties *)

Batch == {expired[i][2] : i \in 1 .. Len(expired)}
Queued == {f[2] : f \in {pending[i] : i \in {j \in 1 .. Len(pending) :
                                               pending[j][1] = "add"}}}
Active == {id[1] : id \in activeTimers}

\* timers_ and activeTimers_ hold the same timers, under the expiration and the
\* sequence number those timers have: the assertions on sizes and on erase()
\* hold, although a timer is cancelled, restarted and its address reused.  And
\* every Timer is owned once, by the two sets, by the batch being called or by a
\* queued functor: it is deleted once, and nobody calls a deleted one.
SetsAgree ==
  /\ timers = {Entry(a) : a \in Active}
  /\ activeTimers = {ActiveTimer(a) : a \in Active}
  /\ {a \in Addr : heap[a] # NoTimer} = Active \cup Batch \cup Queued
  /\ Active \cap Batch = {} /\ Queued \cap (Active \cup Batch) = {}
  /\ Cardinality(Batch) = Len(expired)

\* A timer that cancelInLoop() has cancelled is not started again, whether it
\* was waiting or being called (even by itself); nor is a timer that does not
\* repeat once it was called.
NeverComesBack ==
  \A a \in Active \cup Queued :
    /\ heap[a].sequence \notin cancelled
    /\ heap[a].interval = 0 => heap[a].sequence \notin called

\* A timer is called sooner or later after its time, unless it is cancelled.
TimersRun ==
  \A q \in 1 .. MaxTimers :
    (\E a \in Active \cup Queued : heap[a].sequence = q) ~> q \in called \cup cancelled
=============================================================================
