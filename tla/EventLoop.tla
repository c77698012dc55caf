------------------------------ MODULE EventLoop ------------------------------
(***************************************************************************)
(* muduo::net::EventLoop: the reactor loop of one thread, its queue of     *)
(* pending functors, the eventfd that wakes it up, and quit().             *)
(*                                                                         *)
(* Every other thread runs freely between two steps of the loop thread and *)
(* the other way round.  Grain: a critical section of mutex_ is one step,  *)
(* a system call is one step, and a plain store (quit_) is one step; in    *)
(* queueInLoop() and quit() other threads therefore run between the store  *)
(* or the push_back and the wakeup().                                      *)
(***************************************************************************)
EXTENDS Integers, Sequences, FiniteSets

CONSTANTS LoopThread,   \* the thread that created the loop and calls loop()
          Threads,      \* the other threads that hold a pointer to the loop
          Channels,     \* channels of the loop other than wakeupChannel_
          MaxCalls,     \* bound: runInLoop/queueInLoop calls of each thread
          EarlyQueue    \* does the loop thread call queueInLoop outside loop()?

ASSUME ThreadAssumption == LoopThread \notin Threads
ASSUME BoundAssumption == MaxCalls \in Nat /\ EarlyQueue \in BOOLEAN

AllThreads == Threads \cup {LoopThread}

\* A functor is identified by the thread that passed it and its call number.
Functor == AllThreads \X (1 .. MaxCalls)

\* wakeupChannel_, as opposed to the user's channels.
wakeupChannel == "wakeupChannel"

VARIABLES
  pc,                       \* where the loop thread is (see PC)
  quit,                     \* quit_
  wakeupFd,                 \* is the counter of the eventfd non-zero?
  active,                   \* activeChannels_ still to be handled
  pendingFunctors,          \* pendingFunctors_, guarded by mutex_
  callingPendingFunctors,   \* callingPendingFunctors_
  functors,                 \* the local vector of doPendingFunctors, what is left
  waking,                   \* threads between push_back or quit_ = true and wakeup()
  calls,                    \* how many functors each thread has passed
  ran                       \* history: the functors that were called, oldest first

vars == <<pc, quit, wakeupFd, active, pendingFunctors, callingPendingFunctors,
          functors, waking, calls, ran>>

\* outside loop(): "ready" before it, "stopped" after it; inside: the while
\* condition, poll(), the loop over the active channels, a channel's callback,
\* the loop over the functors, a functor.
PC == {"ready", "check", "poll", "handle", "inHandler", "functors",
       "inFunctor", "stopped"}

Looping == pc \notin {"ready", "stopped"}

\* The loop thread is executing code of the user.
InUserCode == pc \in {"ready", "inHandler", "inFunctor", "stopped"}

Init ==
  /\ pc = "ready" /\ quit = FALSE /\ wakeupFd = FALSE /\ active = {}
  /\ pendingFunctors = <<>> /\ callingPendingFunctors = FALSE
  /\ functors = <<>> /\ waking = {}
  /\ calls = [t \in AllThreads |-> 0] /\ ran = <<>>

-----------------------------------------------------------------------------
(* Calls of the loop's interface, by any thread *)

isInLoopThread(t) == t = LoopThread

\* t is in the user's code and not inside an earlier call.
MayCall(t) == t \notin waking /\ (isInLoopThread(t) => InUserCode)

\* wakeup(): the write to the eventfd makes it readable (or leaves it so).
wakeup(t) ==
  /\ t \in waking
  /\ waking' = waking \ {t}
  /\ wakeupFd' = TRUE
  /\ UNCHANGED <<pc, quit, active, pendingFunctors, callingPendingFunctors,
                 functors, calls, ran>>

\* Mutant: the second case of the condition is forgotten.
needsWakeupFromOthers(t) == ~isInLoopThread(t)

\* The condition under which queueInLoop() ends with a call of wakeup().
needsWakeup(t) == ~isInLoopThread(t) \/ callingPendingFunctors

\* A numbered functor of t.
NextFunctor(t) == <<t, calls[t] + 1>>

Counted(t) ==
  /\ calls[t] < MaxCalls
  /\ calls' = [calls EXCEPT ![t] = @ + 1]

queueInLoop(t) ==
  /\ MayCall(t) /\ Counted(t)
  /\ isInLoopThread(t) => Looping \/ EarlyQueue
  /\ pendingFunctors' = Append(pendingFunctors, NextFunctor(t))
  /\ waking' = IF needsWakeup(t) THEN waking \cup {t} ELSE waking
  /\ UNCHANGED <<pc, quit, wakeupFd, active, callingPendingFunctors, functors,
                 ran>>

\* runInLoop() in the loop thread calls the functor at once; in any other
\* thread it is queueInLoop().
runInLoop(t) ==
  \/ /\ isInLoopThread(t) /\ MayCall(t) /\ Counted(t)
     /\ ran' = Append(ran, NextFunctor(t))
     /\ UNCHANGED <<pc, quit, wakeupFd, active, pendingFunctors,
                    callingPendingFunctors, functors, waking>>
  \/ ~isInLoopThread(t) /\ queueInLoop(t)

\* Mutant: quit() does not wake the loop up.
quitQuietly(t) ==
  /\ MayCall(t)
  /\ quit' = TRUE
  /\ UNCHANGED <<pc, wakeupFd, active, pendingFunctors,
                 callingPendingFunctors, functors, waking, calls, ran>>

\* quit(): the store and, from another thread, the wakeup.
quitLoop(t) ==
  /\ MayCall(t)
  /\ quit' = TRUE
  /\ waking' = IF isInLoopThread(t) THEN waking ELSE waking \cup {t}
  /\ UNCHANGED <<pc, wakeupFd, active, pendingFunctors,
                 callingPendingFunctors, functors, calls, ran>>

-----------------------------------------------------------------------------
(* loop(), run by LoopThread *)

\* assert(!looping_); looping_ = true; quit_ = false;
loop ==
  /\ ~Looping
  /\ pc' = "check" /\ quit' = FALSE
  /\ UNCHANGED <<wakeupFd, active, pendingFunctors, callingPendingFunctors,
                 functors, waking, calls, ran>>

\* while (!quit_) ...; looping_ = false;
checkQuit ==
  /\ pc = "check"
  /\ pc' = IF quit THEN "stopped" ELSE "poll"
  /\ UNCHANGED <<quit, wakeupFd, active, pendingFunctors,
                 callingPendingFunctors, functors, waking, calls, ran>>

\* poll() returns with a set of channels; wakeupChannel_ is among them when
\* its eventfd is readable.
pollReturns(ready) ==
  /\ pc = "poll" /\ pc' = "handle"
  /\ active' = ready \cup (IF wakeupFd THEN {wakeupChannel} ELSE {})
  /\ UNCHANGED <<quit, wakeupFd, pendingFunctors, callingPendingFunctors,
                 functors, waking, calls, ran>>

\* A wakeup ends the wait, other channels may be ready as well.
pollWakeup == wakeupFd /\ \E ready \in SUBSET Channels : pollReturns(ready)

\* Without one it ends when channels are ready, or empty-handed: kPollTimeMs
\* passed, or a signal interrupted the wait.
pollOther == ~wakeupFd /\ \E ready \in SUBSET Channels : pollReturns(ready)

\* EventLoop::handleRead(), the callback of wakeupChannel_: reading an
\* eventfd resets its counter.
handleRead ==
  /\ pc = "handle" /\ wakeupChannel \in active
  /\ wakeupFd' = FALSE /\ active' = active \ {wakeupChannel}
  /\ UNCHANGED <<pc, quit, pendingFunctors, callingPendingFunctors, functors,
                 waking, calls, ran>>

\* handleEvent() of a user's channel calls the user's callback ...
handleEvent(c) ==
  /\ pc = "handle" /\ c \in active
  /\ active' = active \ {c} /\ pc' = "inHandler"
  /\ UNCHANGED <<quit, wakeupFd, pendingFunctors, callingPendingFunctors,
                 functors, waking, calls, ran>>

\* ... which returns.
handlerReturns ==
  /\ pc = "inHandler" /\ LoopThread \notin waking
  /\ pc' = "handle"
  /\ UNCHANGED <<quit, wakeupFd, active, pendingFunctors,
                 callingPendingFunctors, functors, waking, calls, ran>>

\* doPendingFunctors(): the flag, then the swap under the lock.  Only the loop
\* thread reads the flag, so the two stores are one step.
doPendingFunctors ==
  /\ pc = "handle" /\ active = {}
  /\ callingPendingFunctors' = TRUE
  /\ functors' = pendingFunctors /\ pendingFunctors' = <<>>
  /\ pc' = "functors"
  /\ UNCHANGED <<quit, wakeupFd, active, waking, calls, ran>>

\* Mutant: the batch is run from its end.
callLastFunctor ==
  /\ pc = "functors" /\ functors # <<>>
  /\ ran' = Append(ran, functors[Len(functors)])
  /\ functors' = SubSeq(functors, 1, Len(functors) - 1)
  /\ pc' = "inFunctor"
  /\ UNCHANGED <<quit, wakeupFd, active, pendingFunctors,
                 callingPendingFunctors, waking, calls>>

\* functors[i]() is called ...
callFunctor ==
  /\ pc = "functors" /\ functors # <<>>
  /\ ran' = Append(ran, Head(functors)) /\ functors' = Tail(functors)
  /\ pc' = "inFunctor"
  /\ UNCHANGED <<quit, wakeupFd, active, pendingFunctors,
                 callingPendingFunctors, waking, calls>>

\* ... and returns.
functorReturns ==
  /\ pc = "inFunctor" /\ LoopThread \notin waking
  /\ pc' = "functors"
  /\ UNCHANGED <<quit, wakeupFd, active, pendingFunctors,
                 callingPendingFunctors, functors, waking, calls, ran>>

\* callingPendingFunctors_ = false;
functorsDone ==
  /\ pc = "functors" /\ functors = <<>>
  /\ callingPendingFunctors' = FALSE /\ pc' = "check"
  /\ UNCHANGED <<quit, wakeupFd, active, pendingFunctors, functors, waking,
                 calls, ran>>

-----------------------------------------------------------------------------
CallStep(t) == queueInLoop(t) \/ runInLoop(t) \/ quitLoop(t) \/ wakeup(t)

\* What the loop thread does without the user asking for it.
LoopStep ==
  \/ checkQuit \/ pollWakeup \/ handleRead \/ handlerReturns
  \/ doPendingFunctors \/ callFunctor \/ functorReturns \/ functorsDone
  \/ \E c \in Channels : handleEvent(c)

Next == loop \/ LoopStep \/ pollOther \/ \E t \in AllThreads : CallStep(t)

Spec == Init /\ [][Next]_vars

\* The scheduler runs every thread, so a call that has begun completes and the
\* loop advances.  Nothing forces the user to call anything, and pollOther is
\* not fair: a functor must not depend on the ten seconds of kPollTimeMs or on
\* some other channel becoming ready.
FairSpec == Spec /\ WF_vars(LoopStep) /\ \A t \in AllThreads : WF_vars(wakeup(t))

-----------------------------------------------------------------------------
(* Properties *)

\* Every variable stays in its range.
TypeOK ==
  /\ pc \in PC
  /\ quit \in BOOLEAN /\ wakeupFd \in BOOLEAN
  /\ callingPendingFunctors \in BOOLEAN
  /\ active \subseteq Channels \cup {wakeupChannel}
  /\ pendingFunctors \in Seq(Functor) /\ functors \in Seq(Functor)
  /\ ran \in Seq(Functor)
  /\ waking \subseteq AllThreads
  /\ calls \in [AllThreads -> 0 .. MaxCalls]

\* The eventfd is readable, or another thread is about to make it so.
WakeupComing == wakeupFd \/ waking \cap Threads # {}

\* The loop never sits in poll() while a functor waits in pendingFunctors_,
\* unless the eventfd is readable or a thread is on its way to wakeup(): the
\* condition of queueInLoop() loses no wakeup of another thread, a callback or a
\* functor, although handleRead() may consume the wakeup of a functor queued after
\* it was sent.  It does lose one when the loop thread queues before loop(): that
\* is EarlyQueue, for which the property does not hold.
NoLostWakeup == pc = "poll" /\ pendingFunctors # <<>> => WakeupComing

\* The same for quit(): the loop never sits in poll() with quit_ set.
NoLostQuit == pc = "poll" /\ quit => WakeupComing

\* A quit() that comes after loop() has cleared quit_ holds: quit_ stays set until
\* loop() returns, and loop() does not go into poll() again.
QuitHolds == Looping /\ quit => quit' /\ (pc' = "poll" => pc = "poll")

\* How the flag, the batch and a wakeup() of the loop thread itself relate to
\* where the loop is.
ControlInv ==
  /\ callingPendingFunctors <=> pc \in {"functors", "inFunctor"}
  /\ functors # <<>> => pc \in {"functors", "inFunctor"}
  /\ LoopThread \in waking => pc = "inFunctor"

\* The inductive form of NoLostWakeup: outside the part of an iteration that
\* precedes the swap, a functor in the queue has its wakeup or will get it.
WakeupInv ==
  pendingFunctors # <<>> /\ pc \notin {"handle", "inHandler"} =>
     wakeupFd \/ waking # {}

Called(f) == \E i \in 1 .. Len(ran) : ran[i] = f

\* A functor that is queued is called sooner or later, with no help from the
\* poll timeout, unless the loop is told to quit.
QueuedFunctorsRun ==
  \A t \in AllThreads : \A n \in 1 .. MaxCalls :
     (Looping /\ calls[t] >= n) ~> (Called(<<t, n>>) \/ quit)

\* The loop implements the functor queue its callers rely on.
Queue == INSTANCE FunctorQueue WITH waiting <- functors \o pendingFunctors
ImplementsQueue == Queue!Spec
=============================================================================
