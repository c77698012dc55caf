--------------------------- MODULE EventLoopProofs ---------------------------
(***************************************************************************)
(* Proofs about EventLoop and EventLoopThread for any set of threads, any  *)
(* set of channels and any number of calls.                                *)
(***************************************************************************)
EXTENDS EventLoopThread, TLAPS

-----------------------------------------------------------------------------
(* Sequences *)

\* What doPendingFunctors and queueInLoop do to the batch followed by the
\* queue: appending to the queue appends to both.
LEMMA ConcatAppend ==
  ASSUME NEW S, NEW a \in Seq(S), NEW b \in Seq(S), NEW x \in S
  PROVE  a \o Append(b, x) = Append(a \o b, x)
  OBVIOUS

\* Taking the first functor of the batch takes the first of both.
LEMMA ConcatHeadTail ==
  ASSUME NEW S, NEW a \in Seq(S), NEW b \in Seq(S), a # <<>>
  PROVE  /\ a \o b # <<>>
         /\ Head(a \o b) = Head(a)
         /\ Tail(a \o b) = Tail(a) \o b
  OBVIOUS

\* The swap of doPendingFunctors, which finds an empty batch, keeps both.
LEMMA ConcatEmpty ==
  ASSUME NEW S, NEW a \in Seq(S)
  PROVE  <<>> \o a = a /\ a \o <<>> = a
  OBVIOUS

-----------------------------------------------------------------------------
(* Type correctness *)

\* A new loop.
LEMMA TypeInit == Init => TypeOK
<1> SUFFICES ASSUME Init PROVE TypeOK
  OBVIOUS
<1>1. quit \in BOOLEAN /\ wakeupFd \in BOOLEAN /\ callingPendingFunctors \in BOOLEAN
  BY Zenon DEF Init
<1>2. pc \in PC /\ active \subseteq Channels \cup {wakeupChannel} /\ waking \subseteq AllThreads
  BY DEF Init, PC
<1>3. pendingFunctors \in Seq(Functor) /\ functors \in Seq(Functor) /\ ran \in Seq(Functor)
  BY DEF Init
<1>4. calls \in [AllThreads -> 0 .. MaxCalls]
  BY BoundAssumption, SMTT(30), Z3T(30) DEF Init
<1> QED
  BY <1>1, <1>2, <1>3, <1>4 DEF TypeOK

\* Every step of the loop and its callers keeps the types.
LEMMA TypeStep == TypeOK /\ [Next]_vars => TypeOK'
<1> SUFFICES ASSUME TypeOK, [Next]_vars PROVE TypeOK'
  OBVIOUS
<1> USE BoundAssumption DEF TypeOK, PC
<1>1. ASSUME NEW t \in AllThreads, queueInLoop(t) PROVE TypeOK'
  BY <1>1, SMTT(60), Z3T(30) DEF queueInLoop, Counted, NextFunctor, Functor
<1>2. ASSUME NEW t \in AllThreads, runInLoop(t) PROVE TypeOK'
  <2>1. NextFunctor(t) \in Functor
    BY <1>2, SMTT(30), Z3T(30) DEF runInLoop, queueInLoop, Counted, NextFunctor, Functor
  <2>2. CASE ~isInLoopThread(t)
    BY <1>1, <1>2, <2>2, SMTT(30), Z3T(30) DEF runInLoop
  <2>3. CASE isInLoopThread(t)
    <3>1. ran' \in Seq(Functor)
      <4>1. ran' = Append(ran, NextFunctor(t))
        BY <1>2, <2>3 DEF runInLoop
      <4> QED
        BY <2>1, <4>1
    <3>2. calls' \in [AllThreads -> 0 .. MaxCalls]
      BY <1>2, <2>3, SMTT(30), Z3T(30) DEF runInLoop, Counted
    <3>3. UNCHANGED <<pc, quit, wakeupFd, active, pendingFunctors,
                      callingPendingFunctors, functors, waking>>
      BY <1>2, <2>3 DEF runInLoop
    <3> QED
      BY <3>1, <3>2, <3>3
  <2> QED
    BY <2>2, <2>3, SMTT(30), Z3T(30)
<1>3. ASSUME NEW t \in AllThreads, quitLoop(t) PROVE TypeOK'
  BY <1>3 DEF quitLoop
<1>4. ASSUME NEW t \in AllThreads, wakeup(t) PROVE TypeOK'
  BY <1>4 DEF wakeup
<1>5. CASE loop
  BY <1>5, Zenon DEF loop
<1>6. CASE checkQuit
  BY <1>6 DEF checkQuit
<1>7. ASSUME NEW ready \in SUBSET Channels, pollReturns(ready) PROVE TypeOK'
  BY <1>7 DEF pollReturns
<1>8. CASE handleRead
  BY <1>8, Zenon DEF handleRead
<1>9. ASSUME NEW c \in Channels, handleEvent(c) PROVE TypeOK'
  BY <1>9 DEF handleEvent
<1>10. CASE handlerReturns
  BY <1>10 DEF handlerReturns
<1>11. CASE doPendingFunctors
  BY <1>11 DEF doPendingFunctors
<1>12. CASE callFunctor
  BY <1>12 DEF callFunctor
<1>13. CASE functorReturns
  BY <1>13 DEF functorReturns
<1>14. CASE functorsDone
  BY <1>14, Zenon DEF functorsDone
<1>15. CASE UNCHANGED vars
  BY <1>15 DEF vars
<1> QED
  BY <1>1, <1>2, <1>3, <1>4, <1>5, <1>6, <1>7, <1>8, <1>9, <1>10, <1>11,
     <1>12, <1>13, <1>14, <1>15, SMTT(30), Z3T(30)
  DEF Next, LoopStep, CallStep, pollWakeup, pollOther

\* Every step of every thread keeps the variables in their ranges.
THEOREM TypeCorrect == Spec => []TypeOK
  BY TypeInit, TypeStep, PTL DEF Spec

-----------------------------------------------------------------------------
(* Control *)

\* The flag, the batch and the loop thread's own wakeup() agree with the place
\* of the loop thread in loop() and doPendingFunctors().
THEOREM ControlCorrect == Spec => []ControlInv
<1>1. Init => ControlInv
  BY DEF Init, ControlInv
<1>2. TypeOK /\ ControlInv /\ [Next]_vars => ControlInv'
  <2> SUFFICES ASSUME TypeOK, ControlInv, [Next]_vars PROVE ControlInv'
    OBVIOUS
  <2> USE DEF TypeOK, PC, ControlInv
  <2>1. ASSUME NEW t \in AllThreads, queueInLoop(t) PROVE ControlInv'
    BY <2>1 DEF queueInLoop, MayCall, needsWakeup, isInLoopThread, InUserCode
  <2>2. ASSUME NEW t \in AllThreads, runInLoop(t) PROVE ControlInv'
    BY <2>1, <2>2 DEF runInLoop
  <2>3. ASSUME NEW t \in AllThreads, quitLoop(t) PROVE ControlInv'
    BY <2>3 DEF quitLoop, isInLoopThread
  <2>4. ASSUME NEW t \in AllThreads, wakeup(t) PROVE ControlInv'
    BY <2>4 DEF wakeup
  <2>5. CASE loop
    BY <2>5 DEF loop, Looping
  <2>6. CASE checkQuit
    BY <2>6 DEF checkQuit
  <2>7. ASSUME NEW ready \in SUBSET Channels, pollReturns(ready) PROVE ControlInv'
    BY <2>7 DEF pollReturns
  <2>8. CASE handleRead
    BY <2>8 DEF handleRead
  <2>9. ASSUME NEW c \in Channels, handleEvent(c) PROVE ControlInv'
    BY <2>9 DEF handleEvent
  <2>10. CASE handlerReturns
    BY <2>10 DEF handlerReturns
  <2>11. CASE doPendingFunctors
    BY <2>11 DEF doPendingFunctors
  <2>12. CASE callFunctor
    BY <2>12 DEF callFunctor
  <2>13. CASE functorReturns
    BY <2>13 DEF functorReturns
  <2>14. CASE functorsDone
    BY <2>14 DEF functorsDone
  <2>15. CASE UNCHANGED vars
    BY <2>15 DEF vars
  <2> QED
    BY <2>1, <2>2, <2>3, <2>4, <2>5, <2>6, <2>7, <2>8, <2>9, <2>10, <2>11,
       <2>12, <2>13, <2>14, <2>15
    DEF Next, LoopStep, CallStep, pollWakeup, pollOther
<1> QED
  BY <1>1, <1>2, TypeCorrect, PTL DEF Spec

-----------------------------------------------------------------------------
(* No lost wakeup *)

\* A functor is never left in the queue of a loop that blocks in poll():
\* queueInLoop()'s condition for wakeup() is sufficient, for any number of
\* threads, as long as the loop thread itself queues only from callbacks.
THEOREM WakeupNotLost == ~EarlyQueue => (Spec => []NoLostWakeup)
<1> SUFFICES ASSUME ~EarlyQueue PROVE Spec => []NoLostWakeup
  OBVIOUS
<1>1. Init => WakeupInv
  BY SMTT(30), Z3T(30) DEF Init, WakeupInv
<1>2. TypeOK /\ ControlInv /\ WakeupInv /\ [Next]_vars => WakeupInv'
  <2> SUFFICES ASSUME TypeOK, ControlInv, WakeupInv, [Next]_vars PROVE WakeupInv'
    OBVIOUS
  <2> USE DEF WakeupInv
  <2>1. ASSUME NEW t \in AllThreads, queueInLoop(t) PROVE WakeupInv'
    BY <2>1 DEF queueInLoop, MayCall, needsWakeup, isInLoopThread, InUserCode,
                Looping, ControlInv
  <2>2. ASSUME NEW t \in AllThreads, runInLoop(t) PROVE WakeupInv'
    BY <2>1, <2>2 DEF runInLoop
  <2>3. ASSUME NEW t \in AllThreads, quitLoop(t) PROVE WakeupInv'
    BY <2>3 DEF quitLoop
  <2>4. ASSUME NEW t \in AllThreads, wakeup(t) PROVE WakeupInv'
    BY <2>4 DEF wakeup
  <2>5. CASE loop
    BY <2>5 DEF loop, Looping
  <2>6. CASE checkQuit
    BY <2>6 DEF checkQuit
  <2>7. ASSUME NEW ready \in SUBSET Channels, pollReturns(ready) PROVE WakeupInv'
    BY <2>7 DEF pollReturns
  <2>8. CASE handleRead
    BY <2>8 DEF handleRead
  <2>9. ASSUME NEW c \in Channels, handleEvent(c) PROVE WakeupInv'
    BY <2>9 DEF handleEvent
  <2>10. CASE handlerReturns
    BY <2>10 DEF handlerReturns
  <2>11. CASE doPendingFunctors
    BY <2>11 DEF doPendingFunctors
  <2>12. CASE callFunctor
    BY <2>12 DEF callFunctor
  <2>13. CASE functorReturns
    BY <2>13 DEF functorReturns
  <2>14. CASE functorsDone
    BY <2>14 DEF functorsDone
  <2>15. CASE UNCHANGED vars
    BY <2>15 DEF vars
  <2> QED
    BY <2>1, <2>2, <2>3, <2>4, <2>5, <2>6, <2>7, <2>8, <2>9, <2>10, <2>11,
       <2>12, <2>13, <2>14, <2>15, SMTT(30), Z3T(30)
    DEF Next, LoopStep, CallStep, pollWakeup, pollOther
<1>3. TypeOK /\ ControlInv /\ WakeupInv => NoLostWakeup
  BY DEF TypeOK, ControlInv, WakeupInv, NoLostWakeup, WakeupComing, AllThreads
<1> QED
  BY <1>1, <1>2, <1>3, TypeCorrect, ControlCorrect, PTL DEF Spec

\* Every step of the loop and its callers keeps a quit() with its wakeup.
LEMMA QuitStep == TypeOK /\ NoLostQuit /\ [Next]_vars => NoLostQuit'
<1> SUFFICES ASSUME TypeOK, NoLostQuit, [Next]_vars PROVE NoLostQuit'
  OBVIOUS
<1> USE DEF NoLostQuit, WakeupComing
<1>1. ASSUME NEW t \in AllThreads, queueInLoop(t) PROVE NoLostQuit'
  BY <1>1 DEF queueInLoop
<1>2. ASSUME NEW t \in AllThreads, runInLoop(t) PROVE NoLostQuit'
  BY <1>1, <1>2, Zenon DEF runInLoop
<1>3. ASSUME NEW t \in AllThreads, quitLoop(t) PROVE NoLostQuit'
  BY <1>3 DEF quitLoop, MayCall, isInLoopThread, InUserCode, AllThreads
<1>4. ASSUME NEW t \in AllThreads, wakeup(t) PROVE NoLostQuit'
  BY <1>4 DEF wakeup
<1>5. CASE loop
  BY <1>5 DEF loop
<1>6. CASE checkQuit
  BY <1>6 DEF checkQuit
<1>7. ASSUME NEW ready \in SUBSET Channels, pollReturns(ready) PROVE NoLostQuit'
  BY <1>7 DEF pollReturns
<1>8. CASE handleRead
  BY <1>8 DEF handleRead
<1>9. ASSUME NEW c \in Channels, handleEvent(c) PROVE NoLostQuit'
  BY <1>9 DEF handleEvent
<1>10. CASE handlerReturns \/ doPendingFunctors \/ callFunctor
            \/ functorReturns \/ functorsDone
  BY <1>10 DEF handlerReturns, doPendingFunctors, callFunctor,
               functorReturns, functorsDone
<1>11. CASE UNCHANGED vars
  BY <1>11 DEF vars
<1> QED
  BY <1>1, <1>2, <1>3, <1>4, <1>5, <1>6, <1>7, <1>8, <1>9, <1>10, <1>11, SMTT(30), Z3T(30)
  DEF Next, LoopStep, CallStep, pollWakeup, pollOther

\* A quit() that reaches a loop blocked in poll() brings its wakeup with it:
\* the store to quit_ and the write to the eventfd are in the right order.
THEOREM QuitNotLost == Spec => []NoLostQuit
<1>1. Init => NoLostQuit
  BY DEF Init, NoLostQuit
<1> QED
  BY <1>1, QuitStep, TypeCorrect, PTL DEF Spec

-----------------------------------------------------------------------------
(* Refinement *)

\* The loop with its two vectors is one FIFO queue of functors: queueInLoop
\* appends, callFunctor takes the head, the swap and everything else change
\* nothing, so no functor is lost, repeated or overtaken.
THEOREM LoopImplementsQueue == Spec => ImplementsQueue
<1> DEFINE waiting == functors \o pendingFunctors
<1>1. Init => Queue!Init
  BY DEF Init, Queue!Init
<1>2. TypeOK /\ ControlInv /\ [Next]_vars => [Queue!Next]_<<waiting, ran>>
  <2> SUFFICES ASSUME TypeOK, ControlInv, [Next]_vars
               PROVE  Queue!Next \/ UNCHANGED <<waiting, ran>>
    BY SMTT(30), Z3T(30)
  <2>0. /\ functors \in Seq(Functor) /\ pendingFunctors \in Seq(Functor)
    BY DEF TypeOK
  <2>1. ASSUME NEW t \in AllThreads, queueInLoop(t) PROVE Queue!Next
    <3>1. NextFunctor(t) \in Functor
      BY <2>1, BoundAssumption
      DEF TypeOK, queueInLoop, Counted, NextFunctor, Functor
    <3>2. waiting' = Append(waiting, NextFunctor(t))
      BY <2>0, <2>1, <3>1, ConcatAppend, SMTT(30), Z3T(30) DEF queueInLoop
    <3>3. Queue!Submit(NextFunctor(t))
      BY <2>1, <3>2 DEF queueInLoop, Queue!Submit
    <3> QED
      BY <3>1, <3>3 DEF Queue!Next
  <2>2. ASSUME NEW t \in AllThreads, runInLoop(t) PROVE Queue!Next
    <3>1. CASE isInLoopThread(t)
      <4>1. NextFunctor(t) \in Functor
        BY <2>2, <3>1, BoundAssumption
        DEF TypeOK, runInLoop, Counted, NextFunctor, Functor
      <4>2. Queue!RunNow(NextFunctor(t))
        BY <2>2, <3>1 DEF runInLoop, Queue!RunNow
      <4> QED
        BY <4>1, <4>2 DEF Queue!Next
    <3>2. CASE ~isInLoopThread(t)
      BY <2>1, <2>2, <3>2 DEF runInLoop
    <3> QED
      BY <3>1, <3>2
  <2>3. CASE callFunctor
    <3>1. /\ waiting # <<>> /\ Head(waiting) = Head(functors)
          /\ Tail(waiting) = Tail(functors) \o pendingFunctors
      BY <2>0, <2>3, ConcatHeadTail, SMTT(30), Z3T(30) DEF callFunctor
    <3>2. Queue!RunNext
      BY <2>3, <3>1, SMTT(30), Z3T(30) DEF callFunctor, Queue!RunNext
    <3> QED
      BY <3>2 DEF Queue!Next
  <2>4. CASE doPendingFunctors
    <3>1. functors = <<>>
      BY <2>4 DEF doPendingFunctors, ControlInv
    <3>2. waiting' = waiting
      BY <2>0, <2>4, <3>1, ConcatEmpty DEF doPendingFunctors
    <3> QED
      BY <2>4, <3>2 DEF doPendingFunctors
  <2>5. ASSUME NEW t \in AllThreads, quitLoop(t) \/ wakeup(t)
        PROVE  UNCHANGED <<waiting, ran>>
    BY <2>5, SMTT(30), Z3T(30) DEF quitLoop, wakeup
  <2>6. ASSUME NEW ready \in SUBSET Channels, pollReturns(ready)
        PROVE  UNCHANGED <<waiting, ran>>
    BY <2>6 DEF pollReturns
  <2>7. ASSUME NEW c \in Channels, handleEvent(c)
        PROVE  UNCHANGED <<waiting, ran>>
    BY <2>7 DEF handleEvent
  <2>8. CASE loop \/ checkQuit \/ handleRead \/ handlerReturns
             \/ functorReturns \/ functorsDone \/ UNCHANGED vars
    BY <2>8, SMTT(30), Z3T(30) DEF loop, checkQuit, handleRead, handlerReturns, functorReturns,
                functorsDone, vars
  <2> QED
    BY <2>1, <2>2, <2>3, <2>4, <2>5, <2>6, <2>7, <2>8, SMTT(30), Z3T(30)
    DEF Next, LoopStep, CallStep, pollWakeup, pollOther
<1> QED
  BY <1>1, <1>2, TypeCorrect, ControlCorrect, PTL
  DEF Spec, ImplementsQueue, Queue!Spec


-----------------------------------------------------------------------------
(* EventLoopThread *)

\* What the mutex hands over from threadFunc() to startLoop(): loop_ is set when the
\* loop is ready, and threadFunc() is not started before startLoop().
HandoverInv ==
  /\ StartedLoopIsPublished
  /\ loopPtr => thread \in {"published", "gone"}
  /\ owner = "new" => thread = "none"
  /\ thread = "gone" => pc = "stopped"

\* Once threadFunc() has returned, calls into the loop end and leave the rest alone.
AfterReturn ==
  /\ thread = "gone" /\ waking' \subseteq waking
  /\ UNCHANGED <<pc, quit, wakeupFd, active, pendingFunctors, callingPendingFunctors, functors,
                 calls, ran>>

\* Every step of EventLoopThread on a loop that threadFunc() has not destroyed is a step
\* of EventLoop, or leaves the loop alone.
LEMMA ThreadStepIsLoopStep ==
  ASSUME [ThreadNext]_allVars
  PROVE  [Next \/ AfterReturn]_vars
<1>1. CASE startLoop \/ awaitLoop \/ spuriousWakeup \/ destroyUnstarted \/ join \/ publish
           \/ threadReturns \/ Done \/ UNCHANGED allVars
  BY <1>1 DEF startLoop, awaitLoop, spuriousWakeup, destroyUnstarted, join, publish, threadReturns, Done, allVars
<1>2. CASE enterLoop \/ iterate \/ iterateOther
  BY <1>2 DEF enterLoop, iterate, iterateOther, Next
<1>3. CASE loopThreadCalls
  BY <1>3 DEF loopThreadCalls, Next, CallStep, AllThreads
<1>4. CASE destroy
  BY <1>4, OwnerAssumption DEF destroy, Use, AfterReturn, Next, CallStep, AllThreads
<1>5. CASE \E t \in AllThreads : finishCall(t)
  BY <1>5 DEF finishCall, Use, AfterReturn, Next, CallStep
<1>6. CASE \E t \in Threads : userCalls(t)
  BY <1>6 DEF userCalls, Use, AfterReturn, Next, CallStep, AllThreads
<1> QED
  BY <1>1, <1>2, <1>3, <1>4, <1>5, <1>6 DEF ThreadNext, IOThreadStep

\* The handover holds from the start ...
LEMMA HandoverInit == ThreadInit => HandoverInv
  BY SMTT(30), Z3T(30) DEF ThreadInit, HandoverInv, StartedLoopIsPublished

\* ... and every step of the owner, of threadFunc() and of the users keeps it.
LEMMA HandoverStep == HandoverInv /\ [ThreadNext]_allVars => HandoverInv'
<1> SUFFICES ASSUME HandoverInv, [ThreadNext]_allVars PROVE HandoverInv'
  OBVIOUS
<1> USE DEF HandoverInv, StartedLoopIsPublished
<1>1. CASE startLoop
  BY <1>1 DEF startLoop, vars
<1>2. CASE awaitLoop
  BY <1>2 DEF awaitLoop, vars
<1>3. CASE spuriousWakeup
  BY <1>3 DEF spuriousWakeup, vars
<1>4. CASE publish
  BY <1>4 DEF publish, vars
<1>5. CASE enterLoop \/ iterate \/ iterateOther
  BY <1>5 DEF enterLoop, iterate, iterateOther, threadVars
<1>6. CASE threadReturns
  BY <1>6 DEF threadReturns, vars
<1>7. CASE loopThreadCalls
  BY <1>7 DEF loopThreadCalls, threadVars
<1>8. ASSUME thread' = thread, loopPtr' = loopPtr, owner' = owner \/ owner \in {"using", "quitting"},
             owner' # "new" \/ owner = "new", thread = "gone" => pc' = pc
      PROVE  HandoverInv'
  BY <1>8
<1>9. CASE destroy
  BY <1>8, <1>9 DEF destroy, Use
<1>10. CASE join
  BY <1>8, <1>10, SMTT(30), Z3T(30) DEF join, vars
<1>11. CASE \E t \in AllThreads : finishCall(t)
  BY <1>8, <1>11, SMTT(30), Z3T(30) DEF finishCall, Use
<1>12. CASE \E t \in Threads : userCalls(t)
  BY <1>8, <1>12 DEF userCalls, Use
<1>13. CASE UNCHANGED allVars
  BY <1>8, <1>13 DEF allVars, vars, threadVars
<1>14. CASE destroyUnstarted
  BY <1>14 DEF destroyUnstarted, vars
<1> QED
  BY <1>1, <1>2, <1>3, <1>4, <1>5, <1>6, <1>7, <1>9, <1>10, <1>11, <1>12, <1>13, <1>14
  DEF ThreadNext, IOThreadStep, Done

\* startLoop() returns a loop that exists and that callback_ has finished setting up,
\* however the two threads interleave and however often the wait ends by itself.
THEOREM StartLoopIsReady == ThreadSpec => []StartedLoopIsPublished
<1>1. HandoverInv => StartedLoopIsPublished
  BY DEF HandoverInv
<1> QED
  BY <1>1, HandoverInit, HandoverStep, PTL DEF ThreadSpec

\* The loop on the stack of threadFunc() is an EventLoop: all that its owner, its users
\* and threadFunc() do to it are steps of EventLoop, until threadFunc() returns.
THEOREM ThreadRunsLoop == ThreadSpec => Init /\ [][Next \/ AfterReturn]_vars
<1>1. ThreadInit => Init
  BY DEF ThreadInit
<1>2. [ThreadNext]_allVars => [Next \/ AfterReturn]_vars
  BY ThreadStepIsLoopStep
<1> QED
  BY <1>1, <1>2, PTL DEF ThreadSpec

\* No step of the loop or its callers takes a quit() back that loop() has not cleared,
\* nor enters poll() with it.
LEMMA QuitHoldsStep == ASSUME [Next \/ AfterReturn]_vars PROVE QuitHolds
<1> SUFFICES ASSUME Looping, quit PROVE quit' /\ (pc' = "poll" => pc = "poll")
  BY DEF QuitHolds
<1>1. ASSUME NEW t \in AllThreads, queueInLoop(t) \/ runInLoop(t) \/ wakeup(t)
      PROVE  quit' = quit /\ pc' = pc
  BY <1>1, Zenon DEF queueInLoop, runInLoop, wakeup
<1>2. ASSUME NEW t \in AllThreads, quitLoop(t) PROVE quit' /\ pc' = pc
  BY <1>2, Zenon DEF quitLoop
<1>3. CASE loop
  BY <1>3, Zenon DEF loop
<1>4. CASE checkQuit
  BY <1>4 DEF checkQuit
<1>5. ASSUME NEW ready \in SUBSET Channels, pollReturns(ready) PROVE quit' = quit /\ pc' = "handle"
  BY <1>5, Zenon DEF pollReturns
<1>6. CASE handleRead \/ UNCHANGED vars \/ AfterReturn
  BY <1>6, Zenon DEF handleRead, vars, AfterReturn
<1>7. ASSUME NEW c \in Channels, handleEvent(c) PROVE quit' = quit /\ pc' = "inHandler"
  BY <1>7, Zenon DEF handleEvent
<1>8. CASE handlerReturns \/ doPendingFunctors \/ callFunctor \/ functorReturns \/ functorsDone
  BY <1>8, ZenonT(60) DEF handlerReturns, doPendingFunctors, callFunctor, functorReturns, functorsDone
<1> QED
  BY <1>1, <1>2, <1>3, <1>4, <1>5, <1>6, <1>7, <1>8, ZenonT(60)
  DEF Next, LoopStep, CallStep, pollWakeup, pollOther

\* A quit() of a user or of ~EventLoopThread() that comes after loop() has cleared
\* quit_ is not lost: it stays set until loop() returns, loop() enters no further
\* poll(), and out of the poll() it may be in a wakeup gets it.  A quit() before
\* loop() is cleared there, and nothing is said of it.
THEOREM ThreadQuitNotLost == ThreadSpec => []NoLostQuit /\ [][QuitHolds]_allVars
<1>1. ThreadInit => TypeOK /\ NoLostQuit
  BY TypeInit DEF ThreadInit, Init, NoLostQuit
<1>2. TypeOK /\ NoLostQuit /\ HandoverInv /\ [ThreadNext]_allVars => TypeOK' /\ NoLostQuit'
  <2> SUFFICES ASSUME TypeOK, NoLostQuit, HandoverInv, [ThreadNext]_allVars
               PROVE  TypeOK' /\ NoLostQuit'
    OBVIOUS
  <2>1. CASE [Next]_vars
    BY <2>1, TypeStep, QuitStep
  <2>2. CASE AfterReturn
    <3>1. pc = "stopped" /\ pc' = "stopped"
      BY <2>2 DEF AfterReturn, HandoverInv
    <3>2. NoLostQuit'
      BY <3>1 DEF NoLostQuit
    <3>3. TypeOK'
      BY <2>2 DEF AfterReturn, TypeOK
    <3> QED
      BY <3>2, <3>3
  <2> QED
    BY <2>1, <2>2, ThreadStepIsLoopStep
<1>3. [ThreadNext]_allVars => [QuitHolds]_allVars
  BY ThreadStepIsLoopStep, QuitHoldsStep
<1> QED
  BY <1>1, <1>2, <1>3, HandoverInit, HandoverStep, PTL DEF ThreadSpec
=============================================================================
