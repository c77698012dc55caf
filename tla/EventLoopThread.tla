--------------------------- MODULE EventLoopThread ---------------------------
(***************************************************************************)
(* muduo::net::EventLoopThread: a thread whose function keeps an EventLoop *)
(* on its stack, publishes it to startLoop() through mutex_ and cond_, and *)
(* runs it until the destructor asks it to quit and joins the thread.      *)
(* The loop is the one of EventLoop, with LoopThread as the new thread.    *)
(***************************************************************************)
EXTENDS EventLoop

CONSTANT Owner   \* the thread that creates and destroys the EventLoopThread

ASSUME OwnerAssumption == Owner \in Threads

VARIABLES
  thread,     \* threadFunc: not started, before loop_ = &loop, after it, returned
  loopPtr,    \* loop_ # NULL
  owner,      \* the owner: in startLoop(), between the calls, in or after the destructor
  dangling    \* history: was the loop used after threadFunc returned?

threadVars == <<thread, loopPtr, owner, dangling>>
allVars == <<vars, threadVars>>

ThreadInit ==
  /\ Init
  /\ thread = "none" /\ loopPtr = FALSE /\ owner = "new" /\ dangling = FALSE

-----------------------------------------------------------------------------
(* startLoop() *)

\* assert(!thread_.started()); thread_.start(); the lock is taken.
startLoop ==
  /\ owner = "new" /\ owner' = "locked"
  /\ thread' = "init"
  /\ UNCHANGED <<vars, loopPtr, dangling>>

\* while (loop_ == NULL) cond_.wait();
awaitLoop ==
  /\ owner = "locked"
  /\ owner' = IF loopPtr THEN "using" ELSE "waiting"
  /\ UNCHANGED <<vars, thread, loopPtr, dangling>>

\* Mutant: an if in the place of the while.
spuriousReturn ==
  /\ owner = "waiting" /\ owner' = "using"
  /\ UNCHANGED <<vars, thread, loopPtr, dangling>>

\* pthread_cond_wait may return without a signal.
spuriousWakeup ==
  /\ owner = "waiting" /\ owner' = "locked"
  /\ UNCHANGED <<vars, thread, loopPtr, dangling>>

-----------------------------------------------------------------------------
(* threadFunc() *)

\* Mutant: no cond_.notify().
publishQuietly ==
  /\ thread = "init" /\ LoopThread \notin waking
  /\ thread' = "published" /\ loopPtr' = TRUE
  /\ UNCHANGED <<vars, owner, dangling>>

\* callback_ has returned; { lock; loop_ = &loop; cond_.notify(); }
publish ==
  /\ thread = "init" /\ LoopThread \notin waking
  /\ thread' = "published" /\ loopPtr' = TRUE
  /\ owner' = IF owner = "waiting" THEN "locked" ELSE owner
  /\ UNCHANGED <<vars, dangling>>

\* loop.loop();
enterLoop == thread = "published" /\ pc = "ready" /\ loop /\ UNCHANGED threadVars

iterate == thread = "published" /\ LoopStep /\ UNCHANGED threadVars

iterateOther == thread = "published" /\ pollOther /\ UNCHANGED threadVars

\* loop() has returned: the EventLoop on the stack is destroyed.
threadReturns ==
  /\ thread = "published" /\ pc = "stopped"
  /\ thread' = "gone"
  /\ UNCHANGED <<vars, loopPtr, owner, dangling>>

-----------------------------------------------------------------------------
(* Uses of the loop *)

\* t uses the EventLoop; once it is destroyed that is a use of a dead object.
Use(t, call) ==
  IF thread # "gone"
  THEN call /\ UNCHANGED dangling
  ELSE /\ dangling' = TRUE /\ waking' = waking \ {t}
       /\ UNCHANGED <<pc, quit, wakeupFd, active, pendingFunctors,
                      callingPendingFunctors, functors, calls, ran>>

\* callback_, a channel's callback or a functor calls into its own loop.
loopThreadCalls ==
  /\ thread = "init" \/ (thread = "published" /\ Looping)
  /\ queueInLoop(LoopThread) \/ runInLoop(LoopThread) \/ quitLoop(LoopThread)
  /\ UNCHANGED threadVars

\* Threads that got the pointer from startLoop() call into the loop, others than
\* the owner also while it is in the destructor.
userCalls(t) ==
  /\ owner = "using" \/ (owner = "quitting" /\ t # Owner)
  /\ t \notin waking
  /\ Use(t, queueInLoop(t) \/ runInLoop(t) \/ quitLoop(t))
  /\ UNCHANGED <<thread, loopPtr, owner>>

finishCall(t) ==
  /\ t \in waking
  /\ Use(t, wakeup(t))
  /\ UNCHANGED <<thread, loopPtr, owner>>

\* ~EventLoopThread() without a startLoop(): loop_ is NULL, and loop_->quit() ends
\* the process.
destroyUnstarted ==
  /\ owner = "new" /\ owner' = "crashed"
  /\ UNCHANGED <<vars, thread, loopPtr, dangling>>

\* ~EventLoopThread(): loop_->quit(), in which other threads may be as well ...
destroy ==
  /\ owner = "using" /\ Owner \notin waking
  /\ Use(Owner, quitLoop(Owner))
  /\ owner' = "quitting"
  /\ UNCHANGED <<thread, loopPtr>>

\* ... and, when quit() has returned, thread_.join().
join ==
  /\ owner = "quitting" /\ Owner \notin waking
  /\ thread = "gone"
  /\ owner' = "joined"
  /\ UNCHANGED <<vars, thread, loopPtr, dangling>>

-----------------------------------------------------------------------------
IOThreadStep == publish \/ enterLoop \/ iterate \/ threadReturns

Done == owner \in {"joined", "crashed"} /\ UNCHANGED allVars

ThreadNext ==
  \/ startLoop \/ awaitLoop \/ spuriousWakeup \/ destroyUnstarted \/ destroy \/ join
  \/ IOThreadStep \/ iterateOther \/ loopThreadCalls
  \/ \E t \in AllThreads : finishCall(t)
  \/ \E t \in Threads : userCalls(t)
  \/ Done

ThreadSpec == ThreadInit /\ [][ThreadNext]_allVars

\* Threads are scheduled; callback_ and the user's callbacks return.  Nothing
\* forces the owner to call startLoop() or to destroy the object.
FairThreadSpec ==
  /\ ThreadSpec
  /\ WF_allVars(IOThreadStep) /\ WF_allVars(awaitLoop) /\ WF_allVars(join)
  /\ \A t \in AllThreads : WF_allVars(finishCall(t))

-----------------------------------------------------------------------------
(* Properties *)

\* startLoop() never hands out a NULL pointer or a loop that is still being
\* set up by callback_, although the wait may end without a signal.
StartedLoopIsPublished ==
  owner \in {"using", "quitting", "joined"} =>
     loopPtr /\ thread \in {"published", "gone"}

\* startLoop() returns: the notification is not lost, whichever of the two
\* threads takes mutex_ first.
StartLoopReturns == (owner = "locked") ~> (owner = "using")

\* Once quit_ is set while the loop runs, the destructor's join() returns.
QuitWhileLoopingJoins ==
  (owner = "quitting" /\ quit /\ pc # "ready") ~> (owner = "joined")

=============================================================================
