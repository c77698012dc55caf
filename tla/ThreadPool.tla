----------------------------- MODULE ThreadPool -----------------------------
(***************************************************************************)
(* muduo::ThreadPool with a bounded queue, and the way its test ends it:   *)
(* the last task counts down a CountDownLatch, the main thread waits for   *)
(* the latch and calls stop(), while other threads may still call run().   *)
(*                                                                         *)
(* A critical section of mutex_ is one step; Condition::wait() ends one    *)
(* and, after a notification or for no reason at all, starts another.      *)
(***************************************************************************)
EXTENDS Integers, Sequences, FiniteSets

CONSTANTS Main, Others,     \* the threads that call run()
          Workers,          \* threads_
          maxQueueSize,     \* maxQueueSize_, 0 for no limit
          MaxTasks          \* bound: tasks each thread passes

ASSUME PoolAssumption ==
  /\ Main \notin Others /\ maxQueueSize \in Nat /\ MaxTasks \in Nat

Producers == Others \cup {Main}

\* The last task of the main thread is CountDownLatch::countDown.
latchTask == <<Main, MaxTasks + 1>>
None == <<>>

VARIABLES
  running,                  \* running_
  queue,                    \* queue_
  workerPc,                 \* where each worker is
  task,                     \* the task a worker runs
  producerPc,               \* where each caller of run() is
  calls,                    \* tasks each producer has passed to run()
  count,                    \* count_ of the latch
  accepted,                 \* history: the tasks put on queue_
  taken,                    \* history: the tasks taken from it
  finished                  \* history: the tasks that have returned

vars == <<running, queue, workerPc, task, producerPc, calls, count, accepted, taken, finished>>

Init ==
  /\ running = FALSE /\ queue = <<>> /\ count = 1
  /\ workerPc = [w \in Workers |-> "none"] /\ task = [w \in Workers |-> None]
  /\ producerPc = [p \in Producers |-> IF p = Main THEN "new" ELSE "idle"]
  /\ calls = [p \in Producers |-> 0]
  /\ accepted = <<>> /\ taken = <<>> /\ finished = {}

\* Mutant: one task too many.
isFullLate == maxQueueSize > 0 /\ Len(queue) > maxQueueSize

isFull == maxQueueSize > 0 /\ Len(queue) >= maxQueueSize

Waiting(pc, at) == {t \in DOMAIN pc : pc[t] = at}

\* Condition::notify() and notifyAll(): one of the threads that wait at "from", or
\* all of them, go on at "to".
Notified(pc, from, to) ==
  IF Waiting(pc, from) = {} THEN {pc}
  ELSE {[pc EXCEPT ![t] = to] : t \in Waiting(pc, from)}
AllNotified(pc, from, to) ==
  [t \in DOMAIN pc |-> IF pc[t] = from THEN to ELSE pc[t]]

\* ThreadPool::start; the workers reach the condition of their while loop.
start ==
  /\ producerPc[Main] = "new"
  /\ running' = TRUE
  /\ workerPc' = [w \in Workers |-> "check"]
  /\ producerPc' = [producerPc EXCEPT ![Main] = "idle"]
  /\ UNCHANGED <<queue, task, calls, count, accepted, taken, finished>>

\* ThreadPool::run before start(), when threads_ is empty: the caller runs the task.
runDirectly ==
  /\ producerPc[Main] = "new" /\ calls[Main] < MaxTasks
  /\ calls' = [calls EXCEPT ![Main] = @ + 1]
  /\ finished' = finished \cup {<<Main, calls'[Main]>>}
  /\ UNCHANGED <<running, queue, workerPc, task, producerPc, count, accepted, taken>>

\* A thread enters run().  The main thread passes its tasks and then the latch's;
\* the others stop when the pool is gone.
callRun(p) ==
  /\ producerPc[p] = "idle" /\ producerPc[Main] \notin {"new", "done"}
  /\ calls[p] < (IF p = Main THEN MaxTasks + 1 ELSE MaxTasks)
  /\ calls' = [calls EXCEPT ![p] = @ + 1]
  /\ producerPc' = [producerPc EXCEPT ![p] = "run"]
  /\ UNCHANGED <<running, queue, workerPc, task, count, accepted, taken, finished>>

\* ThreadPool::run with the lock held: wait while the queue is full ...
runWaits(p) ==
  /\ producerPc[p] = "run" /\ isFull
  /\ producerPc' = [producerPc EXCEPT ![p] = "notFull"]
  /\ UNCHANGED <<running, queue, workerPc, task, calls, count, accepted, taken, finished>>

\* ... or put the task on it and notify one worker.
runPuts(p) ==
  LET t == <<p, calls[p]>>
  IN /\ producerPc[p] = "run" /\ ~isFull
     /\ queue' = Append(queue, t) /\ accepted' = Append(accepted, t)
     /\ workerPc' \in Notified(workerPc, "notEmpty", "take")
     /\ producerPc' = [producerPc EXCEPT ![p] = IF t = latchTask THEN "latch" ELSE "idle"]
     /\ UNCHANGED <<running, task, calls, count, taken, finished>>

\* runInThread: the while condition is read without the lock.
workerChecks(w) ==
  /\ workerPc[w] = "check"
  /\ workerPc' = [workerPc EXCEPT ![w] = IF running THEN "take" ELSE "exited"]
  /\ UNCHANGED <<running, queue, task, producerPc, calls, count, accepted, taken, finished>>

\* ThreadPool::take: wait for a task ...
takeWaits(w) ==
  /\ workerPc[w] = "take" /\ queue = <<>> /\ running
  /\ workerPc' = [workerPc EXCEPT ![w] = "notEmpty"]
  /\ UNCHANGED <<running, queue, task, producerPc, calls, count, accepted, taken, finished>>

\* ... return an empty one when the pool is stopped and the queue is empty ...
takeNothing(w) ==
  /\ workerPc[w] = "take" /\ queue = <<>> /\ ~running
  /\ workerPc' = [workerPc EXCEPT ![w] = "check"]
  /\ UNCHANGED <<running, queue, task, producerPc, calls, count, accepted, taken, finished>>

\* Mutant: nobody is told that there is room.
notifyNobody(pc) == {pc}

\* ... or take the first and notify one thread that waits in run().
notifyNotFull(pc) == IF maxQueueSize > 0 THEN Notified(pc, "notFull", "run") ELSE {pc}

takeTask(w) ==
  /\ workerPc[w] = "take" /\ queue # <<>>
  /\ task' = [task EXCEPT ![w] = Head(queue)]
  /\ queue' = Tail(queue) /\ taken' = Append(taken, Head(queue))
  /\ producerPc' \in notifyNotFull(producerPc)
  /\ workerPc' = [workerPc EXCEPT ![w] = "task"]
  /\ UNCHANGED <<running, calls, count, accepted, finished>>

\* The task returns.  CountDownLatch::countDown notifies its waiters at zero.
taskReturns(w) ==
  /\ workerPc[w] = "task"
  /\ finished' = finished \cup {task[w]}
  /\ count' = IF task[w] = latchTask THEN count - 1 ELSE count
  /\ producerPc' = IF count' = 0 THEN AllNotified(producerPc, "latchWait", "latch") ELSE producerPc
  /\ task' = [task EXCEPT ![w] = None]
  /\ workerPc' = [workerPc EXCEPT ![w] = "check"]
  /\ UNCHANGED <<running, queue, calls, accepted, taken>>

\* CountDownLatch::wait
latchWaits ==
  /\ producerPc[Main] = "latch"
  /\ producerPc' = [producerPc EXCEPT ![Main] = IF count > 0 THEN "latchWait" ELSE "stop"]
  /\ UNCHANGED <<running, queue, workerPc, task, calls, count, accepted, taken, finished>>

\* Mutant: one worker is notified.
stopNotifiesOne ==
  /\ producerPc[Main] = "stop"
  /\ running' = FALSE
  /\ workerPc' \in Notified(workerPc, "notEmpty", "take")
  /\ producerPc' = [producerPc EXCEPT ![Main] = "join"]
  /\ UNCHANGED <<queue, task, calls, count, accepted, taken, finished>>

\* ThreadPool::stop: the critical section
stop ==
  /\ producerPc[Main] = "stop"
  /\ running' = FALSE
  /\ workerPc' = AllNotified(workerPc, "notEmpty", "take")
  /\ producerPc' = [producerPc EXCEPT ![Main] = "join"]
  /\ UNCHANGED <<queue, task, calls, count, accepted, taken, finished>>

\* ThreadPool::stop: Thread::join of every worker
joined == \A w \in Workers : workerPc[w] = "exited"
join ==
  /\ producerPc[Main] = "join" /\ joined
  /\ producerPc' = [producerPc EXCEPT ![Main] = "done"]
  /\ UNCHANGED <<running, queue, workerPc, task, calls, count, accepted, taken, finished>>

\* pthread_cond_wait(3) may return without a notification.
spuriousWakeup ==
  /\ \/ \E w \in Workers : /\ workerPc[w] = "notEmpty"
                           /\ workerPc' = [workerPc EXCEPT ![w] = "take"]
                           /\ UNCHANGED producerPc
     \/ \E p \in Producers : /\ producerPc[p] \in {"notFull", "latchWait"}
                             /\ producerPc' = [producerPc EXCEPT ![p] =
                                                 IF @ = "notFull" THEN "run" ELSE "latch"]
                             /\ UNCHANGED workerPc
  /\ UNCHANGED <<running, queue, task, calls, count, accepted, taken, finished>>

worker(w) == workerChecks(w) \/ takeWaits(w) \/ takeNothing(w) \/ takeTask(w) \/ taskReturns(w)
inRun(p) == runWaits(p) \/ runPuts(p)
main == start \/ callRun(Main) \/ latchWaits \/ stop \/ join

Next ==
  \/ main \/ runDirectly \/ spuriousWakeup
  \/ \E p \in Producers : inRun(p)
  \/ \E p \in Others : callRun(p)
  \/ \E w \in Workers : worker(w)

Spec == Init /\ [][Next]_vars

\* Every thread that can run does so in the end and tasks return; nobody is
\* obliged to call run(), and no wait ends by itself.
FairSpec ==
  /\ Spec /\ WF_vars(main)
  /\ \A p \in Producers : WF_vars(inRun(p))
  /\ \A w \in Workers : WF_vars(worker(w))
-----------------------------------------------------------------------------
\* Each accepted task is taken once and in order, whoever is woken, and the queue
\* never exceeds maxQueueSize_: the assert(!isFull()) of run() after its wait.
\* When stop() has returned after the latch, every task the main thread passed
\* has run to its end: a latch that opened with its other tasks still running
\* does not let the pool go before them.
TasksInOrder ==
  /\ taken \o queue = accepted
  /\ maxQueueSize > 0 => Len(queue) <= maxQueueSize
  /\ producerPc[Main] = "done" => {Main} \X (1 .. MaxTasks + 1) \subseteq finished

\* The main thread gets through its run() calls, the latch and stop(): no wakeup
\* of a worker or of the latch is lost, and stop() reaches every worker.
StopReturns == <>(producerPc[Main] = "done")

\* A thread that waits in run() for room gets it unless the pool is stopped:
\* stop() notifies notEmpty_ only.
RunReturns ==
  \A p \in Producers : producerPc[p] = "notFull" ~> producerPc[p] # "notFull" \/ ~running
=============================================================================
