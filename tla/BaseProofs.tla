----------------------------- MODULE BaseProofs -----------------------------
(***************************************************************************)
(* Proofs about Buffer for any sizes and any bytes, and about ThreadPool   *)
(* for any workers, callers of run(), number of tasks and size of the      *)
(* queue.                                                                  *)
(***************************************************************************)
EXTENDS Buffer, ThreadPool, SequenceTheorems, TLAPS

-----------------------------------------------------------------------------
(* ThreadPool: sequences *)

\* The first element of the second sequence may as well end the first.
LEMMA ShiftConcat ==
  ASSUME NEW S, NEW s \in Seq(S), NEW q \in Seq(S), q # <<>>
  PROVE  Append(s, Head(q)) \o Tail(q) = s \o q
<1> DEFINE a == Append(s, Head(q))
           t == Tail(q)
           m == Len(s)
           n == Len(q)
<1>1. /\ m \in Nat /\ n \in Nat \ {0} /\ Head(q) = q[1]
      /\ t \in Seq(S) /\ Len(t) = n - 1 /\ \A i \in 1 .. n - 1 : t[i] = q[i + 1]
  OBVIOUS
<1>2. /\ a \in Seq(S) /\ Len(a) = m + 1 /\ a[m + 1] = q[1] /\ \A i \in 1 .. m : a[i] = s[i]
  BY <1>1
<1> HIDE DEF a, t
<1>3. /\ a \o t \in Seq(S) /\ Len(a \o t) = m + n
      /\ \A i \in 1 .. m + n : (a \o t)[i] = IF i <= m + 1 THEN a[i] ELSE t[i - (m + 1)]
  <2>1. /\ a \o t \in Seq(S) /\ Len(a \o t) = Len(a) + Len(t)
        /\ \A i \in 1 .. Len(a) + Len(t) : (a \o t)[i] = IF i <= Len(a) THEN a[i] ELSE t[i - Len(a)]
    BY <1>1, <1>2, ConcatProperties, ZenonT(60)
  <2>2. Len(a) + Len(t) = m + n
    BY <1>1, <1>2
  <2> QED
    BY <1>2, <2>1, <2>2, SMTT(30), Z3T(30)
<1>4. /\ s \o q \in Seq(S) /\ Len(s \o q) = m + n
      /\ \A i \in 1 .. m + n : (s \o q)[i] = IF i <= m THEN s[i] ELSE q[i - m]
  BY ConcatProperties
<1>0. m \in Nat /\ n \in Nat /\ n > 0
  BY <1>1
<1> HIDE DEF m, n
<1>5. \A i \in 1 .. m + n : (a \o t)[i] = (s \o q)[i]
  <2> SUFFICES ASSUME NEW i \in 1 .. m + n PROVE (a \o t)[i] = (s \o q)[i]
    BY Zenon
  <2>1. CASE i <= m
    <3>1. (a \o t)[i] = a[i] /\ (s \o q)[i] = s[i] /\ i \in 1 .. m
      BY <1>1, <1>3, <1>4, <2>1, SMTT(30), Z3T(30)
    <3> QED
      BY <1>2, <3>1
  <2>2. CASE i = m + 1
    <3>1. (a \o t)[i] = a[m + 1] /\ (s \o q)[i] = q[1]
      <4>1. i <= m + 1 /\ ~(i <= m) /\ i - m = 1
        BY <1>0, <2>2
      <4> QED
        BY <1>3, <1>4, <2>2, <4>1, Zenon
    <3> QED
      BY <1>2, <3>1
  <2>3. CASE i > m + 1
    <3>1. (a \o t)[i] = t[i - (m + 1)] /\ (s \o q)[i] = q[i - m]
      <4>1. ~(i <= m + 1) /\ ~(i <= m)
        BY <1>0, <2>3
      <4> QED
        BY <1>3, <1>4, <4>1, Zenon
    <3>2. i - (m + 1) \in 1 .. n - 1 /\ (i - (m + 1)) + 1 = i - m
      BY <1>0, <2>3
    <3> QED
      BY <1>1, <3>1, <3>2, Zenon
  <2>4. i <= m \/ i = m + 1 \/ i > m + 1
    BY <1>0
  <2> QED
    BY <2>1, <2>2, <2>3, <2>4, Zenon
<1>6. a \o t = s \o q
  BY <1>3, <1>4, <1>5, SeqEqual, Zenon
<1> QED
  BY <1>6, SMTT(30), Z3T(30) DEF a, t
-----------------------------------------------------------------------------

Tasks == Producers \X Nat
InRun == {"run", "notFull"}
Passing == {"new", "idle"} \cup InRun
Stopping == {"stop", "join", "done"}
Ended == {"latch", "latchWait"} \cup Stopping

Places == {"none", "check", "take", "notEmpty", "task", "exited"}

TypeInv ==
  /\ queue \in Seq(Tasks) /\ accepted \in Seq(Tasks) /\ taken \in Seq(Tasks)
  /\ workerPc \in [Workers -> Places]
  /\ task \in [Workers -> Tasks \cup {None}]
  /\ producerPc \in [Producers -> Passing \cup Ended]
  /\ calls \in [Producers -> Nat] /\ count \in Int

\* The queue is what was accepted and not taken, and fits.
QueueInv ==
  /\ taken \o queue = accepted
  /\ maxQueueSize > 0 => Len(queue) <= maxQueueSize

\* Where the threads are: a worker has a task while it runs one, there are no
\* workers before start() and none after stop(), and the main thread has passed
\* all its tasks when it waits for the latch.
PlaceInv ==
  /\ \A w \in Workers : workerPc[w] = "task" <=> task[w] # None
  /\ producerPc[Main] = "new" => calls[Main] <= MaxTasks /\ \A w \in Workers : workerPc[w] = "none"
  /\ producerPc[Main] = "idle" => calls[Main] <= MaxTasks
  /\ producerPc[Main] \in InRun => calls[Main] <= MaxTasks + 1
  /\ producerPc[Main] \in Ended => calls[Main] = MaxTasks + 1
  /\ producerPc[Main] = "done" => \A w \in Workers : workerPc[w] = "exited"

Waits(t) == \E i \in 1 .. Len(queue) : queue[i] = t
Runs(t) == \E w \in Workers : task[w] = t

\* A task of the main thread is about to be put on the queue, on it, with a
\* worker, or finished.
FateInv ==
  \A j \in 1 .. calls[Main] :
    \/ <<Main, j>> \in finished \/ Waits(<<Main, j>>) \/ Runs(<<Main, j>>)
    \/ producerPc[Main] \in InRun /\ j = calls[Main]

\* The latch's task is the last of the main thread, in the queue too, and the
\* latch is open only when that task has run.
LatchInv ==
  /\ \A i, j \in 1 .. Len(queue) : i < j /\ queue[i] = latchTask => queue[j][1] # Main
  /\ latchTask \in finished \/ Runs(latchTask) => \A j \in 1 .. Len(queue) : queue[j][1] # Main
  /\ producerPc[Main] \in Passing =>
       latchTask \notin finished /\ ~Runs(latchTask) /\ ~Waits(latchTask)
  /\ count <= 0 => latchTask \in finished
  /\ producerPc[Main] \in Stopping => latchTask \in finished

IInv == TypeInv /\ QueueInv /\ PlaceInv /\ FateInv /\ LatchInv

-----------------------------------------------------------------------------
(* Notifications *)

\* Some threads of T at "from" go on at "to".
Moved(T, pc, r, from, to) == \A t \in T : r[t] = pc[t] \/ (pc[t] = from /\ r[t] = to)

\* What notify() does to the places of the threads.
LEMMA NotifiedIs ==
  ASSUME NEW T, NEW P, NEW pc \in [T -> P], NEW from, NEW to \in P, NEW r \in Notified(pc, from, to)
  PROVE  r \in [T -> P] /\ Moved(T, pc, r, from, to)
<1>1. CASE r = pc
  BY <1>1 DEF Moved
<1>2. CASE \E t \in Waiting(pc, from) : r = [pc EXCEPT ![t] = to]
  BY <1>2 DEF Waiting, Moved
<1> QED
  BY <1>1, <1>2 DEF Notified

\* What notifyAll() does to them.
LEMMA AllNotifiedIs ==
  ASSUME NEW T, NEW P, NEW pc \in [T -> P], NEW from, NEW to \in P
  PROVE  /\ AllNotified(pc, from, to) \in [T -> P]
         /\ Moved(T, pc, AllNotified(pc, from, to), from, to)
  BY DEF AllNotified, Moved

\* The main thread is one of those that call run().
LEMMA MainIs == Main \in Producers /\ MaxTasks \in Nat /\ latchTask = <<Main, MaxTasks + 1>>
  BY PoolAssumption DEF Producers, latchTask

-----------------------------------------------------------------------------
(* The steps *)

\* A new pool satisfies the invariant.
LEMMA InitInv == Init => IInv
<1> SUFFICES ASSUME Init PROVE IInv
  OBVIOUS
<1>1. TypeInv
  BY DEF Init, TypeInv, Places, Passing, Ended, InRun, Stopping
<1>2. QueueInv
  BY PoolAssumption, ConcatEmptySeq DEF Init, QueueInv
<1>3. producerPc[Main] = "new" /\ calls[Main] = 0 /\ Len(queue) = 0
  BY MainIs DEF Init
<1>4. PlaceInv
  BY <1>3, MainIs DEF Init, PlaceInv, InRun, Ended, Stopping
<1>5. FateInv
  BY <1>3 DEF FateInv
<1>6. LatchInv
  BY <1>3, MainIs DEF Init, LatchInv, Waits, Runs, Passing, Stopping, None
<1> QED
  BY <1>1, <1>2, <1>4, <1>5, <1>6 DEF IInv

\* A step that moves no task: the main thread stays in its phase or goes on.
LEMMA MoveInv ==
  ASSUME IInv, UNCHANGED <<queue, accepted, taken, task, calls, finished, count>>,
         TypeInv', PlaceInv',
         producerPc'[Main] \in InRun <=> producerPc[Main] \in InRun,
         producerPc'[Main] \in Passing <=> producerPc[Main] \in Passing,
         producerPc'[Main] \in Stopping => producerPc[Main] \in Stopping \/ count <= 0
  PROVE  IInv'
<1>1. QueueInv'
  BY DEF IInv, QueueInv
<1>2. FateInv'
  BY Zenon DEF IInv, FateInv, Waits, Runs
<1>3. LatchInv'
  BY DEF IInv, LatchInv, Waits, Runs, latchTask
<1> QED
  BY <1>1, <1>2, <1>3 DEF IInv

\* start(), the latch, stop() and join
LEMMA MainInv ==
  ASSUME IInv, start \/ latchWaits \/ stop \/ join
  PROVE  IInv'
<1> USE MainIs DEF InRun, Passing, Ended, Stopping
<1>1. TypeInv /\ PlaceInv
  BY DEF IInv
<1>2. UNCHANGED <<queue, accepted, taken, task, calls, finished, count>>
  BY DEF start, latchWaits, stop, join
<1>3. CASE start
  <2>1. producerPc' \in [Producers -> Passing \cup Ended] /\ producerPc'[Main] = "idle"
    BY <1>1, <1>3 DEF start, TypeInv
  <2>2. TypeInv'
    BY <1>1, <1>2, <1>3, <2>1 DEF start, TypeInv, Places
  <2>3. PlaceInv'
    BY <1>1, <1>2, <1>3, <2>1 DEF start, PlaceInv
  <2> QED
    BY <1>2, <1>3, <2>1, <2>2, <2>3, MoveInv, SMTT(30), Z3T(30) DEF start
<1>4. CASE latchWaits
  <2>1. /\ producerPc[Main] = "latch" /\ producerPc' \in [Producers -> Passing \cup Ended]
        /\ producerPc'[Main] = IF count > 0 THEN "latchWait" ELSE "stop"
        /\ UNCHANGED workerPc
    BY <1>1, <1>4 DEF latchWaits, TypeInv
  <2>2. TypeInv'
    BY <1>1, <1>2, <2>1 DEF TypeInv
  <2>3. PlaceInv'
    BY <1>1, <1>2, <2>1 DEF PlaceInv
  <2> QED
    BY <1>1, <1>2, <2>1, <2>2, <2>3, MoveInv DEF TypeInv
<1>5. CASE stop
  <2>1. /\ producerPc[Main] = "stop" /\ producerPc' \in [Producers -> Passing \cup Ended]
        /\ producerPc'[Main] = "join"
    BY <1>1, <1>5 DEF stop, TypeInv
  <2>2. /\ workerPc' \in [Workers -> Places]
        /\ \A w \in Workers : workerPc'[w] = workerPc[w] \/ (workerPc[w] = "notEmpty" /\ workerPc'[w] = "take")
    <3>1. workerPc' = AllNotified(workerPc, "notEmpty", "take") /\ workerPc \in [Workers -> Places]
      BY <1>1, <1>5 DEF stop, TypeInv
    <3>2. "take" \in Places
      BY DEF Places
    <3> QED
      BY <3>1, <3>2, AllNotifiedIs DEF Moved
  <2>3. TypeInv'
    BY <1>1, <1>2, <2>1, <2>2 DEF TypeInv
  <2>4. PlaceInv'
    BY <1>1, <1>2, <2>1, <2>2 DEF PlaceInv
  <2> QED
    BY <1>2, <2>1, <2>3, <2>4, MoveInv
<1>6. CASE join
  <2>1. /\ producerPc[Main] = "join" /\ producerPc' \in [Producers -> Passing \cup Ended]
        /\ producerPc'[Main] = "done" /\ joined /\ UNCHANGED workerPc
    BY <1>1, <1>6 DEF join, TypeInv
  <2>2. TypeInv'
    BY <1>1, <1>2, <2>1 DEF TypeInv
  <2>3. PlaceInv'
    BY <1>1, <1>2, <2>1 DEF PlaceInv, joined
  <2> QED
    BY <1>2, <2>1, <2>2, <2>3, MoveInv
<1> QED
  BY <1>3, <1>4, <1>5, <1>6

\* Waits that end by themselves, and run() when the queue is full
LEMMA WaitInv ==
  ASSUME IInv, spuriousWakeup \/ \E p \in Producers : runWaits(p)
  PROVE  IInv'
<1> USE MainIs DEF InRun, Passing, Ended, Stopping
<1>1. TypeInv /\ PlaceInv
  BY DEF IInv
<1>2. UNCHANGED <<queue, accepted, taken, task, calls, finished, count>>
  BY DEF spuriousWakeup, runWaits
<1>3. /\ workerPc' \in [Workers -> Places]
      /\ \A w \in Workers : workerPc'[w] = workerPc[w] \/ (workerPc[w] = "notEmpty" /\ workerPc'[w] = "take")
  BY <1>1, Zenon DEF spuriousWakeup, runWaits, TypeInv, Places
<1>4. /\ producerPc' \in [Producers -> Passing \cup Ended]
      /\ \/ producerPc'[Main] = producerPc[Main]
         \/ producerPc[Main] \in InRun /\ producerPc'[Main] \in InRun
         \/ producerPc[Main] = "latchWait" /\ producerPc'[Main] = "latch"
  BY <1>1, Zenon DEF spuriousWakeup, runWaits, TypeInv
<1>5. TypeInv'
  BY <1>1, <1>2, <1>3, <1>4 DEF TypeInv
<1>6. PlaceInv'
  BY <1>1, <1>2, <1>3, <1>4 DEF PlaceInv
<1> QED
  BY <1>2, <1>4, <1>5, <1>6, MoveInv

\* A worker that checks running_, waits for a task or finds none
LEMMA WorkerInv ==
  ASSUME IInv, NEW w \in Workers, workerChecks(w) \/ takeWaits(w) \/ takeNothing(w)
  PROVE  IInv'
<1>1. TypeInv /\ PlaceInv
  BY DEF IInv
<1>2. UNCHANGED <<queue, accepted, taken, task, calls, finished, count, producerPc>>
  BY DEF workerChecks, takeWaits, takeNothing
<1>3. /\ workerPc' \in [Workers -> Places] /\ workerPc[w] \in {"check", "take"}
      /\ workerPc'[w] \in {"check", "take", "notEmpty", "exited"}
      /\ \A v \in Workers \ {w} : workerPc'[v] = workerPc[v]
  BY <1>1, Zenon DEF workerChecks, takeWaits, takeNothing, TypeInv, Places
<1>4. TypeInv'
  BY <1>1, <1>2, <1>3 DEF TypeInv
<1>5. PlaceInv'
  BY <1>1, <1>2, <1>3 DEF PlaceInv
<1> QED
  BY <1>2, <1>4, <1>5, MoveInv

\* A thread enters run().
LEMMA CallInv ==
  ASSUME IInv, NEW p \in Producers, callRun(p)
  PROVE  IInv'
<1> USE MainIs DEF InRun, Passing, Ended, Stopping
<1>1. TypeInv /\ PlaceInv /\ FateInv /\ LatchInv /\ QueueInv
  BY DEF IInv
<1>2. UNCHANGED <<queue, workerPc, accepted, taken, task, finished, count>>
  BY DEF callRun
<1>3. /\ producerPc' \in [Producers -> Passing \cup Ended] /\ calls' \in [Producers -> Nat]
      /\ p # Main => producerPc'[Main] = producerPc[Main] /\ calls'[Main] = calls[Main]
      /\ p = Main => /\ producerPc[Main] = "idle" /\ producerPc'[Main] = "run"
                     /\ calls'[Main] = calls[Main] + 1 /\ calls[Main] <= MaxTasks
  BY <1>1, SMTT(30), Z3T(30) DEF callRun, TypeInv, PlaceInv
<1>4. TypeInv'
  BY <1>1, <1>2, <1>3 DEF TypeInv
<1>5. QueueInv'
  BY <1>1, <1>2 DEF QueueInv
<1>6. PlaceInv'
  BY <1>1, <1>2, <1>3, SMTT(30), Z3T(30) DEF PlaceInv, TypeInv
<1>7. FateInv'
  <2>1. \A t : Waits(t)' = Waits(t) /\ Runs(t)' = Runs(t)
    BY <1>2 DEF Waits, Runs
  <2>2. calls[Main] \in Nat
    BY <1>1, Zenon DEF TypeInv
  <2>3. CASE p # Main
    BY <1>1, <1>2, <1>3, <2>1, <2>3 DEF FateInv
  <2>4. CASE p = Main
    BY <1>1, <1>2, <1>3, <2>1, <2>2, <2>4, SMTT(30), Z3T(30) DEF FateInv
  <2> QED
    BY <2>3, <2>4
<1>8. LatchInv'
  <2>1. Waits(latchTask)' = Waits(latchTask) /\ Runs(latchTask)' = Runs(latchTask)
    BY <1>2 DEF Waits, Runs, latchTask
  <2>2. producerPc'[Main] \in Passing => producerPc[Main] \in Passing
    BY <1>3
  <2>3. producerPc'[Main] \in Stopping => producerPc[Main] \in Stopping
    BY <1>3
  <2> QED
    BY <1>1, <1>2, <2>1, <2>2, <2>3 DEF LatchInv, latchTask
<1> QED
  BY <1>4, <1>5, <1>6, <1>7, <1>8 DEF IInv

\* run() before start(): the caller runs the task.
LEMMA DirectInv ==
  ASSUME IInv, runDirectly
  PROVE  IInv'
<1> USE MainIs DEF InRun, Passing, Ended, Stopping
<1>1. TypeInv /\ PlaceInv /\ FateInv /\ LatchInv /\ QueueInv
  BY DEF IInv
<1>2. UNCHANGED <<queue, workerPc, producerPc, accepted, taken, task, count>>
  BY DEF runDirectly
<1>3. /\ producerPc[Main] = "new" /\ calls[Main] \in Nat /\ calls[Main] < MaxTasks
      /\ calls' \in [Producers -> Nat] /\ calls'[Main] = calls[Main] + 1
      /\ finished' = finished \cup {<<Main, calls[Main] + 1>>}
  BY <1>1 DEF runDirectly, TypeInv
<1>4. TypeInv'
  BY <1>1, <1>2, <1>3, SMTT(30), Z3T(30) DEF TypeInv
<1>5. QueueInv'
  BY <1>1, <1>2 DEF QueueInv
<1>6. PlaceInv'
  BY <1>1, <1>2, <1>3 DEF PlaceInv
<1>7. \A t : Waits(t)' = Waits(t) /\ Runs(t)' = Runs(t)
  BY <1>2 DEF Waits, Runs
<1>8. FateInv'
  BY <1>1, <1>2, <1>3, <1>7, SMTT(30), Z3T(30) DEF FateInv
<1>9. LatchInv'
  <2>1. latchTask \in finished' <=> latchTask \in finished
    BY <1>3, SMTT(30), Z3T(30)
  <2> QED
    BY <1>1, <1>2, <1>7, <2>1 DEF LatchInv
<1> QED
  BY <1>4, <1>5, <1>6, <1>8, <1>9 DEF IInv

\* run() puts a task on the queue.
LEMMA PutInv ==
  ASSUME IInv, NEW p \in Producers, runPuts(p)
  PROVE  IInv'
<1> USE MainIs
<1> DEFINE t == <<p, calls[p]>>
           n == Len(queue)
<1>1. TypeInv /\ PlaceInv /\ FateInv /\ LatchInv /\ QueueInv
  BY DEF IInv
<1>2. /\ UNCHANGED <<task, calls, count, taken, finished>> /\ producerPc[p] = "run" /\ ~isFull
      /\ queue' = Append(queue, t) /\ accepted' = Append(accepted, t)
      /\ workerPc' \in Notified(workerPc, "notEmpty", "take")
      /\ producerPc' = [producerPc EXCEPT ![p] = IF t = latchTask THEN "latch" ELSE "idle"]
  BY DEF runPuts
<1>3. t \in Tasks /\ t[1] = p /\ (t = latchTask <=> p = Main /\ calls[Main] = MaxTasks + 1) /\ n \in Nat
  BY <1>1 DEF TypeInv, Tasks
<1>4. /\ workerPc' \in [Workers -> Places]
      /\ \A w \in Workers : workerPc'[w] = workerPc[w] \/ (workerPc[w] = "notEmpty" /\ workerPc'[w] = "take")
  <2>1. workerPc \in [Workers -> Places] /\ "take" \in Places
    BY <1>1 DEF TypeInv, Places
  <2>2. workerPc' \in [Workers -> Places] /\ Moved(Workers, workerPc, workerPc', "notEmpty", "take")
    BY <1>2, <2>1, NotifiedIs, Zenon
  <2> QED
    BY <2>2 DEF Moved
<1>5. /\ producerPc' \in [Producers -> Passing \cup Ended]
      /\ p # Main => producerPc'[Main] = producerPc[Main]
      /\ p = Main => /\ producerPc[Main] = "run"
                     /\ producerPc'[Main] = IF calls[Main] = MaxTasks + 1 THEN "latch" ELSE "idle"
  BY <1>1, <1>2, <1>3, Zenon DEF TypeInv, Passing, Ended, InRun, Stopping
<1> HIDE DEF t, n
<1>6. /\ queue' \in Seq(Tasks) /\ accepted' \in Seq(Tasks) /\ Len(queue') = n + 1 /\ queue'[n + 1] = t
      /\ \A i \in 1 .. n : queue'[i] = queue[i]
  BY <1>1, <1>2, <1>3, SMTT(30), Z3T(30) DEF TypeInv, n
<1>7. TypeInv'
  BY <1>1, <1>2, <1>4, <1>5, <1>6, SMTT(30), Z3T(30) DEF TypeInv
<1>8. QueueInv'
  <2>1. taken \o Append(queue, t) = Append(taken \o queue, t)
    BY <1>1, <1>3, SMTT(30), Z3T(30) DEF TypeInv
  <2>2. maxQueueSize > 0 => n + 1 <= maxQueueSize
    BY <1>2, <1>3, PoolAssumption DEF isFull, n
  <2> QED
    BY <1>1, <1>2, <1>6, <2>1, <2>2 DEF QueueInv
<1>9. PlaceInv'
  BY <1>1, <1>2, <1>4, <1>5, SMTT(30), Z3T(30) DEF PlaceInv, InRun, Ended, Stopping, TypeInv
<1>10. \A u : Runs(u)' = Runs(u)
  BY <1>2 DEF Runs
<1>11. \A u : Waits(u)' <=> Waits(u) \/ u = t
  <2> SUFFICES ASSUME NEW u PROVE (\E i \in 1 .. n + 1 : queue'[i] = u) <=> (\E i \in 1 .. n : queue[i] = u) \/ u = t
    BY <1>6, SMTT(30), Z3T(30) DEF Waits, n
  <2> QED
    BY <1>3, <1>6, SMTT(30), Z3T(30)
<1>12. FateInv'
  <2> SUFFICES ASSUME NEW j \in 1 .. calls[Main]
               PROVE  \/ <<Main, j>> \in finished \/ Waits(<<Main, j>>)' \/ Runs(<<Main, j>>)
                      \/ producerPc'[Main] \in InRun /\ j = calls[Main]
    BY <1>2, <1>10, SMTT(30), Z3T(30) DEF FateInv
  <2>1. CASE p = Main /\ j = calls[Main]
    BY <1>11, <2>1, SMTT(30), Z3T(30) DEF t
  <2>2. CASE ~(p = Main /\ j = calls[Main])
    BY <1>1, <1>5, <1>11, <2>2 DEF FateInv
  <2> QED
    BY <2>1, <2>2, SMTT(30), Z3T(30)
<1>13. LatchInv'
  <2>1. p = Main => latchTask \notin finished /\ ~Runs(latchTask) /\ ~Waits(latchTask)
    BY <1>1, <1>5 DEF LatchInv, Passing, InRun
  <2>2. \A i, j \in 1 .. n + 1 : i < j /\ queue'[i] = latchTask => queue'[j][1] # Main
    <3> SUFFICES ASSUME NEW i \in 1 .. n + 1, NEW j \in 1 .. n + 1, i < j, queue'[i] = latchTask
                 PROVE  queue'[j][1] # Main
      OBVIOUS
    <3>1. i \in 1 .. n /\ queue[i] = latchTask
      BY <1>3, <1>6
    <3>2. p # Main
      BY <2>1, <3>1 DEF Waits, n
    <3>3. CASE j = n + 1
      BY <1>3, <1>6, <3>2, <3>3, SMTT(30), Z3T(30)
    <3>4. CASE j # n + 1
      <4>1. j \in 1 .. n /\ queue'[j] = queue[j]
        BY <1>3, <1>6, <3>4, SMTT(30), Z3T(30)
      <4> QED
        BY <1>1, <3>1, <4>1, SMTT(30), Z3T(30) DEF LatchInv, n
    <3> QED
      BY <3>3, <3>4
  <2>3. latchTask \in finished \/ Runs(latchTask) => \A j \in 1 .. n + 1 : queue'[j][1] # Main
    <3> SUFFICES ASSUME latchTask \in finished \/ Runs(latchTask), NEW j \in 1 .. n + 1
                 PROVE  queue'[j][1] # Main
      OBVIOUS
    <3>1. CASE j = n + 1
      BY <1>3, <1>6, <2>1, <3>1, SMTT(30), Z3T(30)
    <3>2. CASE j # n + 1
      <4>1. j \in 1 .. n /\ queue'[j] = queue[j]
        BY <1>3, <1>6, <3>2, SMTT(30), Z3T(30)
      <4> QED
        BY <1>1, <4>1 DEF LatchInv, n
    <3> QED
      BY <3>1, <3>2
  <2>4. producerPc'[Main] \in Passing =>
          latchTask \notin finished /\ ~Runs(latchTask) /\ ~Waits(latchTask)'
    BY <1>1, <1>3, <1>5, <1>11, <2>1, SMTT(30), Z3T(30) DEF LatchInv, Passing, InRun
  <2>5. producerPc'[Main] \in Stopping => latchTask \in finished
    BY <1>1, <1>5 DEF LatchInv, Stopping
  <2>6. Runs(latchTask)' = Runs(latchTask)
    BY <1>10 DEF latchTask
  <2> QED
    BY <1>1, <1>2, <1>6, <2>2, <2>3, <2>4, <2>5, <2>6, ZenonT(60) DEF LatchInv, latchTask
<1> QED
  BY <1>7, <1>8, <1>9, <1>12, <1>13 DEF IInv

\* take() hands the first task of the queue to a worker.
LEMMA TakeInv ==
  ASSUME IInv, NEW w \in Workers, takeTask(w)
  PROVE  IInv'
<1> USE MainIs
<1> DEFINE h == Head(queue)
           n == Len(queue)
<1>1. TypeInv /\ PlaceInv /\ FateInv /\ LatchInv /\ QueueInv
  BY DEF IInv
<1>2. /\ UNCHANGED <<calls, count, accepted, finished>> /\ workerPc[w] = "take" /\ queue # <<>>
      /\ task' = [task EXCEPT ![w] = h] /\ queue' = Tail(queue) /\ taken' = Append(taken, h)
      /\ producerPc' \in notifyNotFull(producerPc)
      /\ workerPc' = [workerPc EXCEPT ![w] = "task"]
  BY DEF takeTask
<1>3. /\ n \in Nat \ {0} /\ h \in Tasks /\ h = queue[1]
      /\ queue' \in Seq(Tasks) /\ Len(queue') = n - 1 /\ taken' \in Seq(Tasks)
      /\ \A i \in 1 .. n - 1 : queue'[i] = queue[i + 1]
  BY <1>1, <1>2 DEF TypeInv
<1>4. /\ producerPc' \in [Producers -> Passing \cup Ended]
      /\ \/ producerPc'[Main] = producerPc[Main]
         \/ producerPc[Main] = "notFull" /\ producerPc'[Main] = "run"
  <2>1. producerPc \in [Producers -> Passing \cup Ended] /\ "run" \in Passing \cup Ended
    BY <1>1 DEF TypeInv, Passing, InRun
  <2>2. CASE producerPc' = producerPc
    BY <2>1, <2>2
  <2>3. CASE producerPc' \in Notified(producerPc, "notFull", "run")
    <3>1. /\ producerPc' \in [Producers -> Passing \cup Ended]
          /\ Moved(Producers, producerPc, producerPc', "notFull", "run")
      BY <2>1, <2>3, NotifiedIs, Zenon
    <3> QED
      BY <3>1 DEF Moved
  <2> QED
    BY <1>2, <2>2, <2>3 DEF notifyNotFull
<1>5. task' \in [Workers -> Tasks \cup {None}] /\ task'[w] = h /\ task[w] = None
        /\ \A v \in Workers \ {w} : task'[v] = task[v]
  BY <1>1, <1>2, <1>3, SMTT(30), Z3T(30) DEF TypeInv, PlaceInv
<1>6. workerPc' \in [Workers -> Places] /\ workerPc'[w] = "task"
        /\ \A v \in Workers \ {w} : workerPc'[v] = workerPc[v]
  BY <1>1, <1>2 DEF TypeInv, Places
<1> HIDE DEF h, n
<1>0. h # None
  <2>1. h \in Producers \X Nat
    BY <1>3, SMTT(30), Z3T(30) DEF Tasks
  <2> QED
    BY <2>1, SMTT(30), Z3T(30) DEF None
<1>7. TypeInv'
  BY <1>1, <1>2, <1>3, <1>4, <1>5, <1>6, SMTT(30), Z3T(30) DEF TypeInv
<1>8. QueueInv'
  <2>1. Append(taken, Head(queue)) \o Tail(queue) = taken \o queue
    <3>1. taken \in Seq(Tasks) /\ queue \in Seq(Tasks) /\ queue # <<>>
      BY <1>1, <1>2 DEF TypeInv
    <3> QED
      BY <3>1, ShiftConcat, Zenon
  <2>2. taken' \o queue' = accepted'
    BY <1>1, <1>2, <2>1, Zenon DEF QueueInv, h
  <2>3. maxQueueSize > 0 => n <= maxQueueSize
    BY <1>1 DEF QueueInv, n
  <2> QED
    BY <1>3, <2>2, <2>3, PoolAssumption, SMTT(30), Z3T(30) DEF QueueInv
<1>9. PlaceInv'
  BY <1>0, <1>1, <1>2, <1>4, <1>5, <1>6, Zenon DEF PlaceInv, InRun, Ended, Stopping
<1>10. \A u : u # None => (Runs(u)' <=> Runs(u) \/ u = h)
  BY <1>5 DEF Runs
<1>11. \A u : Waits(u) => Waits(u)' \/ u = h
  <2> SUFFICES ASSUME NEW i \in 1 .. n, queue[i] # h PROVE \E k \in 1 .. n - 1 : queue'[k] = queue[i]
    BY <1>3, Zenon DEF Waits, n
  <2>1. i - 1 \in 1 .. n - 1 /\ (i - 1) + 1 = i
    BY <1>3
  <2> QED
    BY <1>3, <2>1, Zenon
<1>12. \A k \in 1 .. n - 1 : k + 1 \in 1 .. n /\ queue'[k] = queue[k + 1]
  BY <1>3
<1>13. \A u : Waits(u)' => Waits(u)
  BY <1>3, <1>12, SMTT(30), Z3T(30) DEF Waits, n
<1>14. FateInv'
  <2> SUFFICES ASSUME NEW j \in 1 .. calls[Main]
               PROVE  \/ <<Main, j>> \in finished \/ Waits(<<Main, j>>)' \/ Runs(<<Main, j>>)'
                      \/ producerPc'[Main] \in InRun /\ j = calls[Main]
    BY <1>2 DEF FateInv
  <2>1. <<Main, j>> # None
    BY DEF None
  <2> QED
    BY <1>1, <1>4, <1>10, <1>11, <2>1, SMTT(30), Z3T(30) DEF FateInv, InRun
<1>15. LatchInv'
  <2>0. latchTask # None
    BY ZenonT(60) DEF None
  <2>1. \A i, j \in 1 .. n - 1 : i < j /\ queue'[i] = latchTask => queue'[j][1] # Main
    <3> SUFFICES ASSUME NEW i \in 1 .. n - 1, NEW j \in 1 .. n - 1, i < j, queue'[i] = latchTask
                 PROVE  queue'[j][1] # Main
      OBVIOUS
    <3>1. /\ i + 1 \in 1 .. n /\ j + 1 \in 1 .. n /\ i + 1 < j + 1
          /\ queue[i + 1] = latchTask /\ queue'[j] = queue[j + 1]
      BY <1>3, <1>12, SMTT(30), Z3T(30)
    <3> QED
      BY <1>1, <3>1, SMTT(30), Z3T(30) DEF LatchInv, n
  <2>2. latchTask \in finished \/ Runs(latchTask)' => \A j \in 1 .. n - 1 : queue'[j][1] # Main
    <3> SUFFICES ASSUME latchTask \in finished \/ Runs(latchTask) \/ latchTask = h, NEW j \in 1 .. n - 1
                 PROVE  queue'[j][1] # Main
      BY <1>10, <2>0, SMTT(30), Z3T(30)
    <3>1. 1 \in 1 .. n /\ j + 1 \in 1 .. n /\ 1 < j + 1 /\ queue'[j] = queue[j + 1]
      BY <1>3, <1>12
    <3>2. CASE latchTask = h
      BY <1>1, <1>3, <3>1, <3>2, ZenonT(60) DEF LatchInv, n
    <3>3. CASE latchTask \in finished \/ Runs(latchTask)
      BY <1>1, <3>1, <3>3, SMTT(30), Z3T(30) DEF LatchInv, n
    <3> QED
      BY <3>2, <3>3, SMTT(30), Z3T(30)
  <2>3. Waits(h)
    BY <1>3 DEF Waits, n
  <2>4. producerPc'[Main] \in Passing =>
          latchTask \notin finished /\ ~Runs(latchTask)' /\ ~Waits(latchTask)'
    BY <1>1, <1>4, <1>10, <1>13, <2>0, <2>3, ZenonT(60) DEF LatchInv, Passing, InRun
  <2>5. producerPc'[Main] \in Stopping => latchTask \in finished
    BY <1>1, <1>4 DEF LatchInv, Stopping
  <2> QED
    BY <1>1, <1>2, <1>3, <2>1, <2>2, <2>4, <2>5, Zenon DEF LatchInv, latchTask
<1> QED
  BY <1>7, <1>8, <1>9, <1>14, <1>15 DEF IInv

\* A task returns, the latch's among them.
LEMMA ReturnInv ==
  ASSUME IInv, NEW w \in Workers, taskReturns(w)
  PROVE  IInv'
<1> USE MainIs
<1>1. TypeInv /\ PlaceInv /\ FateInv /\ LatchInv /\ QueueInv
  BY DEF IInv
<1>2. /\ UNCHANGED <<queue, calls, accepted, taken>> /\ workerPc[w] = "task"
      /\ finished' = finished \cup {task[w]}
      /\ count' = IF task[w] = latchTask THEN count - 1 ELSE count
      /\ task' = [task EXCEPT ![w] = None] /\ workerPc' = [workerPc EXCEPT ![w] = "check"]
      /\ producerPc' = IF count' = 0 THEN AllNotified(producerPc, "latchWait", "latch") ELSE producerPc
  BY Zenon DEF taskReturns
<1>3. /\ producerPc' \in [Producers -> Passing \cup Ended]
      /\ \/ producerPc'[Main] = producerPc[Main]
         \/ producerPc[Main] = "latchWait" /\ producerPc'[Main] = "latch"
  <2>1. producerPc \in [Producers -> Passing \cup Ended] /\ "latch" \in Passing \cup Ended
    BY <1>1 DEF TypeInv, Ended
  <2>2. /\ AllNotified(producerPc, "latchWait", "latch") \in [Producers -> Passing \cup Ended]
        /\ Moved(Producers, producerPc, AllNotified(producerPc, "latchWait", "latch"), "latchWait", "latch")
    BY <2>1, AllNotifiedIs, ZenonT(60)
  <2> QED
    BY <1>2, <2>1, <2>2 DEF Moved
<1>4. task' \in [Workers -> Tasks \cup {None}] /\ task'[w] = None
        /\ \A v \in Workers \ {w} : task'[v] = task[v]
  BY <1>1, <1>2, Zenon DEF TypeInv
<1>5. workerPc' \in [Workers -> Places] /\ workerPc'[w] = "check"
        /\ \A v \in Workers \ {w} : workerPc'[v] = workerPc[v]
  BY <1>1, <1>2, SMTT(30), Z3T(30) DEF TypeInv, Places
<1>6. count' \in Int
  BY <1>1, <1>2, SMTT(30), Z3T(30) DEF TypeInv
<1>7. TypeInv'
  BY <1>1, <1>2, <1>3, <1>4, <1>5, <1>6, SMTT(30), Z3T(30) DEF TypeInv
<1>8. QueueInv'
  BY <1>1, <1>2, Zenon DEF QueueInv
<1>9. PlaceInv'
  BY <1>1, <1>2, <1>3, <1>4, <1>5, SMTT(30), Z3T(30) DEF PlaceInv, InRun, Ended, Stopping
<1>10. \A u : u # None => (Runs(u)' => Runs(u)) /\ (Runs(u) => Runs(u)' \/ u \in finished')
  BY <1>2, <1>4 DEF Runs
<1>11. \A u : Waits(u)' = Waits(u)
  BY <1>2, Zenon DEF Waits
<1>12. FateInv'
  <2> SUFFICES ASSUME NEW j \in 1 .. calls[Main]
               PROVE  \/ <<Main, j>> \in finished' \/ Waits(<<Main, j>>) \/ Runs(<<Main, j>>)'
                      \/ producerPc'[Main] \in InRun /\ j = calls[Main]
    BY <1>2, <1>11, Zenon DEF FateInv
  <2>1. <<Main, j>> # None
    BY DEF None
  <2> QED
    BY <1>1, <1>2, <1>3, <1>10, <2>1, Zenon DEF FateInv, InRun
<1>13. LatchInv'
  <2>0. latchTask # None
    BY DEF None
  <2>1. latchTask \in finished' => latchTask \in finished \/ Runs(latchTask)
    BY <1>2, Zenon DEF Runs
  <2>2. latchTask \in finished' \/ Runs(latchTask)' => \A j \in 1 .. Len(queue) : queue[j][1] # Main
    BY <1>1, <1>10, <2>0, <2>1, ZenonT(60) DEF LatchInv
  <2>3. producerPc'[Main] \in Passing =>
          latchTask \notin finished' /\ ~Runs(latchTask)' /\ ~Waits(latchTask)
    BY <1>1, <1>3, <1>10, <2>0, <2>1 DEF LatchInv, Passing, InRun
  <2>4. count' <= 0 => latchTask \in finished'
    BY <1>1, <1>2, Zenon DEF LatchInv
  <2>5. producerPc'[Main] \in Stopping => latchTask \in finished'
    BY <1>1, <1>2, <1>3, ZenonT(60) DEF LatchInv, Stopping
  <2>6. Waits(latchTask)' = Waits(latchTask)
    BY <1>2 DEF Waits, latchTask
  <2> QED
    BY <1>1, <1>2, <2>2, <2>3, <2>4, <2>5, <2>6, Zenon DEF LatchInv, latchTask
<1> QED
  BY <1>7, <1>8, <1>9, <1>12, <1>13 DEF IInv

\* Every step keeps the invariant.
LEMMA NextInv == IInv /\ [Next]_vars => IInv'
<1> SUFFICES ASSUME IInv, [Next]_vars PROVE IInv'
  OBVIOUS
<1>1. CASE main
  BY <1>1, MainInv, CallInv, MainIs DEF main
<1>2. CASE runDirectly
  BY <1>2, DirectInv
<1>3. CASE spuriousWakeup \/ \E p \in Producers : runWaits(p)
  BY <1>3, WaitInv
<1>4. CASE \E p \in Producers : runPuts(p)
  BY <1>4, PutInv
<1>5. CASE \E p \in Others : callRun(p)
  BY <1>5, CallInv DEF Producers
<1>6. CASE \E w \in Workers : worker(w)
  BY <1>6, WorkerInv, TakeInv, ReturnInv DEF worker
<1>7. CASE UNCHANGED vars
  BY <1>7, ZenonT(60) DEF vars, IInv, TypeInv, QueueInv, PlaceInv, FateInv, LatchInv, Waits, Runs, latchTask
<1> QED
  BY <1>1, <1>2, <1>3, <1>4, <1>5, <1>6, <1>7 DEF Next, inRun

-----------------------------------------------------------------------------
\* The tasks of run() are taken in order, the queue keeps to maxQueueSize_, and
\* stop() after the latch returns only when every task of the main thread has
\* run, for any number of workers, callers and tasks.
THEOREM TasksTakenInOrder == Spec => []TasksInOrder
<1>1. ASSUME IInv, producerPc[Main] = "done"
      PROVE  {Main} \X (1 .. MaxTasks + 1) \subseteq finished
  <2>1. calls[Main] = MaxTasks + 1 /\ \A w \in Workers : workerPc[w] = "exited"
    BY <1>1 DEF IInv, PlaceInv, Ended, Stopping
  <2>2. \A w \in Workers : task[w] = None
    BY <1>1, <2>1 DEF IInv, PlaceInv
  <2>3. latchTask \in finished
    BY <1>1, SMTT(30), Z3T(30) DEF IInv, LatchInv, Stopping
  <2>4. \A i \in 1 .. Len(queue) : queue[i][1] # Main
    BY <1>1, <2>3, SMTT(30), Z3T(30) DEF IInv, LatchInv
  <2>5. ASSUME NEW j \in 1 .. MaxTasks + 1 PROVE <<Main, j>> \in finished
    <3>1. <<Main, j>> # None /\ <<Main, j>>[1] = Main
      BY DEF None
    <3>2. ~Runs(<<Main, j>>)
      BY <2>2, <3>1 DEF Runs
    <3>3. ASSUME NEW i \in 1 .. Len(queue) PROVE queue[i] # <<Main, j>>
      BY <2>4, <3>1
    <3>4. ~Waits(<<Main, j>>)
      BY <3>3 DEF Waits
    <3> QED
      BY <1>1, <2>1, <3>2, <3>4 DEF IInv, FateInv, InRun
  <2> QED
    BY <2>5
<1>2. IInv => TasksInOrder
  BY <1>1 DEF TasksInOrder, IInv, QueueInv
<1> QED
  BY <1>2, InitInv, NextInv, PTL DEF Spec

-----------------------------------------------------------------------------
(* Buffer: sequences and the operators on them *)

\* A function on 1 .. n is a sequence of length n.
LEMMA FunctionIsSeq ==
  ASSUME NEW S, NEW n \in Nat, NEW f \in [1 .. n -> S]
  PROVE  f \in Seq(S) /\ Len(f) = n
  OBVIOUS

\* What SubSeq takes out of a sequence.
LEMMA SubSeqIs ==
  ASSUME NEW S, NEW s \in Seq(S), NEW m \in Nat, NEW n \in Nat, m <= n, n <= Len(s)
  PROVE  /\ SubSeq(s, m + 1, n) \in Seq(S)
         /\ Len(SubSeq(s, m + 1, n)) = n - m
         /\ \A i \in 1 .. n - m : SubSeq(s, m + 1, n)[i] = s[m + i]
  OBVIOUS

\* A sequence is its first m elements and the others.
LEMMA SplitSeq ==
  ASSUME NEW S, NEW s \in Seq(S), NEW m \in Nat, m <= Len(s)
  PROVE  SubSeq(s, 1, m) \o SubSeq(s, m + 1, Len(s)) = s
<1>1. 1 \in 1 .. Len(s) + 1 /\ m \in 1 - 1 .. Len(s) /\ Len(s) \in m .. Len(s)
  OBVIOUS
<1>2. SubSeq(s, 1, m) \o SubSeq(s, m + 1, Len(s)) = SubSeq(s, 1, Len(s))
  BY <1>1, ConcatAdjacentSubSeq, Zenon
<1> QED
  BY <1>2, SubSeqFull, Zenon
-----------------------------------------------------------------------------
(* vector::resize and std::copy *)

\* vector::resize keeps what fits and fills the rest with zeros.
LEMMA ResizedIs ==
  ASSUME NEW b \in Seq(Byte), NEW n \in Nat, Len(b) <= n
  PROVE  /\ Resized(b, n) \in Seq(Byte) /\ Len(Resized(b, n)) = n
         /\ \A i \in 1 .. Len(b) : Resized(b, n)[i] = b[i]
<1>1. Resized(b, n) \in [1 .. n -> Byte]
  BY ByteAssumption DEF Resized
<1>2. \A i \in 1 .. Len(b) : Resized(b, n)[i] = b[i]
  BY SMTT(30), Z3T(30) DEF Resized
<1> QED
  BY <1>1, <1>2, FunctionIsSeq

\* std::copy writes the data and leaves the other bytes alone.
LEMMA CopiedIs ==
  ASSUME NEW b \in Seq(Byte), NEW at \in Nat, NEW data \in Seq(Byte), at + Len(data) <= Len(b)
  PROVE  /\ Copied(b, at, data) \in Seq(Byte) /\ Len(Copied(b, at, data)) = Len(b)
         /\ \A i \in 1 .. Len(data) : Copied(b, at, data)[at + i] = data[i]
         /\ \A i \in 1 .. Len(b) : i <= at \/ i > at + Len(data) => Copied(b, at, data)[i] = b[i]
<1>1. Copied(b, at, data) \in [1 .. Len(b) -> Byte]
  BY DEF Copied
<1>2. \A i \in 1 .. Len(data) : Copied(b, at, data)[at + i] = data[i]
  BY DEF Copied
<1>3. \A i \in 1 .. Len(b) : i <= at \/ i > at + Len(data) => Copied(b, at, data)[i] = b[i]
  BY DEF Copied
<1> QED
  BY <1>1, <1>2, <1>3, FunctionIsSeq

\* The readable bytes of a buffer whose indices are in order.
LEMMA ReadableIs ==
  ASSUME NEW b \in Seq(Byte), NEW r \in Nat, NEW w \in Nat, r <= w, w <= Len(b)
  PROVE  /\ Readable(b, r, w) \in Seq(Byte) /\ Len(Readable(b, r, w)) = w - r
         /\ \A i \in 1 .. w - r : Readable(b, r, w)[i] = b[r + i]
  BY SubSeqIs, SMTT(30), Z3T(30) DEF Readable

\* A vector that begins like b has the same readable bytes.
LEMMA ReadablePrefix ==
  ASSUME NEW b \in Seq(Byte), NEW r \in Nat, NEW w \in Nat, r <= w, w <= Len(b),
         NEW g \in Seq(Byte), Len(b) <= Len(g), \A i \in 1 .. Len(b) : g[i] = b[i]
  PROVE  Readable(g, r, w) = Readable(b, r, w)
<1>1. w <= Len(g)
  OBVIOUS
<1>2. /\ Readable(g, r, w) \in Seq(Byte) /\ Len(Readable(g, r, w)) = w - r
      /\ \A i \in 1 .. w - r : Readable(g, r, w)[i] = g[r + i]
  BY <1>1, ReadableIs, Zenon
<1>3. /\ Readable(b, r, w) \in Seq(Byte) /\ Len(Readable(b, r, w)) = w - r
      /\ \A i \in 1 .. w - r : Readable(b, r, w)[i] = b[r + i]
  BY ReadableIs, Zenon
<1>4. \A i \in 1 .. w - r : r + i \in 1 .. Len(b)
  OBVIOUS
<1> QED
  BY <1>2, <1>3, <1>4, SeqEqual, SMTT(30), Z3T(30)

\* The bytes that were copied are the readable ones.
LEMMA ReadableCopy ==
  ASSUME NEW g \in Seq(Byte), NEW r \in Nat, NEW w \in Nat, r <= w, w <= Len(g),
         NEW data \in Seq(Byte), Len(data) = w - r,
         \A i \in 1 .. w - r : g[r + i] = data[i]
  PROVE  Readable(g, r, w) = data
<1>1. /\ Readable(g, r, w) \in Seq(Byte) /\ Len(Readable(g, r, w)) = w - r
      /\ \A i \in 1 .. w - r : Readable(g, r, w)[i] = g[r + i]
  BY ReadableIs, Zenon
<1> QED
  BY <1>1, SeqEqual, Zenon

\* Bytes copied to where the readable ones end come after them.
LEMMA ReadableAppend ==
  ASSUME NEW b \in Seq(Byte), NEW r \in Nat, NEW w \in Nat, r <= w,
         NEW data \in Seq(Byte), w + Len(data) <= Len(b)
  PROVE  Readable(Copied(b, w, data), r, w + Len(data)) = Readable(b, r, w) \o data
<1> DEFINE c == Copied(b, w, data)
           R == Readable(b, r, w)
           n == Len(data)
           v == w + n
<1>0. n \in Nat
  OBVIOUS
<1>a. w <= Len(b) /\ r <= w + n /\ w + n \in Nat
  BY <1>0
<1>1. R \in Seq(Byte) /\ Len(R) = w - r /\ \A i \in 1 .. w - r : R[i] = b[r + i]
  BY <1>a, ReadableIs, Zenon
<1>2. /\ c \in Seq(Byte) /\ Len(c) = Len(b)
      /\ \A i \in 1 .. n : c[w + i] = data[i]
      /\ \A i \in 1 .. Len(b) : i <= w \/ i > w + n => c[i] = b[i]
  BY CopiedIs, Zenon
<1> HIDE DEF c, R
<1>3. R \o data \in Seq(Byte) /\ Len(R \o data) = v - r
  <2>1. R \o data \in Seq(Byte) /\ Len(R \o data) = Len(R) + Len(data)
    BY <1>1, ConcatProperties, Zenon
  <2> QED
    BY <1>0, <1>1, <2>1
<1>b. \A i \in 1 .. Len(R) + Len(data) :
        (R \o data)[i] = IF i <= Len(R) THEN R[i] ELSE data[i - Len(R)]
  BY <1>1, ConcatProperties, SMTT(30), Z3T(30)
<1>4. \A i \in 1 .. v - r : (R \o data)[i] = IF i <= w - r THEN R[i] ELSE data[i - (w - r)]
  BY <1>1, <1>0, <1>b, SMTT(30), Z3T(30)
<1>5. \A i \in 1 .. v - r : c[r + i] = (R \o data)[i]
  <2> SUFFICES ASSUME NEW i \in 1 .. v - r PROVE c[r + i] = (R \o data)[i]
    BY Zenon
  <2>1. CASE i <= w - r
    <3>1. r + i \in 1 .. Len(b) /\ r + i <= w /\ i \in 1 .. w - r
      BY <1>a, <2>1, SMTT(30), Z3T(30)
    <3> QED
      BY <1>1, <1>2, <1>4, <2>1, <3>1, SMTT(30), Z3T(30)
  <2>2. CASE ~(i <= w - r)
    <3> DEFINE k == i - (w - r)
    <3>1. k \in 1 .. n /\ r + i = w + k
      BY <1>0, <2>2
    <3>2. (R \o data)[i] = data[k]
      BY <1>4, <2>2, Zenon
    <3>3. c[w + k] = data[k]
      BY <1>2, <3>1, SMTT(30), Z3T(30)
    <3> QED
      BY <3>1, <3>2, <3>3, SMTT(30), Z3T(30)
  <2> QED
    BY <2>1, <2>2, Zenon
<1>6. w + n <= Len(c)
  BY <1>2, SMTT(30), Z3T(30)
<1>7. v \in Nat /\ r <= v /\ v <= Len(c) /\ Len(R \o data) = v - r
  BY <1>0, <1>a, <1>3, <1>6, SMTT(30), Z3T(30)
<1> DEFINE D == R \o data
<1>8. c \in Seq(Byte) /\ D \in Seq(Byte) /\ Len(D) = v - r
  BY <1>2, <1>3
<1>c. \A i \in 1 .. v - r : c[r + i] = D[i]
  BY <1>5, Zenon
<1> HIDE DEF D, v
<1>9. Readable(c, r, v) = D
  BY <1>7, <1>8, <1>c, ReadableCopy, Zenon
<1> QED
  BY <1>9 DEF c, R, v, D

\* What ensureWritableBytes(len) makes of b, r and w: e has the same readable bytes,
\* and room for len more behind them.
Ensured(e, b, r, w, len) ==
  /\ e[1] \in Seq(Byte) /\ e[2] \in Nat /\ e[3] \in Nat
  /\ e[2] <= e[3] /\ e[3] + len <= Len(e[1]) /\ e[3] - e[2] = w - r
  /\ e[2] \in {r, kCheapPrepend}
  /\ Readable(e[1], e[2], e[3]) = Readable(b, r, w)
  /\ Len(e[1]) = Len(b) \/ (Len(e[1]) = w + len /\ r < len + kCheapPrepend)
  /\ Len(b) <= Len(e[1])
  /\ EnsureAsserts(b, r, w, len)

\* ensureWritableBytes() keeps the readable bytes and makes the room, and its
\* assertions hold: it grows the vector by what is missing or moves the bytes to
\* kCheapPrepend, which is then further in front than where they were.
LEMMA EnsureIs ==
  ASSUME NEW b \in Seq(Byte), NEW r \in Nat, NEW w \in Nat, r <= w, w <= Len(b),
         NEW len \in Nat,
         NEW e, e = ensureWritableBytes(b, r, w, len)
  PROVE  Ensured(e, b, r, w, len)
<1> USE SizeAssumption
<1> DEFINE R == Readable(b, r, w)
<1>0. R \in Seq(Byte) /\ Len(R) = w - r /\ \A i \in 1 .. w - r : R[i] = b[r + i]
  BY ReadableIs, ZenonT(60)
<1>a. Len(b) \in Nat
  OBVIOUS
<1> HIDE DEF R
<1>1. CASE Len(b) - w >= len
  <2>1. e = <<b, r, w>>
    BY <1>1 DEF ensureWritableBytes
  <2> QED
    BY <1>0, <1>a, <1>1, <2>1, SMTT(30), Z3T(30) DEF Ensured, EnsureAsserts, R
<1>2. CASE Len(b) - w < len /\ Grows(b, r, w, len)
  <2> DEFINE g == Resized(b, w + len)
  <2>1. e = <<g, r, w>>
    BY <1>0, <1>a, <1>2, SMTT(30), Z3T(30) DEF ensureWritableBytes
  <2>2. g \in Seq(Byte) /\ Len(g) = w + len /\ \A i \in 1 .. Len(b) : g[i] = b[i]
    BY <1>0, <1>a, <1>2, ResizedIs, SMTT(30), Z3T(30)
  <2>5. Readable(g, r, w) = R
    BY <2>2, <1>a, <1>2, ReadablePrefix, SMTT(30), Z3T(30) DEF R
  <2> HIDE DEF g
  <2>6. r < len + kCheapPrepend
    BY <1>0, <1>a, <1>2, SMTT(30), Z3T(30) DEF Grows
  <2>7. EnsureAsserts(b, r, w, len)
    BY <2>1, <2>2, <1>2, SMTT(30), Z3T(30) DEF EnsureAsserts
  <2> QED
    BY <1>a, <1>2, <2>1, <2>2, <2>5, <2>6, <2>7, SMTT(30), Z3T(30) DEF Ensured, R
<1>3. CASE Len(b) - w < len /\ ~Grows(b, r, w, len)
  <2> DEFINE g == Copied(b, kCheapPrepend, R)
             v == kCheapPrepend + w - r
  <2>1. e = <<g, kCheapPrepend, v>>
    BY <1>0, <1>a, <1>3, SMTT(30), Z3T(30) DEF ensureWritableBytes, R
  <2>2. kCheapPrepend < r /\ v + len <= Len(b) /\ v \in Nat /\ kCheapPrepend <= v
    BY <1>0, <1>a, <1>3, SMTT(30), Z3T(30) DEF Grows
  <2>3. /\ g \in Seq(Byte) /\ Len(g) = Len(b)
        /\ \A i \in 1 .. w - r : g[kCheapPrepend + i] = R[i]
    BY <1>0, <1>a, <2>2, CopiedIs, SMTT(30), Z3T(30)
  <2>4. v - kCheapPrepend = w - r /\ v <= Len(g)
    BY <2>2, <2>3, <1>a, SMTT(30), Z3T(30)
  <2> HIDE DEF g, v
  <2>6. Len(R) = v - kCheapPrepend /\ \A i \in 1 .. v - kCheapPrepend : g[kCheapPrepend + i] = R[i]
    BY <1>0, <2>3, <2>4, SMTT(30), Z3T(30)
  <2>5. Readable(g, kCheapPrepend, v) = R
    BY <1>0, <2>2, <2>3, <2>4, <2>6, ReadableCopy, SMTT(30), Z3T(30)
  <2>7. EnsureAsserts(b, r, w, len)
    BY <2>1, <2>2, <2>3, <1>0, SMTT(30), Z3T(30) DEF EnsureAsserts
  <2> QED
    BY <1>0, <1>a, <2>1, <2>2, <2>3, <2>4, <2>5, <2>7, SMTT(30), Z3T(30) DEF Ensured, R
<1>4. Len(b) - w >= len \/ Len(b) - w < len
  BY <1>a
<1> QED
  BY <1>1, <1>2, <1>3, <1>4, Zenon

\* append() puts the data behind the readable bytes.
LEMMA AppendedIs ==
  ASSUME NEW b \in Seq(Byte), NEW r \in Nat, NEW w \in Nat, r <= w, w <= Len(b),
         NEW data \in Seq(Byte),
         NEW a, a = Appended(b, r, w, data)
  PROVE  /\ a[1] \in Seq(Byte) /\ a[2] \in Nat /\ a[3] \in Nat
         /\ a[2] <= a[3] /\ a[3] <= Len(a[1])
         /\ a[2] \in {r, kCheapPrepend}
         /\ Readable(a[1], a[2], a[3]) = Readable(b, r, w) \o data
         /\ Len(a[1]) = Len(b) \/ (Len(a[1]) = w + Len(data) /\ r < Len(data) + kCheapPrepend)
         /\ Len(b) <= Len(a[1])
<1> DEFINE e == ensureWritableBytes(b, r, w, Len(data))
           b1 == e[1]
           r1 == e[2]
           w1 == e[3]
<1>a. Len(data) \in Nat
  BY SMTT(30), Z3T(30)
<1>1. /\ b1 \in Seq(Byte) /\ r1 \in Nat /\ w1 \in Nat
      /\ r1 <= w1 /\ w1 + Len(data) <= Len(b1) /\ w1 - r1 = w - r
      /\ r1 \in {r, kCheapPrepend}
      /\ Readable(b1, r1, w1) = Readable(b, r, w)
      /\ Len(b1) = Len(b) \/ (Len(b1) = w + Len(data) /\ r < Len(data) + kCheapPrepend)
      /\ Len(b) <= Len(b1)
  <2>1. Ensured(e, b, r, w, Len(data))
    BY <1>a, EnsureIs, Zenon
  <2> QED
    BY <2>1, Zenon DEF Ensured
<1>2. a = <<Copied(b1, w1, data), r1, w1 + Len(data)>>
  BY SMTT(30), Z3T(30) DEF Appended
<1> HIDE DEF b1, r1, w1
<1>3. Readable(Copied(b1, w1, data), r1, w1 + Len(data)) = Readable(b, r, w) \o data
  BY <1>1, ReadableAppend, SMTT(30), Z3T(30)
<1>4. Copied(b1, w1, data) \in Seq(Byte) /\ Len(Copied(b1, w1, data)) = Len(b1)
  BY <1>1, CopiedIs
<1>5. a[1] = Copied(b1, w1, data) /\ a[2] = r1 /\ a[3] = w1 + Len(data)
  BY <1>2, SMTT(30), Z3T(30)
<1>6. /\ a[1] \in Seq(Byte) /\ a[2] \in Nat /\ a[3] \in Nat
      /\ a[2] <= a[3] /\ a[3] <= Len(a[1]) /\ a[2] \in {r, kCheapPrepend}
  BY <1>1, <1>4, <1>5, <1>a, SMTT(30), Z3T(30)
<1>7. /\ Len(a[1]) = Len(b) \/ (Len(a[1]) = w + Len(data) /\ r < Len(data) + kCheapPrepend)
      /\ Len(b) <= Len(a[1])
  BY <1>1, <1>4, <1>5, SMTT(30), Z3T(30)
<1> QED
  BY <1>3, <1>5, <1>6, <1>7, Zenon

\* prepend() puts the data in front of the readable bytes.
LEMMA ReadablePrepend ==
  ASSUME NEW b \in Seq(Byte), NEW r \in Nat, NEW w \in Nat, r <= w, w <= Len(b),
         NEW data \in Seq(Byte), Len(data) <= r
  PROVE  Readable(Copied(b, r - Len(data), data), r - Len(data), w) = data \o Readable(b, r, w)
<1> DEFINE n == Len(data)
           q == r - n
           c == Copied(b, q, data)
           R == Readable(b, r, w)
<1>0. n \in Nat
  OBVIOUS
<1>a. q \in Nat /\ q <= w /\ q + n = r /\ q + n <= Len(b)
  BY <1>0
<1>1. R \in Seq(Byte) /\ Len(R) = w - r /\ \A i \in 1 .. w - r : R[i] = b[r + i]
  BY ReadableIs, ZenonT(60)
<1> HIDE DEF q
<1>2. /\ c \in Seq(Byte) /\ Len(c) = Len(b)
      /\ \A i \in 1 .. n : c[q + i] = data[i]
      /\ \A i \in 1 .. Len(b) : i <= q \/ i > q + n => c[i] = b[i]
  BY <1>a, CopiedIs
<1> HIDE DEF c, R
<1>3. data \o R \in Seq(Byte) /\ Len(data \o R) = w - q
  <2>1. data \o R \in Seq(Byte) /\ Len(data \o R) = Len(data) + Len(R)
    BY <1>1, ConcatProperties, ZenonT(60)
  <2>2. Len(R) = w - r
    BY <1>1, Zenon
  <2>3. Len(data) + Len(R) = w - q
    BY <1>0, <1>a, <2>2, SMTT(30), Z3T(30)
  <2> QED
    BY <2>1, <2>3, Zenon
<1>4. \A i \in 1 .. w - q : (data \o R)[i] = IF i <= n THEN data[i] ELSE R[i - n]
  <2>1. \A i \in 1 .. Len(data) + Len(R) :
          (data \o R)[i] = IF i <= Len(data) THEN data[i] ELSE R[i - Len(data)]
    BY <1>1, ConcatProperties, SMTT(30), Z3T(30)
  <2> QED
    BY <1>0, <1>a, <1>1, <2>1, SMTT(30), Z3T(30)
<1>5. \A i \in 1 .. w - q : c[q + i] = (data \o R)[i]
  <2> SUFFICES ASSUME NEW i \in 1 .. w - q PROVE c[q + i] = (data \o R)[i]
    BY Zenon
  <2>1. CASE i <= n
    <3>1. i \in 1 .. n
      BY <1>0, <2>1, SMTT(30), Z3T(30)
    <3> QED
      BY <1>2, <1>4, <2>1, <3>1
  <2>2. CASE ~(i <= n)
    <3> DEFINE k == i - n
    <3>1. k \in 1 .. w - r /\ q + i = r + k /\ q + i \in 1 .. Len(b) /\ q + i > q + n
      BY <1>0, <1>a, <2>2, SMTT(30), Z3T(30)
    <3>2. (data \o R)[i] = R[k]
      BY <1>4, <2>2, Zenon
    <3>3. c[q + i] = b[q + i] /\ R[k] = b[r + k]
      BY <1>1, <1>2, <3>1, SMTT(30), Z3T(30)
    <3> QED
      BY <3>1, <3>2, <3>3, SMTT(30), Z3T(30)
  <2> QED
    BY <2>1, <2>2, Zenon
<1>6. w <= Len(c)
  BY <1>2
<1> DEFINE D == data \o R
<1>7. /\ c \in Seq(Byte) /\ D \in Seq(Byte) /\ Len(D) = w - q
      /\ q \in Nat /\ q <= w /\ w <= Len(c)
  BY <1>a, <1>2, <1>3, <1>6
<1>8. \A i \in 1 .. w - q : c[q + i] = D[i]
  BY <1>5, Zenon
<1> HIDE DEF D
<1>9. Readable(c, q, w) = D
  BY <1>7, <1>8, ReadableCopy, Zenon
<1> QED
  BY <1>9 DEF c, R, q, D

\* retrieve() leaves the rest of the readable bytes.
LEMMA ReadableRest ==
  ASSUME NEW b \in Seq(Byte), NEW r \in Nat, NEW w \in Nat, r <= w, w <= Len(b),
         NEW len \in Nat, len <= w - r
  PROVE  Readable(b, r + len, w) = SubSeq(Readable(b, r, w), len + 1, w - r)
<1> DEFINE R == Readable(b, r, w)
           m == w - r
           q == r + len
<1>1. R \in Seq(Byte) /\ Len(R) = m /\ \A i \in 1 .. m : R[i] = b[r + i]
  BY ReadableIs, Zenon
<1> HIDE DEF R
<1>a. m \in Nat /\ len <= m /\ m <= Len(R) /\ q \in Nat /\ q <= w /\ w - q = m - len
  BY <1>1, SMTT(30), Z3T(30)
<1>2. /\ SubSeq(R, len + 1, m) \in Seq(Byte)
      /\ Len(SubSeq(R, len + 1, m)) = m - len
      /\ \A i \in 1 .. m - len : SubSeq(R, len + 1, m)[i] = R[len + i]
  BY <1>1, <1>a, SubSeqIs, SMTT(30), Z3T(30)
<1> DEFINE S == SubSeq(R, len + 1, m)
<1> HIDE DEF S
<1>3. S \in Seq(Byte) /\ Len(S) = m - len
  BY <1>2, SMTT(30), Z3T(30) DEF S
<1>4. \A i \in 1 .. m - len : S[i] = R[len + i]
  BY <1>2 DEF S
<1>5. \A i \in 1 .. m - len : b[q + i] = S[i]
  <2> SUFFICES ASSUME NEW i \in 1 .. m - len PROVE b[q + i] = S[i]
    OBVIOUS
  <2>1. len + i \in 1 .. m /\ q + i = r + (len + i)
    BY <1>a
  <2> QED
    BY <1>1, <1>4, <2>1, Zenon
<1>6. Len(S) = w - q /\ \A i \in 1 .. w - q : b[q + i] = S[i]
  BY <1>3, <1>5, <1>a, SMTT(30), Z3T(30)
<1> HIDE DEF q
<1>7. Readable(b, q, w) = S
  BY <1>3, <1>6, <1>a, ReadableCopy
<1> QED
  BY <1>7 DEF S, R, q

\* Nothing is readable when the indices are equal.
LEMMA ReadableNothing ==
  ASSUME NEW b \in Seq(Byte), NEW r \in Nat, r <= Len(b)
  PROVE  Readable(b, r, r) = <<>>
<1>1. Readable(b, r, r) \in Seq(Byte) /\ Len(Readable(b, r, r)) = 0
  BY ReadableIs
<1> QED
  BY <1>1
-----------------------------------------------------------------------------
(* The operations *)

\* What every operation relies on: the indices are in order behind a vector that
\* has room for a header, and they delimit the content.
BufferInv ==
  /\ bytes \in Seq(Byte) /\ content \in Seq(Byte)
  /\ readerIndex \in Nat /\ writerIndex \in Nat
  /\ readerIndex <= writerIndex /\ writerIndex <= Len(bytes) /\ kCheapPrepend <= Len(bytes)
  /\ Len(content) <= MaxReadable
  /\ prepended \in 0 .. kCheapPrepend
  /\ fault = FALSE
  /\ ContentKept /\ HeaderFits /\ SizeBounded

\* The data that is appended, prepended or read is a sequence of bytes.
LEMMA StringsAreSeqs ==
  ASSUME NEW data \in Strings
  PROVE  data \in Seq(Byte) /\ Len(data) \in Nat /\ Len(data) <= MaxReadable
<1>1. PICK n \in 0 .. MaxReadable : data \in [1 .. n -> Byte]
  BY DEF Strings
<1>2. n \in Nat /\ n <= MaxReadable
  BY SizeAssumption
<1>3. data \in Seq(Byte) /\ Len(data) = n
  BY <1>1, <1>2, FunctionIsSeq
<1> QED
  BY <1>2, <1>3

\* How long the content is.
LEMMA ContentLength ==
  ASSUME BufferInv
  PROVE  Len(content) = writerIndex - readerIndex
  BY ReadableIs, Zenon DEF BufferInv, ContentKept

\* A new buffer satisfies the invariant.
LEMMA BufferInitInv == BufferInit => BufferInv
<1> SUFFICES ASSUME BufferInit PROVE BufferInv
  OBVIOUS
<1> DEFINE n == kCheapPrepend + kInitialSize
<1>0. n \in Nat /\ kCheapPrepend <= n /\ kCheapPrepend \in Nat
  BY SizeAssumption
<1>1. bytes \in [1 .. n -> Byte]
  BY ByteAssumption DEF BufferInit
<1>2. bytes \in Seq(Byte) /\ Len(bytes) = n
  BY <1>0, <1>1, FunctionIsSeq
<1>3. content = <<>> /\ content \in Seq(Byte) /\ Len(content) = 0
  BY DEF BufferInit
<1>4. Readable(bytes, kCheapPrepend, kCheapPrepend) = content
  BY <1>0, <1>2, <1>3, ReadableNothing
<1>5. ContentKept
  BY <1>4 DEF ContentKept, BufferInit
<1>6. HeaderFits /\ prepended \in 0 .. kCheapPrepend
  BY <1>0 DEF HeaderFits, BufferInit
<1>7. SizeBounded
  BY <1>2, SizeAssumption DEF SizeBounded, MaxOf
<1>8. Len(content) <= MaxReadable
  BY <1>3, SizeAssumption
<1> QED
  BY <1>0, <1>2, <1>3, <1>5, <1>6, <1>7, <1>8, SMTT(30), Z3T(30) DEF BufferInv, BufferInit

\* makeSpace() leaves the reader index or moves it to the end of the prepend area: the
\* header still fits.
LEMMA HeaderStays ==
  ASSUME BufferInv, readerIndex' \in {readerIndex, kCheapPrepend}, prepended' = prepended
  PROVE  HeaderFits'
<1>1. /\ readerIndex \in Nat /\ prepended \in Nat /\ kCheapPrepend \in Nat
      /\ readerIndex + prepended >= kCheapPrepend
  BY SizeAssumption DEF BufferInv, HeaderFits
<1>2. CASE readerIndex' = readerIndex
  BY <1>1, <1>2 DEF HeaderFits
<1>3. CASE readerIndex' = kCheapPrepend
  BY <1>1, <1>3, SMTT(30), Z3T(30) DEF HeaderFits
<1> QED
  BY <1>2, <1>3

\* append() keeps the invariant.
LEMMA AppendInv ==
  ASSUME BufferInv, NEW data \in Strings, append(data)
  PROVE  BufferInv'
<1> DEFINE a == Appended(bytes, readerIndex, writerIndex, data)
<1>1. data \in Seq(Byte) /\ Len(data) \in Nat /\ Len(data) <= MaxReadable
  BY StringsAreSeqs
<1>2. /\ bytes \in Seq(Byte) /\ readerIndex \in Nat /\ writerIndex \in Nat
      /\ readerIndex <= writerIndex /\ writerIndex <= Len(bytes)
  BY DEF BufferInv
<1>3. /\ a[1] \in Seq(Byte) /\ a[2] \in Nat /\ a[3] \in Nat
      /\ a[2] <= a[3] /\ a[3] <= Len(a[1])
      /\ a[2] \in {readerIndex, kCheapPrepend}
      /\ Readable(a[1], a[2], a[3]) = Readable(bytes, readerIndex, writerIndex) \o data
      /\ Len(a[1]) = Len(bytes) \/ (Len(a[1]) = writerIndex + Len(data) /\ readerIndex < Len(data) + kCheapPrepend)
      /\ Len(bytes) <= Len(a[1])
  BY <1>1, <1>2, AppendedIs, Zenon
<1> HIDE DEF a
<1>4. bytes' = a[1] /\ readerIndex' = a[2] /\ writerIndex' = a[3]
  BY DEF append, setBuffer, a
<1>5. fault' = FALSE
  <2>1. Ensured(ensureWritableBytes(bytes, readerIndex, writerIndex, Len(data)), bytes, readerIndex,
                writerIndex, Len(data))
    BY <1>1, <1>2, EnsureIs, Zenon
  <2> QED
    BY <2>1, Zenon DEF append, Ensured
<1>6. content' = content \o data /\ prepended' = prepended
  BY SMTT(30), Z3T(30) DEF append
<1>7. ContentKept'
  BY <1>3, <1>4, <1>6, SMTT(30), Z3T(30) DEF BufferInv, ContentKept
<1>8. content' \in Seq(Byte) /\ Len(content') = Len(content) + Len(data) /\ Len(content) \in Nat
  BY <1>1, <1>6, ConcatProperties DEF BufferInv
<1>9. Len(content') <= MaxReadable
  BY <1>8 DEF append
<1>10. HeaderFits'
  BY <1>3, <1>4, <1>6, HeaderStays, Zenon
<1>11. SizeBounded'
  <2>1. Len(content) = writerIndex - readerIndex
    BY ContentLength
  <2>2. Len(a[1]) <= Len(bytes) \/ Len(a[1]) <= kCheapPrepend + MaxReadable + MaxReadable
    BY <1>1, <1>2, <1>3, <1>8, <1>9, <2>1, SizeAssumption, SMTT(30), Z3T(30)
  <2>3. Len(a[1]) \in Nat /\ Len(bytes) \in Nat
    BY <1>2, <1>3
  <2> QED
    BY <1>4, <2>2, <2>3, SizeAssumption, SMTT(30), Z3T(30) DEF BufferInv, SizeBounded, MaxOf
<1>12. kCheapPrepend <= Len(bytes')
  BY <1>2, <1>3, <1>4, SizeAssumption, SMTT(30), Z3T(30) DEF BufferInv
<1> QED
  BY <1>3, <1>4, <1>5, <1>6, <1>7, <1>8, <1>9, <1>10, <1>11, <1>12, SMTT(30), Z3T(30) DEF BufferInv

\* prepend() keeps the invariant.
LEMMA PrependInv ==
  ASSUME BufferInv, NEW data \in Strings, prepend(data)
  PROVE  BufferInv'
<1> DEFINE n == Len(data)
           c == Copied(bytes, readerIndex - n, data)
<1>1. data \in Seq(Byte) /\ n \in Nat
  BY StringsAreSeqs
<1>2. /\ bytes \in Seq(Byte) /\ readerIndex \in Nat /\ writerIndex \in Nat
      /\ readerIndex <= writerIndex /\ writerIndex <= Len(bytes)
  BY DEF BufferInv
<1>3. n <= readerIndex
  BY DEF prepend, prependableBytes
<1>4. bytes' = c /\ readerIndex' = readerIndex - n /\ writerIndex' = writerIndex /\ fault' = fault
  BY DEF prepend
<1>5. content' = data \o content
  BY DEF prepend
<1>6. Readable(c, readerIndex - n, writerIndex) = data \o Readable(bytes, readerIndex, writerIndex)
  BY <1>1, <1>2, <1>3, ReadablePrepend, SMTT(30), Z3T(30)
<1>7. c \in Seq(Byte) /\ Len(c) = Len(bytes)
  <2>1. readerIndex - n \in Nat /\ readerIndex - n + n <= Len(bytes)
    BY <1>1, <1>2, <1>3, SMTT(30), Z3T(30)
  <2> QED
    BY <1>1, <1>2, <2>1, CopiedIs, Zenon
<1> HIDE DEF c
<1>8. ContentKept'
  BY <1>4, <1>5, <1>6, SMTT(30), Z3T(30) DEF BufferInv, ContentKept
<1>9. content' \in Seq(Byte) /\ Len(content') = n + Len(content)
  BY <1>1, <1>5, ConcatProperties DEF BufferInv
<1>10. Len(content') <= MaxReadable
  <2>1. Len(content) \in Nat
    BY SMTT(30), Z3T(30) DEF BufferInv
  <2> QED
    BY <1>1, <1>9, <2>1 DEF prepend
<1>11. prepended' \in 0 .. kCheapPrepend /\ HeaderFits'
  BY <1>1, <1>2, <1>3, <1>4, SizeAssumption, SMTT(30), Z3T(30) DEF BufferInv, HeaderFits, prepend
<1>12. SizeBounded' /\ kCheapPrepend <= Len(bytes')
  BY <1>4, <1>7 DEF BufferInv, SizeBounded
<1>13. readerIndex' \in Nat /\ readerIndex' <= writerIndex' /\ writerIndex' <= Len(bytes')
  BY <1>1, <1>2, <1>3, <1>4, <1>7
<1> QED
  BY <1>2, <1>4, <1>7, <1>8, <1>9, <1>10, <1>11, <1>12, <1>13, SMTT(30), Z3T(30) DEF BufferInv

\* retrieve() keeps the invariant, whether it empties the buffer or not.
LEMMA RetrieveInv ==
  ASSUME BufferInv, NEW len \in 0 .. readableBytes, retrieve(len)
  PROVE  BufferInv'
<1>1. /\ bytes \in Seq(Byte) /\ readerIndex \in Nat /\ writerIndex \in Nat
      /\ readerIndex <= writerIndex /\ writerIndex <= Len(bytes)
      /\ kCheapPrepend \in Nat /\ kCheapPrepend <= Len(bytes)
  BY SizeAssumption DEF BufferInv
<1>2. len \in Nat /\ len <= writerIndex - readerIndex
  BY <1>1 DEF readableBytes
<1>3. content \in Seq(Byte) /\ Len(content) = writerIndex - readerIndex
  BY ContentLength, Zenon DEF BufferInv
<1>4. content' = SubSeq(content, len + 1, Len(content)) /\ bytes' = bytes /\ fault' = fault
  BY SMTT(30), Z3T(30) DEF retrieve
<1>5. content' \in Seq(Byte) /\ Len(content') = Len(content) - len
  <2>1. Len(content) \in Nat /\ len <= Len(content)
    BY <1>1, <1>2, <1>3, SMTT(30), Z3T(30)
  <2> QED
    BY <1>2, <1>3, <1>4, <2>1, SubSeqIs, SMTT(30), Z3T(30)
<1>6. Len(content') <= MaxReadable
  BY <1>2, <1>3, <1>5, SizeAssumption, SMTT(30), Z3T(30) DEF BufferInv
<1>7. CASE len < readableBytes /\ readerIndex' = readerIndex + len /\ UNCHANGED <<writerIndex, prepended>>
  <2>1. Readable(bytes, readerIndex + len, writerIndex) = content'
    BY <1>1, <1>2, <1>3, <1>4, ReadableRest, SMTT(30), Z3T(30) DEF BufferInv, ContentKept
  <2>2. ContentKept'
    BY <1>4, <1>7, <2>1 DEF ContentKept
  <2>3. readerIndex' \in Nat /\ readerIndex' <= writerIndex' /\ writerIndex' <= Len(bytes')
    BY <1>1, <1>2, <1>4, <1>7
  <2>4. HeaderFits' /\ prepended' \in 0 .. kCheapPrepend
    BY <1>1, <1>2, <1>7, SMTT(30), Z3T(30) DEF BufferInv, HeaderFits
  <2> QED
    BY <1>1, <1>4, <1>5, <1>6, <1>7, <2>2, <2>3, <2>4, SMTT(30), Z3T(30) DEF BufferInv, SizeBounded
<1>8. CASE /\ len = readableBytes
           /\ readerIndex' = kCheapPrepend /\ writerIndex' = kCheapPrepend /\ prepended' = 0
  <2>1. Len(content') = 0
    BY <1>1, <1>3, <1>5, <1>8 DEF readableBytes
  <2>2. content' = <<>>
    BY <1>5, <2>1
  <2>3. Readable(bytes, kCheapPrepend, kCheapPrepend) = <<>>
    BY <1>1, ReadableNothing
  <2>4. ContentKept'
    BY <1>4, <1>8, <2>2, <2>3, Zenon DEF ContentKept
  <2>5. HeaderFits' /\ prepended' \in 0 .. kCheapPrepend
    BY <1>1, <1>8, SMTT(30), Z3T(30) DEF HeaderFits
  <2> QED
    BY <1>1, <1>4, <1>5, <1>6, <1>8, <2>4, <2>5, SMTT(30), Z3T(30) DEF BufferInv, SizeBounded
<1> QED
  BY <1>7, <1>8 DEF retrieve

\* shrink() keeps the invariant: the buffer that is swapped in has the same content.
LEMMA ShrinkInv ==
  ASSUME BufferInv, NEW reserve \in 0 .. MaxReserve, shrink(reserve)
  PROVE  BufferInv'
<1> DEFINE k == kCheapPrepend
           R == Readable(bytes, readerIndex, writerIndex)
           m == readableBytes + reserve
           o == ensureWritableBytes(Fresh, k, k, m)
           b1 == o[1]
           r1 == o[2]
           w1 == o[3]
           a == Appended(b1, r1, w1, R)
<1>1. k \in Nat /\ kInitialSize \in Nat /\ reserve \in Nat /\ reserve <= MaxReserve
        /\ MaxReserve \in Nat /\ MaxReadable \in Nat
  BY SizeAssumption
<1>2. Fresh \in Seq(Byte) /\ Len(Fresh) = k + kInitialSize
  <2>1. Fresh \in [1 .. k + kInitialSize -> Byte] /\ k + kInitialSize \in Nat
    BY <1>1, ByteAssumption, SMTT(30), Z3T(30) DEF Fresh
  <2> QED
    BY <2>1, FunctionIsSeq
<1>3. R = content /\ content \in Seq(Byte)
  BY DEF BufferInv, ContentKept
<1>4. Len(content) = readableBytes /\ readableBytes \in Nat /\ readableBytes <= MaxReadable
  <2>1. Len(content) = readableBytes
    BY ContentLength DEF readableBytes
  <2>2. Len(content) \in Nat /\ Len(content) <= MaxReadable
    BY DEF BufferInv
  <2> QED
    BY <2>1, <2>2
<1>5. k <= Len(Fresh) /\ m \in Nat
  BY <1>1, <1>2, <1>4, SMTT(30), Z3T(30)
<1>a. bytes' = a[1] /\ readerIndex' = a[2] /\ writerIndex' = a[3]
  BY SMTT(30), Z3T(30) DEF shrink, setBuffer
<1>b. fault' = ~EnsureAsserts(Fresh, k, k, m) /\ content' = content /\ prepended' = 0
  BY DEF shrink
<1>c. m = readableBytes + reserve
  BY ZenonT(60)
<1> HIDE DEF m
<1>6. /\ o[1] \in Seq(Byte) /\ o[2] \in Nat /\ o[3] \in Nat
      /\ o[2] <= o[3] /\ o[3] + m <= Len(o[1]) /\ o[3] - o[2] = k - k
      /\ o[2] \in {k, kCheapPrepend}
      /\ Readable(o[1], o[2], o[3]) = Readable(Fresh, k, k)
      /\ Len(o[1]) = Len(Fresh) \/ (Len(o[1]) = k + m /\ k < m + kCheapPrepend)
      /\ Len(Fresh) <= Len(o[1])
      /\ EnsureAsserts(Fresh, k, k, m)
  <2>1. o = ensureWritableBytes(Fresh, k, k, m)
    BY Zenon
  <2>2. k <= k
    BY <1>1
  <2>3. k \in Nat /\ m \in Nat /\ k <= Len(Fresh) /\ Fresh \in Seq(Byte)
    BY <1>1, <1>2, <1>5, Zenon
  <2> HIDE DEF o
  <2>4. Ensured(o, Fresh, k, k, m)
    BY <2>1, <2>2, <2>3, EnsureIs, ZenonT(60)
  <2> QED
    BY <2>4, ZenonT(60) DEF Ensured
<1>7. Readable(Fresh, k, k) = <<>>
  BY <1>1, <1>2, <1>5, ReadableNothing
<1>9. fault' = FALSE
  BY <1>6, <1>b, Zenon
<1>10. /\ b1 \in Seq(Byte) /\ r1 \in Nat /\ w1 \in Nat /\ r1 <= w1
       /\ w1 + readableBytes <= Len(b1) /\ w1 <= Len(b1) /\ r1 = k
  <2>1. /\ b1 \in Seq(Byte) /\ r1 \in Nat /\ w1 \in Nat /\ r1 <= w1
        /\ w1 + m <= Len(b1) /\ r1 = k
    BY <1>6, Zenon
  <2> HIDE DEF o, b1, r1, w1
  <2>2. Len(b1) \in Nat
    BY <2>1
  <2> QED
    BY <1>1, <1>4, <1>c, <2>1, <2>2
<1>11. Readable(b1, r1, w1) = <<>>
  BY <1>6, <1>7, Zenon
<1>12. Len(b1) = k + kInitialSize \/ Len(b1) = k + m
  BY <1>2, <1>6, SMTT(30), Z3T(30)
<1> HIDE DEF b1, r1, w1, R, o
<1>d. R \in Seq(Byte)
  BY <1>3
<1>14. /\ a[1] \in Seq(Byte) /\ a[2] \in Nat /\ a[3] \in Nat
       /\ a[2] <= a[3] /\ a[3] <= Len(a[1])
       /\ a[2] \in {r1, kCheapPrepend}
       /\ Readable(a[1], a[2], a[3]) = Readable(b1, r1, w1) \o R
       /\ Len(a[1]) = Len(b1) \/ (Len(a[1]) = w1 + Len(R) /\ r1 < Len(R) + kCheapPrepend)
       /\ Len(b1) <= Len(a[1])
  <2>1. b1 \in Seq(Byte) /\ r1 \in Nat /\ w1 \in Nat /\ r1 <= w1 /\ w1 <= Len(b1)
    BY <1>10
  <2> QED
    BY <1>d, <2>1, AppendedIs, Zenon
<1> HIDE DEF a
<1>15. ContentKept'
  <2>1. <<>> \o R = R
    BY <1>3
  <2> QED
    BY <1>3, <1>a, <1>b, <1>11, <1>14, <2>1, SMTT(30), Z3T(30) DEF ContentKept
<1>16. Len(a[1]) = Len(b1)
  BY <1>3, <1>4, <1>10, <1>14, SMTT(30), Z3T(30)
<1>17. SizeBounded'
  BY <1>1, <1>4, <1>a, <1>c, <1>12, <1>16, SMTT(30), Z3T(30) DEF SizeBounded, MaxOf
<1>18. HeaderFits' /\ prepended' \in 0 .. kCheapPrepend /\ kCheapPrepend <= Len(bytes')
  BY <1>1, <1>a, <1>b, <1>10, <1>14, SMTT(30), Z3T(30) DEF HeaderFits
<1> QED
  BY <1>3, <1>4, <1>a, <1>b, <1>9, <1>14, <1>15, <1>17, <1>18, SMTT(30), Z3T(30) DEF BufferInv

\* readFd() keeps the invariant, with and without a detour over extrabuf.
LEMMA ReadFdInv ==
  ASSUME BufferInv, NEW data \in Strings, readFd(data)
  PROVE  BufferInv'
<1> DEFINE n == Len(data)
           R == Readable(bytes, readerIndex, writerIndex)
<1>1. data \in Seq(Byte) /\ n \in Nat /\ n <= MaxReadable
  BY StringsAreSeqs
<1>2. /\ bytes \in Seq(Byte) /\ readerIndex \in Nat /\ writerIndex \in Nat
      /\ readerIndex <= writerIndex /\ writerIndex <= Len(bytes)
  BY DEF BufferInv
<1>a. Len(bytes) \in Nat
  BY <1>2
<1>3. R = content /\ content \in Seq(Byte) /\ Len(content) = writerIndex - readerIndex
  BY ContentLength, Zenon DEF BufferInv, ContentKept
<1>4. content' = content \o data /\ prepended' = prepended /\ Len(content) + n <= MaxReadable
  BY SMTT(30), Z3T(30) DEF readFd
<1>5. content' \in Seq(Byte) /\ Len(content') = Len(content) + n
  BY <1>1, <1>3, <1>4, ConcatProperties, SMTT(30), Z3T(30)
<1>6. CASE /\ n <= writableBytes /\ bytes' = Copied(bytes, writerIndex, data)
           /\ writerIndex' = writerIndex + n /\ UNCHANGED <<readerIndex, fault>>
  <2>1. writerIndex + n <= Len(bytes)
    BY <1>1, <1>2, <1>a, <1>6, SMTT(30), Z3T(30) DEF writableBytes
  <2>2. bytes' \in Seq(Byte) /\ Len(bytes') = Len(bytes)
    BY <1>1, <1>2, <1>6, <2>1, CopiedIs, ZenonT(60)
  <2>3. Readable(bytes', readerIndex, writerIndex + n) = R \o data
    BY <1>1, <1>2, <1>6, <2>1, ReadableAppend, SMTT(30), Z3T(30)
  <2>4. ContentKept'
    BY <1>3, <1>4, <1>6, <2>3, SMTT(30), Z3T(30) DEF ContentKept
  <2>5. readerIndex' <= writerIndex' /\ writerIndex' \in Nat /\ writerIndex' <= Len(bytes')
    BY <1>1, <1>2, <1>6, <2>1, <2>2, SMTT(30), Z3T(30)
  <2>6. HeaderFits' /\ SizeBounded' /\ kCheapPrepend <= Len(bytes')
    BY <1>4, <1>6, <2>2 DEF BufferInv, HeaderFits, SizeBounded
  <2>7. Len(content') <= MaxReadable
    BY <1>4, <1>5
  <2> QED
    BY <1>2, <1>4, <1>5, <1>6, <2>2, <2>4, <2>5, <2>6, <2>7, SMTT(30), Z3T(30) DEF BufferInv
<1>7. CASE n > writableBytes
  <2> DEFINE wr == writableBytes
             first == SubSeq(data, 1, wr)
             rest == SubSeq(data, wr + 1, n)
             full == Copied(bytes, writerIndex, first)
             a == Appended(full, readerIndex, Len(bytes), rest)
  <2>1. wr \in Nat /\ wr < n /\ writerIndex + wr = Len(bytes)
    BY <1>1, <1>2, <1>a, <1>7, SMTT(30), Z3T(30) DEF writableBytes
  <2>2. bytes' = a[1] /\ readerIndex' = a[2] /\ writerIndex' = a[3]
    BY <1>1, <1>7, <2>1, SMTT(30), Z3T(30) DEF readFd, setBuffer
  <2>3. fault' = ~EnsureAsserts(full, readerIndex, Len(bytes), Len(rest))
    BY <1>1, <1>7, <2>1, SMTT(30), Z3T(30) DEF readFd
  <2> HIDE DEF wr
  <2>4. first \in Seq(Byte) /\ Len(first) = wr /\ rest \in Seq(Byte) /\ Len(rest) = n - wr
    BY <1>1, <2>1
  <2>5. first \o rest = data
    <3>1. wr <= Len(data)
      BY <1>1, <2>1, SMTT(30), Z3T(30)
    <3> QED
      BY <1>1, <2>1, <3>1, SplitSeq, Zenon
  <2> HIDE DEF first, rest
  <2>6. writerIndex + Len(first) = Len(bytes) /\ writerIndex + Len(first) <= Len(bytes)
    BY <1>a, <2>1, <2>4, SMTT(30), Z3T(30)
  <2>7. full \in Seq(Byte) /\ Len(full) = Len(bytes)
    BY <1>2, <2>4, <2>6, CopiedIs, ZenonT(60)
  <2>8. Readable(full, readerIndex, Len(bytes)) = R \o first
    <3>1. Readable(full, readerIndex, writerIndex + Len(first)) = R \o first
      BY <1>2, <2>4, <2>6, ReadableAppend, ZenonT(60)
    <3> QED
      BY <2>6, <3>1, SMTT(30), Z3T(30)
  <2> HIDE DEF full
  <2>9. readerIndex <= Len(bytes) /\ Len(bytes) <= Len(full)
    BY <1>2, <1>a, <2>7
  <2>10. /\ a[1] \in Seq(Byte) /\ a[2] \in Nat /\ a[3] \in Nat
         /\ a[2] <= a[3] /\ a[3] <= Len(a[1])
         /\ a[2] \in {readerIndex, kCheapPrepend}
         /\ Readable(a[1], a[2], a[3]) = Readable(full, readerIndex, Len(bytes)) \o rest
         /\ Len(a[1]) = Len(full) \/ (Len(a[1]) = Len(bytes) + Len(rest) /\ readerIndex < Len(rest) + kCheapPrepend)
         /\ Len(full) <= Len(a[1])
    BY <1>2, <1>a, <2>4, <2>7, <2>9, AppendedIs, Zenon
  <2>11. EnsureAsserts(full, readerIndex, Len(bytes), Len(rest))
    <3>1. Len(rest) \in Nat
      BY <2>4, SMTT(30), Z3T(30)
    <3>2. Ensured(ensureWritableBytes(full, readerIndex, Len(bytes), Len(rest)), full, readerIndex,
                  Len(bytes), Len(rest))
      BY <1>2, <1>a, <2>7, <2>9, <3>1, EnsureIs, Zenon
    <3> QED
      BY <3>2, Zenon DEF Ensured
  <2> HIDE DEF a
  <2>12. ContentKept'
    <3>1. (content \o first) \o rest = content \o (first \o rest)
      BY <1>3, <2>4, SMTT(30), Z3T(30)
    <3> QED
      BY <1>3, <1>4, <2>2, <2>5, <2>8, <2>10, <3>1, SMTT(30), Z3T(30) DEF ContentKept
  <2>13. SizeBounded'
    <3>1. Len(a[1]) \in Nat
      BY <2>10
    <3>a. (writerIndex - readerIndex) + n <= MaxReadable
      BY <1>3, <1>4
    <3>b. Len(bytes) + Len(rest) = writerIndex + n /\ Len(rest) <= n /\ Len(rest) \in Nat
      <4>1. Len(rest) = n - wr /\ wr \in Nat /\ wr < n /\ Len(bytes) = writerIndex + wr
        BY <2>1, <2>4
      <4>2. writerIndex \in Nat /\ n \in Nat
        BY <1>1, <1>2, SMTT(30), Z3T(30)
      <4> HIDE DEF n
      <4> QED
        BY <4>1, <4>2
    <3>c. \/ Len(a[1]) = Len(bytes)
          \/ Len(a[1]) = Len(bytes) + Len(rest) /\ readerIndex < Len(rest) + kCheapPrepend
      BY <2>7, <2>10, SMTT(30), Z3T(30)
    <3>2. Len(a[1]) <= Len(bytes) \/ Len(a[1]) <= kCheapPrepend + MaxReadable + MaxReadable
      BY <1>1, <1>2, <1>a, <3>a, <3>b, <3>c, <3>1, SizeAssumption, SMTT(30), Z3T(30)
    <3> QED
      BY <1>a, <2>2, <3>1, <3>2, SizeAssumption, SMTT(30), Z3T(30) DEF BufferInv, SizeBounded, MaxOf
  <2>14. HeaderFits'
    BY <1>4, <2>2, <2>10, HeaderStays, ZenonT(60)
  <2>15. kCheapPrepend <= Len(bytes')
    BY <1>a, <2>2, <2>7, <2>10, SizeAssumption, SMTT(30), Z3T(30) DEF BufferInv
  <2>16. Len(content') <= MaxReadable
    BY <1>4, <1>5
  <2> QED
    BY <1>4, <1>5, <2>2, <2>3, <2>10, <2>11, <2>12, <2>13, <2>14, <2>15, <2>16, ZenonT(60) DEF BufferInv
<1> QED
  BY <1>6, <1>7 DEF readFd

\* Every operation keeps the invariant.
LEMMA BufferNextInv == BufferInv /\ [BufferNext]_bufferVars => BufferInv'
<1> SUFFICES ASSUME BufferInv, [BufferNext]_bufferVars PROVE BufferInv'
  OBVIOUS
<1>1. CASE BufferNext
  BY <1>1, AppendInv, PrependInv, ReadFdInv, RetrieveInv, ShrinkInv, ZenonT(60) DEF BufferNext
<1>2. CASE UNCHANGED bufferVars
  BY <1>2, SMTT(30), Z3T(30) DEF bufferVars, BufferInv, ContentKept, HeaderFits, SizeBounded
<1> QED
  BY <1>1, <1>2

\* The indices stay in order and the assertions of makeSpace() and
\* ensureWritableBytes() hold, whatever the sizes.
THEOREM BufferIndices == BufferSpec => []IndicesInOrder
<1>1. BufferInv => IndicesInOrder
  BY DEF BufferInv, IndicesInOrder
<1> QED
  BY <1>1, BufferInitInv, BufferNextInv, PTL DEF BufferSpec

\* What can be read is what was put in and not taken out, for any sizes of the
\* vector, of kCheapPrepend and of extrabuf.
THEOREM BufferContent == BufferSpec => []ContentKept
<1>1. BufferInv => ContentKept
  BY DEF BufferInv
<1> QED
  BY <1>1, BufferInitInv, BufferNextInv, PTL DEF BufferSpec

\* A header fits in front of whatever was appended.
THEOREM BufferHeader == BufferSpec => []HeaderFits
<1>1. BufferInv => HeaderFits
  BY DEF BufferInv
<1> QED
  BY <1>1, BufferInitInv, BufferNextInv, PTL DEF BufferSpec

\* The vector never exceeds its initial size or twice what was readable.
THEOREM BufferSize == BufferSpec => []SizeBounded
<1>1. BufferInv => SizeBounded
  BY DEF BufferInv
<1> QED
  BY <1>1, BufferInitInv, BufferNextInv, PTL DEF BufferSpec
=============================================================================
