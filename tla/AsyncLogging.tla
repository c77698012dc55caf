---------------------------- MODULE AsyncLogging ----------------------------
(***************************************************************************)
(* muduo::AsyncLogging: threads append lines to a buffer, a logging thread *)
(* takes the full buffers, writes them to a LogFile and hands the emptied  *)
(* buffers back.  A critical section of mutex_ is one step.                *)
(***************************************************************************)
EXTENDS LogFile, Functions

CONSTANTS BufferSize,           \* lines a buffer holds (avail() > len)
          MaxBuffers,           \* 25: more buffers than this are dropped
          MaxLines              \* bound: lines appended

ASSUME LoggingAssumption ==
  BufferSize \in Nat \ {0} /\ MaxBuffers \in Nat \ {0, 1} /\ MaxLines \in Nat

VARIABLES
  running,                      \* running_
  currentBuffer,                \* the lines in currentBuffer_
  nextBuffer,                   \* is there a nextBuffer_?
  buffers,                      \* buffers_
  newBuffer1, newBuffer2,       \* is there a newBuffer1, a newBuffer2?
  buffersToWrite,               \* what is left of buffersToWrite
  spare,                        \* written buffers that can be used again, 2 at most
  logger,                       \* where the logging thread is
  owner,                        \* where the thread that calls start() and stop() is
  appended,                     \* history: the number of calls of append(); they number the lines
  dropped,                      \* history: the lines dropped with their buffers
  fault                         \* has an assertion failed?

loggingVars == <<running, currentBuffer, nextBuffer, buffers, newBuffer1, newBuffer2,
                 buffersToWrite, spare, logger, owner, appended, dropped, fault>>
vars == <<logFileVars, loggingVars>>

Notice == 0                     \* "Dropped log messages ..."
Line == 1 .. MaxLines

Init ==
  /\ LogFileInit
  /\ running = FALSE /\ currentBuffer = <<>> /\ nextBuffer = TRUE /\ buffers = <<>>
  /\ newBuffer1 = TRUE /\ newBuffer2 = TRUE /\ buffersToWrite = <<>> /\ spare = 0
  /\ logger = "none" /\ owner = "new" /\ appended = 0 /\ dropped = {} /\ fault = FALSE
-----------------------------------------------------------------------------
\* start(): the thread is started; latch_.wait() ends when it runs.
start ==
  /\ owner = "new"
  /\ running' = TRUE /\ logger' = "begin" /\ owner' = "latch"
  /\ UNCHANGED <<logFileVars, currentBuffer, nextBuffer, buffers, newBuffer1, newBuffer2,
                 buffersToWrite, spare, appended, dropped, fault>>

started ==
  /\ owner = "latch" /\ logger # "begin"
  /\ owner' = "running"
  /\ UNCHANGED <<logFileVars, running, currentBuffer, nextBuffer, buffers, newBuffer1, newBuffer2,
                 buffersToWrite, spare, logger, appended, dropped, fault>>

\* append(): room in the current buffer, or a new one and a notification.
append ==
  LET line == appended + 1
      fits == Len(currentBuffer) < BufferSize
  IN /\ line <= MaxLines
     /\ appended' = line
     /\ \/ /\ fits
           /\ currentBuffer' = Append(currentBuffer, line)
           /\ UNCHANGED <<buffers, nextBuffer, logger>>
        \/ /\ ~fits
           /\ buffers' = Append(buffers, currentBuffer)
           /\ nextBuffer' = FALSE
           /\ currentBuffer' = <<line>>
           /\ logger' = IF logger = "wait" THEN "woken" ELSE logger
     /\ UNCHANGED <<logFileVars, running, newBuffer1, newBuffer2, buffersToWrite, spare, owner,
                    dropped, fault>>

\* stop(): the flag and the notification, both without the lock, and join.
stop ==
  /\ owner = "running"
  /\ running' = FALSE /\ owner' = "notify"
  /\ UNCHANGED <<logFileVars, currentBuffer, nextBuffer, buffers, newBuffer1, newBuffer2,
                 buffersToWrite, spare, logger, appended, dropped, fault>>

stopNotifies ==
  /\ owner = "notify"
  /\ owner' = "join"
  /\ logger' = IF logger = "wait" THEN "woken" ELSE logger
  /\ UNCHANGED <<logFileVars, running, currentBuffer, nextBuffer, buffers, newBuffer1, newBuffer2,
                 buffersToWrite, spare, appended, dropped, fault>>

join ==
  /\ owner = "join" /\ logger = "done"
  /\ owner' = "done"
  /\ UNCHANGED <<logFileVars, running, currentBuffer, nextBuffer, buffers, newBuffer1, newBuffer2,
                 buffersToWrite, spare, logger, appended, dropped, fault>>
-----------------------------------------------------------------------------
(* threadFunc                                                              *)

begin ==
  /\ logger = "begin"
  /\ fault' = ~running
  /\ openLogFile
  /\ logger' = "while"
  /\ UNCHANGED <<running, currentBuffer, nextBuffer, buffers, newBuffer1, newBuffer2,
                 buffersToWrite, spare, owner, appended, dropped>>

\* The while condition and the assertions after it; after the loop, flush().
while ==
  /\ logger = "while"
  /\ \/ /\ running
        /\ logger' = "lock"
        /\ fault' = ~(newBuffer1 /\ newBuffer2 /\ buffersToWrite = <<>>)
        /\ UNCHANGED logFileVars
     \/ /\ ~running
        /\ logger' = "done"
        /\ flush
        /\ UNCHANGED fault
  /\ UNCHANGED <<running, currentBuffer, nextBuffer, buffers, newBuffer1, newBuffer2,
                 buffersToWrite, spare, owner, appended, dropped>>

\* cond_.waitForSeconds(): not in a loop
wait ==
  /\ logger = "lock" /\ buffers = <<>>
  /\ logger' = "wait"
  /\ UNCHANGED <<logFileVars, running, currentBuffer, nextBuffer, buffers, newBuffer1, newBuffer2,
                 buffersToWrite, spare, owner, appended, dropped, fault>>

\* Mutant: cond_.wait(), which ends only when it is notified.
timeoutNever == FALSE

\* The wait ends after flushInterval_ seconds, or for no reason.
timeout ==
  /\ logger = "wait"
  /\ logger' = "woken"
  /\ UNCHANGED <<logFileVars, running, currentBuffer, nextBuffer, buffers, newBuffer1, newBuffer2,
                 buffersToWrite, spare, owner, appended, dropped, fault>>

\* Mutant: the current buffer is put in front of the full ones.
swapCurrentFirst ==
  /\ logger = "woken" \/ (logger = "lock" /\ buffers # <<>>)
  /\ logger' = "drop"
  /\ buffersToWrite' = <<currentBuffer>> \o buffers /\ buffers' = <<>>
  /\ currentBuffer' = <<>> /\ newBuffer1' = FALSE
  /\ newBuffer2' = nextBuffer /\ nextBuffer' = TRUE
  /\ UNCHANGED <<logFileVars, running, spare, owner, appended, dropped, fault>>

\* The critical section: take every buffer, the current one included, and leave
\* newBuffer1 and, when it is missing, newBuffer2.
swap ==
  /\ logger = "woken" \/ (logger = "lock" /\ buffers # <<>>)
  /\ logger' = "drop"
  /\ buffersToWrite' = Append(buffers, currentBuffer) /\ buffers' = <<>>
  /\ currentBuffer' = <<>> /\ newBuffer1' = FALSE
  /\ newBuffer2' = nextBuffer /\ nextBuffer' = TRUE
  /\ UNCHANGED <<logFileVars, running, spare, owner, appended, dropped, fault>>

\* The lines in a sequence of buffers.
Lines(bs) == UNION {Range(bs[i]) : i \in DOMAIN bs}

Kept(bs) == IF Len(bs) > MaxBuffers THEN SubSeq(bs, 1, 2) ELSE bs

\* Too many buffers: a notice is written and all but the first two are dropped.
drop ==
  /\ logger = "drop"
  /\ logger' = "write"
  /\ buffersToWrite' = Kept(buffersToWrite)
  /\ dropped' = dropped \cup (Lines(buffersToWrite) \ Lines(Kept(buffersToWrite)))
  /\ spare' = Len(Kept(buffersToWrite))
  /\ \/ Len(buffersToWrite) > MaxBuffers /\ append_unlocked(<<Notice>>)
     \/ Len(buffersToWrite) <= MaxBuffers /\ UNCHANGED logFileVars
  /\ UNCHANGED <<running, currentBuffer, nextBuffer, buffers, newBuffer1, newBuffer2, owner,
                 appended, fault>>

write ==
  /\ logger = "write" /\ buffersToWrite # <<>>
  /\ append_unlocked(Head(buffersToWrite))
  /\ buffersToWrite' = Tail(buffersToWrite)
  /\ UNCHANGED <<running, currentBuffer, nextBuffer, buffers, newBuffer1, newBuffer2, spare,
                 logger, owner, appended, dropped, fault>>

\* Mutant: the written buffers are not flushed.
recycleUnflushed ==
  /\ logger = "write" /\ buffersToWrite = <<>>
  /\ newBuffer1' = TRUE /\ newBuffer2' = TRUE /\ spare' = 0
  /\ logger' = "while"
  /\ UNCHANGED <<logFileVars, running, currentBuffer, nextBuffer, buffers, buffersToWrite, owner,
                 appended, dropped, fault>>

\* Two of the written buffers at most replace newBuffer1 and newBuffer2.
recycle ==
  LET has == IF spare > 2 THEN 2 ELSE spare
      needs == (IF newBuffer1 THEN 0 ELSE 1) + (IF newBuffer2 THEN 0 ELSE 1)
  IN /\ logger = "write" /\ buffersToWrite = <<>>
     /\ fault' = (has < needs)
     /\ newBuffer1' = TRUE /\ newBuffer2' = TRUE /\ spare' = 0
     /\ flush
     /\ logger' = "while"
     /\ UNCHANGED <<running, currentBuffer, nextBuffer, buffers, buffersToWrite, owner,
                    appended, dropped>>

threadFunc == begin \/ while \/ wait \/ timeout \/ swap \/ drop \/ write \/ recycle
ownerSteps == start \/ started \/ stopNotifies \/ join
clock == tick /\ UNCHANGED loggingVars

Next == ~fault /\ (threadFunc \/ ownerSteps \/ stop \/ append \/ clock)

Spec == Init /\ [][Next]_vars

\* Both threads go on and the timed wait ends; nobody has to append or to stop.
FairSpec == Spec /\ WF_vars(~fault /\ threadFunc) /\ WF_vars(~fault /\ ownerSteps)
-----------------------------------------------------------------------------
Output == [i \in DOMAIN files |-> files[i].lines]
Stream == Output \o buffersToWrite \o buffers \o <<currentBuffer>>

\* The lines that are not in the stdio buffer of file_.
OnDisk ==
  UNION {Range(SubSeq(Output[i], 1, Len(Output[i]) - IF i = Len(files) THEN unflushed ELSE 0)) :
         i \in DOMAIN files}

\* The lines of S were appended before those of T, and the lines of a buffer, and
\* of buffers that follow each other, one before the other.
Before(S, T) == \A k \in S \ {Notice}, l \in T \ {Notice} : k < l
Sorted(b) == \A i, j \in DOMAIN b : i < j => Before({b[i]}, {b[j]})
InOrder(bs) ==
  /\ \A i \in DOMAIN bs : Sorted(bs[i])
  /\ \A i, j \in DOMAIN bs : i < j => Before(Range(bs[i]), Range(bs[j]))

\* No line is lost, repeated or overtaken on its way through the buffers to the
\* files, except those that were dropped because more than MaxBuffers buffers were
\* waiting.  The assertions of threadFunc() hold: the written buffers always suffice
\* to replace the ones that were handed over.
LinesKept ==
  /\ InOrder(Stream)
  /\ Lines(Stream) \ {Notice} = (1 .. appended) \ dropped
  /\ ~fault

\* While the logger runs, an appended line is on disk in the end, or dropped.
LinesReachDisk ==
  \A l \in Line : l <= appended ~> l \in OnDisk \cup dropped \/ ~running

\* stop() returns, though its notification may come when nobody waits for it.
StopReturns == owner = "notify" ~> owner = "done"

\* Each file has a name of its own, and a full file is kept only for the rest of
\* the second in which it was made.
FilesRoll ==
  /\ \A i, j \in DOMAIN files : i < j => files[i].name < files[j].name
  /\ files # <<>> =>
       /\ files[Len(files)].name = lastRoll /\ startOfPeriod = Period(lastRoll)
       /\ Len(files[Len(files)].lines) > rollSize => lastAppend = lastRoll
=============================================================================
