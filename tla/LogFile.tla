------------------------------- MODULE LogFile -------------------------------
(***************************************************************************)
(* muduo::LogFile without a mutex, as AsyncLogging uses it: it appends to  *)
(* a file and changes to a new one, named by the second, when the file is  *)
(* full or a period is over.  A line counts as one byte.                   *)
(***************************************************************************)
EXTENDS Integers, Sequences

CONSTANTS rollSize, flushInterval, checkEveryN,
          kRollPerSeconds,
          MaxTime               \* bound: the clock

ASSUME LogFileAssumption ==
  /\ rollSize \in Nat /\ flushInterval \in Nat /\ MaxTime \in Nat
  /\ checkEveryN \in Nat \ {0} /\ kRollPerSeconds \in Nat \ {0}

VARIABLES
  now,                          \* time(2)
  files,                        \* the files written so far; the last one is file_
  unflushed,                    \* lines in the stdio buffer of file_
  count,                        \* count_
  startOfPeriod, lastRoll, lastFlush,
  lastAppend                    \* history: the time of the last append

logFileVars == <<now, files, unflushed, count, startOfPeriod, lastRoll, lastFlush, lastAppend>>

LogFileInit ==
  /\ now = 1 /\ files = <<>> /\ unflushed = 0 /\ count = 0
  /\ startOfPeriod = 0 /\ lastRoll = 0 /\ lastFlush = 0 /\ lastAppend = 0

Period(t) == (t \div kRollPerSeconds) * kRollPerSeconds

\* rollFile() when the files are fs and the last of them has n unflushed lines:
\* once per second at most.  Closing the old file flushes it.
rollFile(fs, n) ==
  \/ /\ now > lastRoll
     /\ lastRoll' = now /\ lastFlush' = now /\ startOfPeriod' = Period(now)
     /\ files' = Append(fs, [name |-> now, lines |-> <<>>])
     /\ unflushed' = 0
  \/ /\ now <= lastRoll
     /\ files' = fs /\ unflushed' = n
     /\ UNCHANGED <<lastRoll, lastFlush, startOfPeriod>>

\* LogFile::LogFile
openLogFile ==
  rollFile(files, unflushed) /\ UNCHANGED <<now, count, lastAppend>>

\* Mutant: a full file is kept until the period is over.
FullNever(lines) == FALSE

\* file_->writtenBytes() > rollSize_
Full(lines) == Len(lines) > rollSize

\* append_unlocked(): append, then roll a full file; every checkEveryN_ appends
\* roll at the end of the period, or flush.
append_unlocked(lines) ==
  LET n == Len(files)
      fs == [files EXCEPT ![n].lines = @ \o lines]
      buffered == unflushed + Len(lines)
      check == count + 1 >= checkEveryN
      over == Period(now) # startOfPeriod
      flushes == now - lastFlush > flushInterval
  IN /\ lastAppend' = now
     /\ \/ /\ Full(fs[n].lines)
           /\ rollFile(fs, buffered)
           /\ UNCHANGED count
        \/ /\ ~Full(fs[n].lines) /\ ~check
           /\ count' = count + 1
           /\ files' = fs /\ unflushed' = buffered
           /\ UNCHANGED <<lastRoll, lastFlush, startOfPeriod>>
        \/ /\ ~Full(fs[n].lines) /\ check /\ over
           /\ count' = 0
           /\ rollFile(fs, buffered)
        \/ /\ ~Full(fs[n].lines) /\ check /\ ~over
           /\ count' = 0
           /\ files' = fs
           /\ unflushed' = IF flushes THEN 0 ELSE buffered
           /\ lastFlush' = IF flushes THEN now ELSE lastFlush
           /\ UNCHANGED <<lastRoll, startOfPeriod>>
     /\ UNCHANGED now

\* flush()
flush ==
  unflushed' = 0
    /\ UNCHANGED <<now, files, count, startOfPeriod, lastRoll, lastFlush, lastAppend>>

tick ==
  /\ now < MaxTime /\ now' = now + 1
  /\ UNCHANGED <<files, unflushed, count, startOfPeriod, lastRoll, lastFlush, lastAppend>>
=============================================================================
