---------------------------- MODULE FunctorQueue ----------------------------
(***************************************************************************)
(* What an EventLoop promises to the callers of runInLoop and queueInLoop: *)
(* functors that were queued run one at a time, in the order in which they *)
(* were queued, and none is skipped; a call made in the loop thread itself *)
(* may instead run at once.                                                *)
(***************************************************************************)
EXTENDS Sequences

CONSTANT Functor

VARIABLES waiting,   \* functors that were queued and have not run
          ran        \* functors that have run, oldest first

Init == waiting = <<>> /\ ran = <<>>

Submit(f) == waiting' = Append(waiting, f) /\ UNCHANGED ran

RunNow(f) == ran' = Append(ran, f) /\ UNCHANGED waiting

RunNext ==
  /\ waiting # <<>>
  /\ ran' = Append(ran, Head(waiting))
  /\ waiting' = Tail(waiting)

Next == RunNext \/ \E f \in Functor : Submit(f) \/ RunNow(f)

Spec == Init /\ [][Next]_<<waiting, ran>>
=============================================================================
