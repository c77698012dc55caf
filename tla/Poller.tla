------------------------------- MODULE Poller -------------------------------
(***************************************************************************)
(* What muduo::net::Poller promises to EventLoop, whichever of PollPoller  *)
(* and EPollPoller newDefaultPoller() returns: poll() reports channels     *)
(* that are watched and ready, none that is not, and at least one when     *)
(* there is one.                                                           *)
(***************************************************************************)
EXTENDS Integers, FiniteSets

CONSTANTS Fds, Events

VARIABLES
  interest,             \* the events watched on each descriptor
  ready,                \* the descriptors that are ready
  active                \* what poll() reported, {} after any other step

vars == <<interest, ready, active>>

Reportable == {fd \in ready : interest[fd] # {}}

Init ==
  /\ interest = [fd \in Fds |-> {}] /\ ready = {} /\ active = {}

\* Poller::updateChannel, and Poller::removeChannel of a channel without events.
updateChannel(fd) ==
  /\ \E ev \in SUBSET Events : interest' = [interest EXCEPT ![fd] = ev]
  /\ active' = {} /\ UNCHANGED ready

\* Poller::poll
poll ==
  /\ active' \in SUBSET Reportable
  /\ Reportable # {} => active' # {}
  /\ UNCHANGED <<interest, ready>>

readinessChanges ==
  /\ ready' \in SUBSET Fds
  /\ active' = {} /\ UNCHANGED interest

Next == poll \/ readinessChanges \/ \E fd \in Fds : updateChannel(fd)

Spec == Init /\ [][Next]_vars

\* A channel that stays enabled and ready is reported again and again.
Reports ==
  \A fd \in Fds : <>[](fd \in ready /\ interest[fd] # {}) => []<>(fd \in active)
=============================================================================
