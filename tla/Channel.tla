------------------------------- MODULE Channel -------------------------------
(***************************************************************************)
(* muduo::net::Channel as the pollers see it: the events it asks for and   *)
(* the calls that change them.  At most one Channel exists for a file      *)
(* descriptor, so a channel is named by its descriptor.                    *)
(***************************************************************************)
EXTENDS Integers, Sequences, FiniteSets

CONSTANT Fds            \* the file descriptors the process can get

ASSUME FdsAssumption == Fds \subseteq Nat /\ IsFiniteSet(Fds)

VARIABLES
  events,               \* events_ of each descriptor's channel
  ready                 \* kernel: the descriptors that are ready for all of Events

kReadEvent == "POLLIN"
kWriteEvent == "POLLOUT"
Events == {kReadEvent, kWriteEvent}

\* The values that enableReading, enableWriting, disableWriting and disableAll
\* give to events_ before they call update().
NewEvents(fd) ==
  {events[fd] \cup {kReadEvent}, events[fd] \cup {kWriteEvent},
   events[fd] \ {kWriteEvent}, {}}

\* The kernel's side: a descriptor becomes ready, or what was ready is used up.
readinessChanges(fd) ==
  ready' = IF fd \in ready THEN ready \ {fd} ELSE ready \cup {fd}
=============================================================================
