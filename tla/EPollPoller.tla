----------------------------- MODULE EPollPoller -----------------------------
(***************************************************************************)
(* muduo::net::EPollPoller.  The kernel keeps the interest list; index_ of *)
(* a channel says whether it is on that list.  The array events_ that      *)
(* epoll_wait fills doubles whenever it comes back full.                   *)
(* An assertion that fails, or LOG_SYSFATAL, ends the process: epollFault. *)
(***************************************************************************)
EXTENDS Channel, FiniteSetsExt

CONSTANT kInitEventListSize

ASSUME ListAssumption == kInitEventListSize \in Nat \ {0}

kNew == -1
kAdded == 1
kDeleted == 2

VARIABLES
  epollSet,             \* kernel: the interest list, from descriptor to events
  epollIndex,           \* Channel::index_: kNew, kAdded or kDeleted
  epollChannels,        \* keys of channels_
  eventListSize,        \* events_.size()
  epollActive,          \* activeChannels after poll(), {} after any other step
  epollFault            \* has an assertion or epoll_ctl(ADD, MOD) failed?

epollVars == <<epollSet, epollIndex, epollChannels, eventListSize, epollActive, epollFault>>

EPollInit ==
  /\ epollSet = [fd \in {} |-> {}] /\ epollIndex = [fd \in Fds |-> kNew]
  /\ epollChannels = {} /\ eventListSize = kInitEventListSize
  /\ epollActive = {} /\ epollFault = FALSE

\* epoll_ctl(2): ADD fails for a descriptor on the list, MOD for one that is not.
ctlFails(op, fd) ==
  \/ op = "ADD" /\ fd \in DOMAIN epollSet
  \/ op = "MOD" /\ fd \notin DOMAIN epollSet

\* EPollPoller::update
update(op, fd, ev) ==
  epollSet' = IF op = "DEL"
              THEN [f \in DOMAIN epollSet \ {fd} |-> epollSet[f]]
              ELSE [f \in DOMAIN epollSet \cup {fd} |-> IF f = fd THEN ev ELSE epollSet[f]]

\* EPollPoller::updateChannel of a channel that is not on the list
epollAdd(fd, ev) ==
  /\ epollIndex[fd] \in {kNew, kDeleted}
  /\ epollFault' = \/ (fd \in epollChannels) # (epollIndex[fd] = kDeleted)
                   \/ ctlFails("ADD", fd)
  /\ epollChannels' = epollChannels \cup {fd}
  /\ epollIndex' = [epollIndex EXCEPT ![fd] = kAdded]
  /\ update("ADD", fd, ev)

\* Mutant: a channel without events stays kAdded.
epollModifyStaysAdded(fd, ev) ==
  /\ epollIndex[fd] = kAdded
  /\ epollFault' = \/ fd \notin epollChannels
                   \/ ev # {} /\ ctlFails("MOD", fd)
  /\ update(IF ev = {} THEN "DEL" ELSE "MOD", fd, ev)
  /\ UNCHANGED <<epollIndex, epollChannels>>

\* Mutant: a channel without events is marked as deleted and stays on the kernel's list.
epollModifyStaysListed(fd, ev) ==
  /\ epollIndex[fd] = kAdded
  /\ epollFault' = (fd \notin epollChannels)
  /\ IF ev = {} THEN UNCHANGED epollSet ELSE update("MOD", fd, ev)
  /\ epollIndex' = [epollIndex EXCEPT ![fd] = IF ev = {} THEN kDeleted ELSE kAdded]
  /\ UNCHANGED epollChannels

\* EPollPoller::updateChannel of a channel that is on it
epollModify(fd, ev) ==
  /\ epollIndex[fd] = kAdded
  /\ epollFault' = \/ fd \notin epollChannels
                   \/ ev # {} /\ ctlFails("MOD", fd)
  /\ \/ /\ ev = {}
        /\ update("DEL", fd, ev)
        /\ epollIndex' = [epollIndex EXCEPT ![fd] = kDeleted]
     \/ /\ ev # {}
        /\ update("MOD", fd, ev)
        /\ UNCHANGED epollIndex
  /\ UNCHANGED epollChannels

epollUpdateChannel(fd, ev) ==
  /\ epollAdd(fd, ev) \/ epollModify(fd, ev)
  /\ epollActive' = {} /\ UNCHANGED eventListSize

\* EPollPoller::removeChannel
epollRemoveChannel(fd) ==
  /\ epollFault' = ~(fd \in epollChannels /\ events[fd] = {} /\ epollIndex[fd] # kNew)
  /\ epollChannels' = epollChannels \ {fd}
  /\ IF epollIndex[fd] = kAdded THEN update("DEL", fd, {}) ELSE UNCHANGED epollSet
  /\ epollIndex' = [epollIndex EXCEPT ![fd] = kNew]
  /\ epollActive' = {} /\ UNCHANGED eventListSize

\* epoll_wait(2): as many ready descriptors as fit, the kernel chooses which.
epoll_wait ==
  LET R == {fd \in ready \cap DOMAIN epollSet : epollSet[fd] # {}}
  IN {S \in SUBSET R : Cardinality(S) = Min({Cardinality(R), eventListSize})}

\* Mutant: events_ never grows.
epollPollNeverGrows ==
  /\ epollActive' \in epoll_wait
  /\ epollFault' = ~(epollActive' \subseteq epollChannels)
  /\ UNCHANGED <<epollSet, epollIndex, epollChannels, eventListSize>>

\* EPollPoller::poll and fillActiveChannels
epollPoll ==
  /\ epollActive' \in epoll_wait
  /\ epollFault' = ~(epollActive' \subseteq epollChannels)
  /\ eventListSize' = IF Cardinality(epollActive') = eventListSize
                      THEN 2 * eventListSize ELSE eventListSize
  /\ UNCHANGED <<epollSet, epollIndex, epollChannels>>

=============================================================================
