----------------------------- MODULE PollPoller -----------------------------
(***************************************************************************)
(* muduo::net::PollPoller.  pollfds_ is a dense array: a channel keeps its *)
(* position in it, a channel without events stays in it with the           *)
(* descriptor -fd-1, which poll(2) skips, and a channel is removed by      *)
(* swapping its entry with the last one.                                   *)
(* An assertion that fails ends the process: pollFault is then the         *)
(* function in which it stands, and nothing is left of the poller.         *)
(***************************************************************************)
EXTENDS Channel

VARIABLES
  pollfds,              \* pollfds_
  pollIndex,            \* Channel::index_: position in pollfds_ from 0, or -1
  pollChannels,         \* keys of channels_
  pollActive,           \* activeChannels after poll(), {} after any other step
  pollFault,            \* where an assertion has failed, or "none"
  unused                \* history: channels added without events, not updated since

pollVars == <<pollfds, pollIndex, pollChannels, pollActive, pollFault, unused>>

PollFd == [fd : Int, events : SUBSET Events]

PollInit ==
  /\ pollfds = <<>> /\ pollIndex = [fd \in Fds |-> -1] /\ pollChannels = {}
  /\ pollActive = {} /\ pollFault = "none" /\ unused = {}

\* The descriptor stored for a channel without events, and the way back.
Ignored(fd) == -fd - 1
Restored(n) == IF n < 0 THEN -n - 1 ELSE n

\* An assertion of the function f fails.
Aborts(f) ==
  /\ pollfds' = <<>> /\ pollIndex' = [fd \in Fds |-> -1] /\ pollChannels' = {}
  /\ pollActive' = {} /\ pollFault' = f /\ unused' = {}

\* The function f goes on with step if its assertions hold.
Asserting(f, ok, step) == IF ok THEN step /\ UNCHANGED pollFault ELSE Aborts(f)

InRange(i) == i >= 0 /\ i < Len(pollfds)

\* PollPoller::updateChannel of a channel with index_ < 0, events_ = ev
pollAdd(fd, ev) ==
  /\ pollfds' = Append(pollfds, [fd |-> fd, events |-> ev])
  /\ pollIndex' = [pollIndex EXCEPT ![fd] = Len(pollfds)]
  /\ pollChannels' = pollChannels \cup {fd}
  /\ unused' = IF ev = {} THEN unused \cup {fd} ELSE unused
  /\ pollActive' = {}

\* PollPoller::updateChannel of a channel that is already in pollfds_.  The
\* descriptor of the entry is not set back when events_ is no longer empty.
pollModify(fd, ev) ==
  /\ pollfds' = [pollfds EXCEPT ![pollIndex[fd] + 1] =
                   [fd |-> IF ev = {} THEN Ignored(fd) ELSE @.fd, events |-> ev]]
  /\ unused' = unused \ {fd}
  /\ pollActive' = {} /\ UNCHANGED <<pollIndex, pollChannels>>

\* The assertions of updateChannel() on the entry of a channel
Modifiable(fd) ==
  /\ fd \in pollChannels /\ InRange(pollIndex[fd])
  /\ pollfds[pollIndex[fd] + 1].fd \in {fd, Ignored(fd)}

pollUpdateChannel(fd, ev) ==
  IF pollIndex[fd] < 0
  THEN Asserting("updateChannel", fd \notin pollChannels, pollAdd(fd, ev))
  ELSE Asserting("updateChannel", Modifiable(fd), pollModify(fd, ev))

\* Mutant: the descriptor of the last entry is not decoded.
IndexAfterRemoveRaw(fd) ==
  [[pollIndex EXCEPT ![pollfds[Len(pollfds)].fd] = pollIndex[fd]] EXCEPT ![fd] = -1]

\* The index_ of each channel after removeChannel(): the channel of the last
\* entry takes over the position of fd, and the next Channel that is made for
\* fd starts with -1.
IndexAfterRemove(fd) ==
  LET last == Restored(pollfds[Len(pollfds)].fd)
  IN [[pollIndex EXCEPT ![last] = pollIndex[fd]] EXCEPT ![fd] = -1]

\* The assertions of removeChannel()
Removable(fd) ==
  /\ fd \in pollChannels /\ events[fd] = {} /\ InRange(pollIndex[fd])
  /\ pollfds[pollIndex[fd] + 1] = [fd |-> Ignored(fd), events |-> {}]

\* The entry of fd is swapped with the last one, which is then dropped.
pollRemove(fd) ==
  LET n == Len(pollfds)
  IN /\ pollfds' = SubSeq([pollfds EXCEPT ![pollIndex[fd] + 1] = pollfds[n]], 1, n - 1)
     /\ pollIndex' = IndexAfterRemove(fd)
     /\ pollChannels' = pollChannels \ {fd}
     /\ pollActive' = {} /\ UNCHANGED unused

\* PollPoller::removeChannel
pollRemoveChannel(fd) == Asserting("removeChannel", Removable(fd), pollRemove(fd))

\* The descriptors poll(2) reports: ready for what their entry asks for.
Reported == {pollfds[i].fd : i \in {j \in DOMAIN pollfds :
                                      pollfds[j].fd \in ready /\ pollfds[j].events # {}}}

\* PollPoller::poll and fillActiveChannels
pollPoll ==
  Asserting("fillActiveChannels", Reported \subseteq pollChannels,
            pollActive' = Reported /\ UNCHANGED <<pollfds, pollIndex, pollChannels, unused>>)

=============================================================================
