------------------------------ MODULE Pollers ------------------------------
(***************************************************************************)
(* Channel and EventLoop driving the two pollers in step: whatever the     *)
(* owners of the channels do is passed to a PollPoller and to an           *)
(* EPollPoller, as if the program ran once with MUDUO_USE_POLL and once    *)
(* without.                                                                *)
(***************************************************************************)
EXTENDS PollPoller, EPollPoller

vars == <<events, ready, pollVars, epollVars>>

Init ==
  /\ events = [fd \in Fds |-> {}] /\ ready = {}
  /\ PollInit /\ EPollInit

\* Each program goes on until an assertion ends it.
PollDoes(step) == IF pollFault = "none" THEN step ELSE UNCHANGED pollVars
EPollDoes(step) == IF epollFault THEN UNCHANGED epollVars ELSE step

\* Channel::update and EventLoop::updateChannel.
updateChannel(fd) ==
  \E ev \in NewEvents(fd) :
    /\ events' = [events EXCEPT ![fd] = ev]
    /\ PollDoes(pollUpdateChannel(fd, ev))
    /\ EPollDoes(epollUpdateChannel(fd, ev))
    /\ UNCHANGED ready

\* Channel::remove and EventLoop::removeChannel, from a functor or the channel's
\* own handler, so that its assertion on activeChannels_ holds; the owner destroys
\* the channel and closes the descriptor.
removeChannel(fd) ==
  /\ epollIndex[fd] # kNew /\ events[fd] = {}
  /\ PollDoes(pollRemoveChannel(fd)) /\ EPollDoes(epollRemoveChannel(fd))
  /\ ready' = ready \ {fd}
  /\ UNCHANGED events

\* EventLoop::loop: activeChannels_.clear() and poller_->poll()
poll ==
  /\ PollDoes(pollPoll) /\ EPollDoes(epollPoll)
  /\ UNCHANGED <<events, ready>>

kernel(fd) ==
  /\ readinessChanges(fd)
  /\ pollActive' = {} /\ epollActive' = {}
  /\ UNCHANGED <<events, pollfds, pollIndex, pollChannels, pollFault, unused, epollSet, epollIndex,
                 epollChannels, eventListSize, epollFault>>

Next == poll \/ \E fd \in Fds : updateChannel(fd) \/ removeChannel(fd) \/ kernel(fd)

Spec == Init /\ [][Next]_vars

\* EventLoop::loop comes back to poll() again and again.
FairSpec == Spec /\ WF_vars(poll)
-----------------------------------------------------------------------------
\* The entries of pollfds_, the channels in channels_ and their index_ name each
\* other, whatever was swapped into the gaps that removed channels left: an entry
\* holds its channel's descriptor or the ignored form of it, and its events.
PollIndexed ==
  /\ \A fd \in Fds : pollIndex[fd] \in {-1} \cup 0 .. Len(pollfds) - 1
  /\ \A fd \in Fds : fd \in pollChannels <=> pollIndex[fd] >= 0
  /\ \A i \in DOMAIN pollfds :
       LET fd == Restored(pollfds[i].fd)
       IN /\ fd \in pollChannels /\ pollIndex[fd] = i - 1
          /\ pollfds[i].events = events[fd]

\* In any order of enabling, disabling, removing and reusing descriptors, no
\* assertion of EPollPoller fails and no epoll_ctl(ADD or MOD) is refused, and of
\* PollPoller only removeChannel() can fail.  It does for exactly those channels
\* whose one update since they were added is the one that added them without
\* events: only a second one negates the descriptor.  disableAll() and remove(), as
\* ~Acceptor() calls them when listen() was never called, lead there.
OnlyUnusedAborts ==
  /\ ~epollFault /\ pollFault \in {"none", "removeChannel"}
  /\ pollFault = "none" =>
       \A fd \in epollChannels : events[fd] = {} => (Removable(fd) <=> fd \notin unused)

EP == INSTANCE Poller WITH interest <- events, active <- epollActive
PP == INSTANCE Poller WITH interest <- events, active <- pollActive

\* EPollPoller does what Poller promises: poll() reports channels that asked for
\* events and are ready, no others, and one at least when there is one.
EPollImplementsPoller == EP!Spec

\* However small events_ is and whichever descriptors the kernel prefers, a
\* channel that stays enabled and ready is reported again and again, because
\* EPollPoller::poll doubles events_ whenever it was filled.
ReadyIsReported == EP!Reports

\* PollPoller reports a channel that stays enabled and ready, as long as no
\* assertion ends the program.  It does not, once
\* the channel had no events: updateChannel() leaves the descriptor at -fd-1.
PollReadyIsReported == [](pollFault = "none") => PP!Reports
=============================================================================
