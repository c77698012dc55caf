---------------------------- MODULE PollersProofs ----------------------------
(***************************************************************************)
(* Proofs about Pollers for any set of descriptors and any first size of   *)
(* EPollPoller's events_.                                                  *)
(***************************************************************************)
EXTENDS Pollers, FiniteSetTheorems, TLAPS

\* The entry of pollfds_ that index_ names.
EntryOf(fd) == pollfds[pollIndex[fd] + 1]

\* What PollPoller relies on: entries and channels name each other, and a
\* channel without events is an ignored entry, unless it was never used.
PollInv ==
  /\ events \in [Fds -> SUBSET Events]
  /\ pollfds \in Seq(PollFd) /\ pollIndex \in [Fds -> Int] /\ pollChannels \in SUBSET Fds
  /\ PollIndexed
  /\ \A fd \in pollChannels : Restored(EntryOf(fd).fd) = fd
  /\ \A fd \in pollChannels : events[fd] = {} /\ fd \notin unused => EntryOf(fd).fd = Ignored(fd)
  /\ \A fd \in pollChannels : fd \in unused => EntryOf(fd).fd = fd

\* What EPollPoller relies on: index_ says which channels it has and which of
\* them the kernel has, and the kernel has those with events.
EPollInv ==
  /\ epollIndex \in [Fds -> {kNew, kAdded, kDeleted}]
  /\ ready \in SUBSET Fds
  /\ eventListSize \in Nat \ {0}
  /\ epollChannels = {fd \in Fds : epollIndex[fd] # kNew}
  /\ DOMAIN epollSet = {fd \in Fds : epollIndex[fd] = kAdded}
  /\ \A fd \in Fds : events[fd] # {} => epollIndex[fd] = kAdded
  /\ \A fd \in Fds : epollIndex[fd] = kAdded => epollSet[fd] = events[fd]
  /\ ~epollFault

\* PollPoller has ended.
Gone == pollfds = <<>> /\ pollIndex = [fd \in Fds |-> -1] /\ pollChannels = {}

\* As long as PollPoller has not ended the two have the same channels.
InStep ==
  /\ pollFault \in {"none", "removeChannel"}
  /\ pollFault = "none" => epollChannels = pollChannels
  /\ pollFault # "none" => Gone

IInv == PollInv /\ EPollInv /\ InStep

\* Two pollers without channels satisfy the invariant.
LEMMA InitInv == Init => IInv
<1> SUFFICES ASSUME Init PROVE IInv
  OBVIOUS
<1>1. PollInv
  BY FdsAssumption DEF Init, PollInit, PollInv, PollIndexed
<1>2. EPollInv
  BY ListAssumption DEF Init, PollInit, EPollInit, EPollInv, kNew, kAdded, kDeleted
<1>3. InStep
  BY DEF Init, PollInit, EPollInit, InStep
<1> QED
  BY <1>1, <1>2, <1>3, SMTT(30), Z3T(30) DEF IInv
-----------------------------------------------------------------------------
(* PollPoller *)

\* A PollPoller that has ended has no channels to be wrong about.
LEMMA GoneInv == ASSUME Gone', events' \in [Fds -> SUBSET Events] PROVE PollInv'
  BY DEF Gone, PollInv, PollIndexed

\* A descriptor and its ignored form stand for the same channel.
LEMMA RestoredIs ==
  ASSUME NEW fd \in Fds
  PROVE  fd \in Nat /\ Restored(fd) = fd /\ Restored(Ignored(fd)) = fd
           /\ Ignored(fd) \in Int /\ Ignored(fd) < 0
  BY FdsAssumption, SMTT(30), Z3T(30) DEF Restored, Ignored

\* updateChannel() of a new channel.
LEMMA PollAddInv ==
  ASSUME PollInv, NEW fd \in Fds, NEW ev \in SUBSET Events, fd \notin pollChannels,
         events' = [events EXCEPT ![fd] = ev], pollAdd(fd, ev)
  PROVE  PollInv'
<1> DEFINE n == Len(pollfds)
           e == [fd |-> fd, events |-> ev]
<1>0. n \in Nat /\ pollfds \in Seq(PollFd)
  BY DEF PollInv
<1>1. e \in PollFd /\ e.fd = fd /\ e.events = ev
  BY RestoredIs DEF PollFd
<1>2. pollfds' = Append(pollfds, e) /\ pollIndex' = [pollIndex EXCEPT ![fd] = n]
        /\ pollChannels' = pollChannels \cup {fd}
        /\ unused' = IF ev = {} THEN unused \cup {fd} ELSE unused
  BY DEF pollAdd
<1> HIDE DEF e
<1>3. pollfds' \in Seq(PollFd) /\ Len(pollfds') = n + 1 /\ pollfds'[n + 1] = e
  BY <1>0, <1>1, <1>2
<1>4. \A i \in 1 .. n : pollfds'[i] = pollfds[i]
  BY <1>0, <1>1, <1>2, SMTT(30), Z3T(30)
<1>5. ev = {} => fd \in unused'
  BY <1>2
<1>5a. \A g \in Fds \ {fd} : g \in unused' <=> g \in unused
  BY <1>2
<1>6. pollIndex' \in [Fds -> Int] /\ pollIndex'[fd] = n /\ \A g \in Fds \ {fd} : pollIndex'[g] = pollIndex[g]
  BY <1>0, <1>2 DEF PollInv
<1>7. events' \in [Fds -> SUBSET Events] /\ events'[fd] = ev /\ \A g \in Fds \ {fd} : events'[g] = events[g]
  BY DEF PollInv
<1>8. fd \in pollChannels' /\ \A g \in Fds \ {fd} : g \in pollChannels' <=> g \in pollChannels
  BY <1>2
<1> HIDE DEF n
<1>9. \A g \in Fds : pollIndex[g] \in {-1} \cup 0 .. n - 1
  BY DEF PollInv, PollIndexed, n
<1>10. \A g \in pollChannels : pollIndex[g] + 1 \in 1 .. n
  BY <1>0, <1>9, SMTT(30), Z3T(30) DEF PollInv, PollIndexed
<1>11. PollIndexed'
  <2>1. ASSUME NEW g \in Fds PROVE pollIndex'[g] \in {-1} \cup 0 .. n
    BY <1>0, <1>6, <1>9, SMTT(30), Z3T(30)
  <2>2. ASSUME NEW g \in Fds PROVE g \in pollChannels' <=> pollIndex'[g] >= 0
    BY <1>0, <1>6, <1>8, SMTT(30), Z3T(30) DEF PollInv, PollIndexed
  <2>3. ASSUME NEW i \in 1 .. n + 1
        PROVE  LET g == Restored(pollfds'[i].fd)
               IN g \in pollChannels' /\ pollIndex'[g] = i - 1 /\ pollfds'[i].events = events'[g]
    <3>1. CASE i = n + 1
      BY <3>1, <1>0, <1>1, <1>3, <1>6, <1>7, <1>8, RestoredIs, SMTT(30), Z3T(30)
    <3>2. CASE i # n + 1
      <4>1. i \in 1 .. n
        BY <3>2, <1>0, SMTT(30), Z3T(30)
      <4> DEFINE g == Restored(pollfds[i].fd)
      <4>2. g \in pollChannels /\ pollIndex[g] = i - 1 /\ pollfds[i].events = events[g]
        BY <4>1, <1>0, SMTT(30), Z3T(30) DEF PollInv, PollIndexed, n
      <4>3. g \in Fds \ {fd}
        BY <4>2, SMTT(30), Z3T(30) DEF PollInv
      <4> HIDE DEF g
      <4>4. g \in pollChannels' /\ pollIndex'[g] = i - 1 /\ pollfds[i].events = events'[g]
        BY <4>2, <4>3, <1>6, <1>7, <1>8, SMTT(30), Z3T(30)
      <4> QED
        BY <4>1, <4>4, <1>4 DEF g
    <3> QED
      BY <3>1, <3>2
  <2>4. Len(pollfds') - 1 = n /\ DOMAIN pollfds' = 1 .. n + 1
    BY <1>0, <1>3, SMTT(30), Z3T(30)
  <2> QED
    BY <2>1, <2>2, <2>3, <2>4 DEF PollIndexed
<1>12. ASSUME NEW g \in pollChannels'
       PROVE  /\ Restored(EntryOf(g)'.fd) = g
              /\ events'[g] = {} /\ g \notin unused' => EntryOf(g)'.fd = Ignored(g)
              /\ g \in unused' => EntryOf(g)'.fd = g
  <2>1. CASE g = fd
    BY <2>1, <1>1, <1>3, <1>5, <1>6, <1>7, RestoredIs, SMTT(30), Z3T(30) DEF EntryOf
  <2>2. CASE g # fd
    <3>1. g \in pollChannels /\ g \in Fds \ {fd}
      BY <2>2, <1>2 DEF PollInv
    <3>2. EntryOf(g)' = EntryOf(g)
      BY <3>1, <1>4, <1>6, <1>10, SMTT(30), Z3T(30) DEF EntryOf
    <3> QED
      BY <3>1, <3>2, <1>5a, <1>7 DEF PollInv
  <2> QED
    BY <2>1, <2>2, SMTT(30), Z3T(30)
<1>13. pollChannels' \in SUBSET Fds
  BY <1>2 DEF PollInv
<1>14. /\ \A g \in pollChannels' : Restored(EntryOf(g)'.fd) = g
       /\ \A g \in pollChannels' : events'[g] = {} /\ g \notin unused' => EntryOf(g)'.fd = Ignored(g)
       /\ \A g \in pollChannels' : g \in unused' => EntryOf(g)'.fd = g
  BY <1>12, Zenon
<1>15. events' \in [Fds -> SUBSET Events]
  BY <1>7
<1>16. pollfds' \in Seq(PollFd) /\ pollIndex' \in [Fds -> Int]
  BY <1>3, <1>6
<1> QED
  BY <1>11, <1>13, <1>14, <1>15, <1>16, ZenonT(60) DEF PollInv

\* updateChannel() finds the entry of a channel it has: its assertions hold.
LEMMA ModifiableIs == ASSUME PollInv, NEW fd \in pollChannels PROVE Modifiable(fd)
<1> DEFINE n == Len(pollfds)
           k == pollIndex[fd] + 1
<1>1. n \in Nat /\ pollfds \in Seq(PollFd) /\ fd \in Fds
  BY DEF PollInv
<1>2. pollIndex[fd] \in 0 .. n - 1
  BY <1>1, SMTT(30), Z3T(30) DEF PollInv, PollIndexed
<1>3. k \in 1 .. n /\ InRange(pollIndex[fd])
  BY <1>1, <1>2, SMTT(30), Z3T(30) DEF InRange
<1>4. pollfds[k] \in PollFd /\ Restored(pollfds[k].fd) = fd
  BY <1>1, <1>3, SMTT(30), Z3T(30) DEF PollInv, EntryOf
<1>5. pollfds[k].fd \in {fd, Ignored(fd)}
  BY <1>4, SMTT(30), Z3T(30) DEF Restored, Ignored, PollFd
<1> QED
  BY <1>3, <1>5 DEF Modifiable

\* removeChannel() of a channel without events: its assertions hold unless the
\* channel was never used.
LEMMA RemovableIs ==
  ASSUME PollInv, NEW fd \in pollChannels, events[fd] = {}
  PROVE  Removable(fd) <=> fd \notin unused
<1> DEFINE e == EntryOf(fd)
<1>1. fd \in Fds /\ InRange(pollIndex[fd]) /\ e.fd \in {fd, Ignored(fd)}
  BY ModifiableIs, SMTT(30), Z3T(30) DEF PollInv, Modifiable, EntryOf
<1>2. pollIndex[fd] + 1 \in DOMAIN pollfds /\ pollfds \in Seq(PollFd)
  BY <1>1, SMTT(30), Z3T(30) DEF PollInv, InRange
<1>3. e \in PollFd /\ Restored(e.fd) = fd
  BY <1>1, <1>2, SMTT(30), Z3T(30) DEF EntryOf, PollInv
<1>4. e.events = {}
  BY <1>2, <1>3, SMTT(30), Z3T(30) DEF EntryOf, PollInv, PollIndexed
<1>5. e = [fd |-> Ignored(fd), events |-> {}] <=> e.fd = Ignored(fd)
  BY <1>3, <1>4 DEF PollFd
<1>6. fd # Ignored(fd)
  BY <1>1, RestoredIs
<1>7. e.fd = Ignored(fd) <=> fd \notin unused
  BY <1>6, SMTT(30), Z3T(30) DEF PollInv
<1> QED
  BY <1>1, <1>5, <1>7, SMTT(30), Z3T(30) DEF Removable, EntryOf

\* updateChannel() of a channel that is in pollfds_.
LEMMA PollModifyInv ==
  ASSUME PollInv, NEW fd \in pollChannels, NEW ev \in SUBSET Events,
         events' = [events EXCEPT ![fd] = ev], pollModify(fd, ev)
  PROVE  PollInv'
<1> DEFINE n == Len(pollfds)
           k == pollIndex[fd] + 1
           e == [fd |-> IF ev = {} THEN Ignored(fd) ELSE pollfds[k].fd, events |-> ev]
<1>0. n \in Nat
  BY DEF PollInv
<1>1. pollfds \in Seq(PollFd)
  BY DEF PollInv
<1>2. fd \in pollChannels /\ fd \in Fds
  BY DEF PollInv
<1>3. \A g \in pollChannels : pollIndex[g] + 1 \in 1 .. n
  <2> HIDE DEF n
  <2>1. \A g \in Fds : pollIndex[g] \in {-1} \cup 0 .. n - 1
    BY DEF PollInv, PollIndexed, n
  <2> QED
    BY <2>1, <1>0, SMTT(30), Z3T(30) DEF PollInv, PollIndexed
<1>4. k \in 1 .. n /\ k - 1 = pollIndex[fd] /\ pollIndex[fd] \in Int
  BY <1>2, <1>3 DEF PollInv
<1>5. pollfds[k] \in PollFd /\ Restored(pollfds[k].fd) = fd
  BY <1>1, <1>2, <1>4, SMTT(30), Z3T(30) DEF PollInv, EntryOf
<1>7. e \in PollFd /\ e.events = ev
  BY <1>2, <1>5, RestoredIs, SMTT(30), Z3T(30) DEF PollFd
<1>8. Restored(e.fd) = fd /\ (ev = {} => e.fd = Ignored(fd))
  BY <1>2, <1>5, RestoredIs
<1>10. /\ pollfds' = [pollfds EXCEPT ![k] = e] /\ unused' = unused \ {fd}
       /\ pollIndex' = pollIndex /\ pollChannels' = pollChannels
  BY Zenon DEF pollModify
<1> HIDE DEF e, k
<1>11. pollfds' \in Seq(PollFd) /\ Len(pollfds') = n /\ pollfds'[k] = e
  BY <1>1, <1>4, <1>7, <1>10, SMTT(30), Z3T(30)
<1>12. \A i \in 1 .. n : i # k => pollfds'[i] = pollfds[i]
  BY <1>1, <1>10
<1>13. events' \in [Fds -> SUBSET Events] /\ events'[fd] = ev /\ \A g \in Fds \ {fd} : events'[g] = events[g]
  BY <1>2 DEF PollInv
<1> HIDE DEF n
<1>14. PollIndexed'
  <2>1. ASSUME NEW i \in 1 .. n
        PROVE  LET g == Restored(pollfds'[i].fd)
               IN g \in pollChannels' /\ pollIndex'[g] = i - 1 /\ pollfds'[i].events = events'[g]
    <3>1. CASE i = k
      BY <3>1, <1>2, <1>4, <1>7, <1>8, <1>10, <1>11, <1>13, SMTT(30), Z3T(30)
    <3>2. CASE i # k
      <4> DEFINE g == Restored(pollfds[i].fd)
      <4>1. g \in pollChannels /\ pollIndex[g] = i - 1 /\ pollfds[i].events = events[g]
        BY <1>1 DEF PollInv, PollIndexed, n
      <4> HIDE DEF g
      <4>2. g # fd
        BY <3>2, <4>1, <1>4, SMTT(30), Z3T(30)
      <4>3. g \in Fds \ {fd}
        BY <4>1, <4>2, SMTT(30), Z3T(30) DEF PollInv
      <4>4. pollfds[i].events = events'[g]
        BY <4>1, <4>3, <1>13, SMTT(30), Z3T(30)
      <4>5. pollfds'[i] = pollfds[i]
        BY <3>2, <1>12
      <4> QED
        BY <4>1, <4>4, <4>5, <1>10, SMTT(30), Z3T(30) DEF g
    <3> QED
      BY <3>1, <3>2, SMTT(30), Z3T(30)
  <2>2. DOMAIN pollfds' = 1 .. n
    BY <1>11
  <2>3. \A g \in Fds : pollIndex'[g] \in {-1} \cup 0 .. Len(pollfds') - 1
    BY <1>10, <1>11, SMTT(30), Z3T(30) DEF PollInv, PollIndexed, n
  <2>4. \A g \in Fds : g \in pollChannels' <=> pollIndex'[g] >= 0
    BY <1>10 DEF PollInv, PollIndexed
  <2> QED
    BY <2>1, <2>2, <2>3, <2>4, SMTT(30), Z3T(30) DEF PollIndexed
<1>15. ASSUME NEW g \in pollChannels'
       PROVE  /\ Restored(EntryOf(g)'.fd) = g
              /\ events'[g] = {} /\ g \notin unused' => EntryOf(g)'.fd = Ignored(g)
              /\ g \in unused' => EntryOf(g)'.fd = g
  <2>1. CASE g = fd
    BY <2>1, <1>8, <1>10, <1>11, <1>13, SMTT(30), Z3T(30) DEF EntryOf, k
  <2>2. CASE g # fd
    <3>1. g \in pollChannels /\ g \in Fds \ {fd}
      BY <2>2, <1>10 DEF PollInv
    <3>2. pollIndex[g] + 1 # k
      BY <3>1, <1>5 DEF PollInv, EntryOf
    <3>3. EntryOf(g)' = EntryOf(g)
      BY <3>1, <3>2, <1>3, <1>10, <1>12, SMTT(30), Z3T(30) DEF EntryOf
    <3> QED
      BY <3>1, <3>3, <1>10, <1>13, SMTT(30), Z3T(30) DEF PollInv
  <2> QED
    BY <2>1, <2>2
<1> QED
  BY <1>10, <1>11, <1>13, <1>14, <1>15, SMTT(30), Z3T(30) DEF PollInv

\* removeChannel() of a channel without events: the last entry fills the gap.
LEMMA PollRemoveInv ==
  ASSUME PollInv, NEW fd \in pollChannels, events' = events, pollRemove(fd)
  PROVE  PollInv'
<1> DEFINE n == Len(pollfds)
           k == pollIndex[fd] + 1
           last == Restored(pollfds[n].fd)
<1>0. n \in Nat
  BY DEF PollInv
<1>1. pollfds \in Seq(PollFd) /\ fd \in Fds
  BY DEF PollInv
<1>2. \A g \in pollChannels : pollIndex[g] + 1 \in 1 .. n
  <2> HIDE DEF n
  <2>1. \A g \in Fds : pollIndex[g] \in {-1} \cup 0 .. n - 1
    BY DEF PollInv, PollIndexed, n
  <2> QED
    BY <2>1, <1>0, SMTT(30), Z3T(30) DEF PollInv, PollIndexed
<1>3. k \in 1 .. n /\ k - 1 = pollIndex[fd] /\ pollIndex[fd] \in Int
  BY <1>1, <1>2 DEF PollInv
<1>4. n \in 1 .. n /\ n - 1 \in Nat
  BY <1>0, <1>3
<1>7. /\ pollfds' = SubSeq([pollfds EXCEPT ![k] = pollfds[n]], 1, n - 1)
      /\ pollIndex' = [[pollIndex EXCEPT ![last] = pollIndex[fd]] EXCEPT ![fd] = -1]
      /\ pollChannels' = pollChannels \ {fd} /\ unused' = unused
  BY Zenon DEF pollRemove, IndexAfterRemove
<1>8. last \in pollChannels /\ last \in Fds /\ pollIndex[last] = n - 1
  BY <1>1, <1>4, SMTT(30), Z3T(30) DEF PollInv, PollIndexed
<1> HIDE DEF k, last
<1> DEFINE v == pollfds[n]
           q == [pollfds EXCEPT ![k] = v]
<1>9. q \in Seq(PollFd)
  <2>1. v \in PollFd
    BY <1>1, <1>4
  <2> HIDE DEF v
  <2> QED
    BY <2>1, <1>1, <1>3, SMTT(30), Z3T(30)
<1>9a. Len(q) = n /\ \A i \in 1 .. n : q[i] = IF i = k THEN pollfds[n] ELSE pollfds[i]
  BY <1>1
<1> HIDE DEF q
<1>9b. pollfds' \in Seq(PollFd) /\ Len(pollfds') = n - 1
  BY <1>0, <1>4, <1>7, <1>9, <1>9a, SMTT(30), Z3T(30) DEF q
<1>10. \A i \in 1 .. n - 1 : pollfds'[i] = IF i = k THEN pollfds[n] ELSE pollfds[i]
  <2>1. \A i \in 1 .. n - 1 : SubSeq(q, 1, n - 1)[i] = q[i]
    BY <1>0, <1>4, <1>9, <1>9a, SMTT(30), Z3T(30)
  <2> QED
    BY <2>1, <1>0, <1>7, <1>9a, SMTT(30), Z3T(30) DEF q
<1> HIDE DEF n
<1>11. /\ pollIndex' \in [Fds -> Int] /\ pollIndex'[fd] = -1
       /\ last # fd => pollIndex'[last] = k - 1
       /\ \A g \in Fds : g # fd /\ g # last => pollIndex'[g] = pollIndex[g]
  BY <1>1, <1>3, <1>7, <1>8, SMTT(30), Z3T(30) DEF PollInv
\* Two channels never have the same index_.
<1>12. \A g, h \in pollChannels : pollIndex[g] = pollIndex[h] => g = h
  BY DEF PollInv, EntryOf
<1>13. \A g \in pollChannels' : pollIndex'[g] + 1 \in 1 .. n - 1 /\ g \in pollChannels /\ g \in Fds /\ g # fd
  <2> SUFFICES ASSUME NEW g \in pollChannels'
               PROVE  pollIndex'[g] + 1 \in 1 .. n - 1 /\ g \in pollChannels /\ g \in Fds /\ g # fd
    OBVIOUS
  <2>1. g \in pollChannels /\ g \in Fds /\ g # fd
    BY <1>7 DEF PollInv
  <2>2. CASE g = last
    <3>1. k # n
      BY <2>1, <2>2, <1>0, <1>1, <1>3, <1>8, <1>12, SMTT(30), Z3T(30)
    <3> QED
      BY <2>1, <2>2, <3>1, <1>0, <1>3, <1>11, SMTT(30), Z3T(30)
  <2>3. CASE g # last
    <3>1. pollIndex[g] # n - 1 /\ pollIndex[g] \in Int
      BY <2>1, <2>3, <1>8, <1>12, SMTT(30), Z3T(30) DEF PollInv
    <3> QED
      BY <2>1, <2>3, <3>1, <1>0, <1>2, <1>11, SMTT(30), Z3T(30)
  <2> QED
    BY <2>2, <2>3, SMTT(30), Z3T(30)
<1>14. ASSUME NEW g \in pollChannels'
       PROVE  EntryOf(g)' = EntryOf(g)
  <2>1. pollIndex'[g] + 1 \in 1 .. n - 1 /\ g \in pollChannels /\ g \in Fds /\ g # fd
    BY <1>13
  <2>2. CASE g = last
    <3>1. pollIndex'[g] + 1 = k /\ pollIndex[g] + 1 = n
      BY <2>1, <2>2, <1>0, <1>3, <1>8, <1>11, SMTT(30), Z3T(30)
    <3> QED
      BY <2>1, <3>1, <1>10, SMTT(30), Z3T(30) DEF EntryOf
  <2>3. CASE g # last
    <3>1. pollIndex'[g] = pollIndex[g] /\ pollIndex[g] \in Int
      BY <2>1, <2>3, <1>11, SMTT(30), Z3T(30) DEF PollInv
    <3>2. pollIndex[g] + 1 # k
      BY <2>1, <3>1, <1>1, <1>3, <1>12, SMTT(30), Z3T(30)
    <3> QED
      BY <2>1, <3>1, <3>2, <1>10, SMTT(30), Z3T(30) DEF EntryOf
  <2> QED
    BY <2>2, <2>3
<1>15. PollIndexed'
  <2>1. ASSUME NEW i \in 1 .. n - 1
        PROVE  LET g == Restored(pollfds'[i].fd)
               IN g \in pollChannels' /\ pollIndex'[g] = i - 1 /\ pollfds'[i].events = events'[g]
    <3>1. CASE i = k
      <4>1. k # n /\ pollfds'[i] = pollfds[n]
        BY <3>1, <1>0, <1>10, SMTT(30), Z3T(30)
      <4>2. last # fd
        BY <4>1, <1>0, <1>3, <1>8, SMTT(30), Z3T(30)
      <4>3. last \in pollChannels' /\ pollIndex'[last] = i - 1
        BY <3>1, <4>2, <1>7, <1>8, <1>11, SMTT(30), Z3T(30)
      <4>4. pollfds[n].events = events[last]
        BY <1>1, <1>4, SMTT(30), Z3T(30) DEF PollInv, PollIndexed, last, n
      <4> QED
        BY <4>1, <4>3, <4>4, SMTT(30), Z3T(30) DEF last
    <3>2. CASE i # k
      <4> DEFINE g == Restored(pollfds[i].fd)
      <4>0. i \in 1 .. n /\ i # n
        BY <1>0, SMTT(30), Z3T(30)
      <4>1. g \in pollChannels /\ pollIndex[g] = i - 1 /\ pollfds[i].events = events[g]
        BY <4>0, <1>1, SMTT(30), Z3T(30) DEF PollInv, PollIndexed, n
      <4> HIDE DEF g
      <4>2. g # fd /\ g # last
        BY <3>2, <4>0, <4>1, <1>0, <1>3, <1>8, SMTT(30), Z3T(30)
      <4>3. g \in pollChannels' /\ pollIndex'[g] = i - 1
        BY <4>1, <4>2, <1>7, <1>11, SMTT(30), Z3T(30) DEF PollInv
      <4>5. pollfds'[i] = pollfds[i]
        BY <3>2, <1>10
      <4> QED
        BY <4>1, <4>3, <4>5 DEF g
    <3> QED
      BY <3>1, <3>2, SMTT(30), Z3T(30)
  <2>2. DOMAIN pollfds' = 1 .. n - 1
    BY <1>9b
  <2>3. ASSUME NEW g \in Fds
        PROVE  /\ pollIndex'[g] \in {-1} \cup 0 .. Len(pollfds') - 1
               /\ g \in pollChannels' <=> pollIndex'[g] >= 0
    <3>1. CASE g \in pollChannels'
      BY <3>1, <1>0, <1>9b, <1>11, <1>13, SMTT(30), Z3T(30)
    <3>2. CASE g = fd
      BY <3>2, <1>7, <1>11, SMTT(30), Z3T(30)
    <3>3. CASE g \notin pollChannels' /\ g # fd
      <4>1. g \notin pollChannels /\ g # last
        BY <3>3, <1>7, <1>8, SMTT(30), Z3T(30)
      <4>2. pollIndex'[g] = pollIndex[g] /\ pollIndex[g] = -1
        BY <3>3, <4>1, <1>11, SMTT(30), Z3T(30) DEF PollInv, PollIndexed
      <4> QED
        BY <3>3, <4>2
    <3> QED
      BY <3>1, <3>2, <3>3, SMTT(30), Z3T(30)
  <2> QED
    BY <2>1, <2>2, <2>3, SMTT(30), Z3T(30) DEF PollIndexed
<1>17. \A g \in pollChannels' :
         /\ Restored(EntryOf(g)'.fd) = g
         /\ events'[g] = {} /\ g \notin unused' => EntryOf(g)'.fd = Ignored(g)
         /\ g \in unused' => EntryOf(g)'.fd = g
  BY <1>7, <1>13, <1>14, SMTT(30), Z3T(30) DEF PollInv
<1>18. events' \in [Fds -> SUBSET Events] /\ pollChannels' \in SUBSET Fds
  BY <1>7, SMTT(30), Z3T(30) DEF PollInv
<1> QED
  BY <1>7, <1>9b, <1>11, <1>15, <1>17, <1>18, SMTT(30), Z3T(30) DEF PollInv

\* poll() asks only about channels: fillActiveChannels finds each of them.
LEMMA ReportedIs ==
  ASSUME PollInv, ready \in SUBSET Fds
  PROVE  Reported \subseteq pollChannels
<1>1. \A i \in DOMAIN pollfds : pollfds[i].fd \in ready => pollfds[i].fd \in pollChannels
  <2> SUFFICES ASSUME NEW i \in DOMAIN pollfds, pollfds[i].fd \in ready
               PROVE  pollfds[i].fd \in pollChannels
    OBVIOUS
  <2>1. Restored(pollfds[i].fd) = pollfds[i].fd
    BY RestoredIs
  <2> QED
    BY <2>1 DEF PollInv, PollIndexed
<1> QED
  BY <1>1, SMTT(30), Z3T(30) DEF Reported
-----------------------------------------------------------------------------
(* EPollPoller *)

\* updateChannel() of a channel that is new or was taken out of epoll.
LEMMA EPollAddInv ==
  ASSUME EPollInv, events \in [Fds -> SUBSET Events],
         NEW fd \in Fds, NEW ev \in SUBSET Events,
         events' = [events EXCEPT ![fd] = ev], epollAdd(fd, ev), ready' = ready,
         eventListSize' = eventListSize
  PROVE  EPollInv'
<1>1. fd \notin DOMAIN epollSet /\ (fd \in epollChannels <=> epollIndex[fd] = kDeleted)
  BY DEF EPollInv, epollAdd, kNew, kAdded, kDeleted
<1>2. ~epollFault'
  BY <1>1 DEF epollAdd, ctlFails
<1>3. epollIndex' = [epollIndex EXCEPT ![fd] = kAdded] /\ epollChannels' = epollChannels \cup {fd}
  BY SMTT(30), Z3T(30) DEF epollAdd
<1>4. epollSet' = [f \in DOMAIN epollSet \cup {fd} |-> IF f = fd THEN ev ELSE epollSet[f]]
  BY DEF epollAdd, update
<1>5. epollIndex' \in [Fds -> {kNew, kAdded, kDeleted}] /\ epollIndex'[fd] = kAdded
        /\ \A g \in Fds \ {fd} : epollIndex'[g] = epollIndex[g]
  BY <1>3 DEF EPollInv
<1>6. events'[fd] = ev /\ \A g \in Fds \ {fd} : events'[g] = events[g]
  OBVIOUS
<1>7. epollChannels' = {f \in Fds : epollIndex'[f] # kNew}
  BY <1>3, <1>5, SMTT(30), Z3T(30) DEF EPollInv, kNew, kAdded
<1>9. DOMAIN epollSet' = {f \in Fds : epollIndex'[f] = kAdded}
  BY <1>4, <1>5, SMTT(30), Z3T(30) DEF EPollInv
<1>10. \A f \in Fds : events'[f] # {} => epollIndex'[f] = kAdded
  BY <1>5, <1>6, SMTT(30), Z3T(30) DEF EPollInv
<1>11. \A f \in Fds : epollIndex'[f] = kAdded => epollSet'[f] = events'[f]
  BY <1>4, <1>5, <1>6 DEF EPollInv
<1> QED
  BY <1>2, <1>5, <1>7, <1>9, <1>10, <1>11, ZenonT(60) DEF EPollInv

\* updateChannel() of a channel that epoll knows: EPOLL_CTL_MOD or EPOLL_CTL_DEL.
LEMMA EPollModifyInv ==
  ASSUME EPollInv, events \in [Fds -> SUBSET Events],
         NEW fd \in Fds, NEW ev \in SUBSET Events,
         events' = [events EXCEPT ![fd] = ev], epollModify(fd, ev), ready' = ready,
         eventListSize' = eventListSize
  PROVE  EPollInv'
<1>1. fd \in DOMAIN epollSet /\ fd \in epollChannels
  BY DEF EPollInv, epollModify, kNew, kAdded
<1>2. ~epollFault'
  BY <1>1 DEF epollModify, ctlFails
<1>3. epollChannels' = epollChannels /\ epollIndex[fd] = kAdded
  BY DEF epollModify
<1>4. events'[fd] = ev /\ \A g \in Fds \ {fd} : events'[g] = events[g]
  OBVIOUS
<1>5. CASE ev = {}
  <2>1. epollIndex' = [epollIndex EXCEPT ![fd] = kDeleted]
    BY <1>5, SMTT(30), Z3T(30) DEF epollModify
  <2>2. epollSet' = [f \in DOMAIN epollSet \ {fd} |-> epollSet[f]]
    BY <1>5, SMTT(30), Z3T(30) DEF epollModify, update
  <2>3. epollIndex' \in [Fds -> {kNew, kAdded, kDeleted}] /\ epollIndex'[fd] = kDeleted
          /\ \A g \in Fds \ {fd} : epollIndex'[g] = epollIndex[g]
    BY <2>1, SMTT(30), Z3T(30) DEF EPollInv
  <2>4. epollChannels' = {f \in Fds : epollIndex'[f] # kNew}
    BY <1>1, <1>3, <2>3, SMTT(30), Z3T(30) DEF EPollInv, kNew, kDeleted
  <2>5. DOMAIN epollSet' = {f \in Fds : epollIndex'[f] = kAdded}
    BY <2>2, <2>3, SMTT(30), Z3T(30) DEF EPollInv, kAdded, kDeleted
  <2>6. \A f \in Fds : events'[f] # {} => epollIndex'[f] = kAdded
    BY <1>4, <1>5, <2>3, SMTT(30), Z3T(30) DEF EPollInv, kAdded, kDeleted
  <2>7. \A f \in Fds : epollIndex'[f] = kAdded => epollSet'[f] = events'[f]
    BY <1>4, <2>2, <2>3, SMTT(30), Z3T(30) DEF EPollInv, kAdded, kDeleted
  <2> QED
    BY <1>2, <1>3, <2>3, <2>4, <2>5, <2>6, <2>7, ZenonT(60) DEF EPollInv
<1>6. CASE ev # {}
  <2>1. epollIndex' = epollIndex
    BY <1>6, SMTT(30), Z3T(30) DEF epollModify
  <2>2. epollSet' = [f \in DOMAIN epollSet \cup {fd} |-> IF f = fd THEN ev ELSE epollSet[f]]
    BY <1>6, SMTT(30), Z3T(30) DEF epollModify, update
  <2>3. DOMAIN epollSet' = DOMAIN epollSet
    BY <2>2, <1>1, SMTT(30), Z3T(30)
  <2>4. \A f \in Fds : events'[f] # {} => epollIndex'[f] = kAdded
    BY <1>3, <1>4, <1>6, <2>1, SMTT(30), Z3T(30) DEF EPollInv
  <2>5. \A f \in Fds : epollIndex'[f] = kAdded => epollSet'[f] = events'[f]
    BY <1>4, <2>1, <2>2, SMTT(30), Z3T(30) DEF EPollInv
  <2> QED
    BY <1>2, <1>3, <2>1, <2>3, <2>4, <2>5, SMTT(30), Z3T(30) DEF EPollInv
<1> QED
  BY <1>5, <1>6, SMTT(30), Z3T(30)

\* removeChannel(), from epoll too when the channel is still there.
LEMMA EPollRemoveInv ==
  ASSUME EPollInv, NEW fd \in epollChannels, events[fd] = {}, events' = events,
         epollRemoveChannel(fd), ready' = ready \ {fd}
  PROVE  EPollInv'
<1>1. fd \in Fds /\ epollIndex[fd] # kNew
  BY DEF EPollInv
<1>2. ~epollFault'
  BY <1>1, Zenon DEF epollRemoveChannel
<1>3. epollChannels' = epollChannels \ {fd} /\ eventListSize' = eventListSize
        /\ epollIndex' = [epollIndex EXCEPT ![fd] = kNew]
  BY <1>1, ZenonT(60) DEF epollRemoveChannel
<1>4. epollIndex' \in [Fds -> {kNew, kAdded, kDeleted}] /\ epollIndex'[fd] = kNew
        /\ \A g \in Fds \ {fd} : epollIndex'[g] = epollIndex[g]
  BY <1>1, <1>3, SMTT(30), Z3T(30) DEF EPollInv
<1>5. epollChannels' = {f \in Fds : epollIndex'[f] # kNew}
  BY <1>3, <1>4, SMTT(30), Z3T(30) DEF EPollInv
<1>6. \A f \in Fds : epollIndex'[f] = kAdded <=> epollIndex[f] = kAdded /\ f # fd
  BY <1>1, <1>4, SMTT(30), Z3T(30) DEF kNew, kAdded
<1>7. ready' \in SUBSET Fds
  BY SMTT(30), Z3T(30) DEF EPollInv
<1>8. /\ DOMAIN epollSet' = DOMAIN epollSet \ {fd}
      /\ \A f \in DOMAIN epollSet \ {fd} : epollSet'[f] = epollSet[f]
  <2>1. CASE epollIndex[fd] = kAdded
    <3>1. epollSet' = [f \in DOMAIN epollSet \ {fd} |-> epollSet[f]]
      BY <2>1, SMTT(30), Z3T(30) DEF epollRemoveChannel, update
    <3> QED
      BY <3>1, SMTT(30), Z3T(30)
  <2>2. CASE epollIndex[fd] # kAdded
    <3>1. epollSet' = epollSet
      BY <2>2, SMTT(30), Z3T(30) DEF epollRemoveChannel
    <3>2. fd \notin DOMAIN epollSet
      BY <2>2, SMTT(30), Z3T(30) DEF EPollInv
    <3> QED
      BY <3>1, <3>2, SMTT(30), Z3T(30)
  <2> QED
    BY <2>1, <2>2, SMTT(30), Z3T(30)
<1>9. DOMAIN epollSet' = {f \in Fds : epollIndex'[f] = kAdded}
  BY <1>6, <1>8, SMTT(30), Z3T(30) DEF EPollInv
<1>10. \A f \in Fds : events'[f] # {} => epollIndex'[f] = kAdded
  BY <1>6, SMTT(30), Z3T(30) DEF EPollInv
<1>11. \A f \in Fds : epollIndex'[f] = kAdded => epollSet'[f] = events'[f]
  BY <1>6, <1>8, SMTT(30), Z3T(30) DEF EPollInv
<1>12. eventListSize' \in Nat \ {0}
  BY <1>3, SMTT(30), Z3T(30) DEF EPollInv
<1> QED
  BY <1>2, <1>4, <1>5, <1>7, <1>9, <1>10, <1>11, <1>12, ZenonT(60) DEF EPollInv

\* poll() reports what epoll_wait filled in, and may double events_.
LEMMA EPollPollInv ==
  ASSUME EPollInv, epollPoll, events' = events, ready' = ready
  PROVE  EPollInv'
<1>1. epollActive' \subseteq ready \cap DOMAIN epollSet
  BY DEF epollPoll, epoll_wait
<1>2. DOMAIN epollSet \subseteq epollChannels
  BY DEF EPollInv, kNew, kAdded
<1>3. ~epollFault'
  BY <1>1, <1>2, ZenonT(60) DEF epollPoll
<1>4. eventListSize' \in Nat \ {0}
  BY SMTT(30), Z3T(30) DEF EPollInv, epollPoll
<1>5. epollSet' = epollSet /\ epollIndex' = epollIndex /\ epollChannels' = epollChannels
  BY SMTT(30), Z3T(30) DEF epollPoll
<1> QED
  BY <1>3, <1>4, <1>5, SMTT(30), Z3T(30) DEF EPollInv
-----------------------------------------------------------------------------
(* The two in step *)

\* The events that Channel can ask for.
LEMMA NewEventsType ==
  ASSUME events \in [Fds -> SUBSET Events], NEW fd \in Fds, NEW ev \in NewEvents(fd)
  PROVE  ev \in SUBSET Events
  BY SMTT(30), Z3T(30) DEF NewEvents, Events

\* A channel that changes its events keeps the invariant in both pollers.
LEMMA UpdateInv == ASSUME IInv, NEW fd \in Fds, updateChannel(fd) PROVE IInv'
<1>0. PollInv /\ EPollInv /\ InStep /\ events \in [Fds -> SUBSET Events]
  BY DEF IInv, PollInv
<1>1. PICK ev \in NewEvents(fd) : /\ events' = [events EXCEPT ![fd] = ev]
                                  /\ PollDoes(pollUpdateChannel(fd, ev))
                                  /\ EPollDoes(epollUpdateChannel(fd, ev))
                                  /\ ready' = ready
  BY Zenon DEF updateChannel
<1>2. ev \in SUBSET Events /\ events' \in [Fds -> SUBSET Events]
  BY <1>0, <1>1, NewEventsType, SMTT(30), Z3T(30)
<1>3. epollUpdateChannel(fd, ev)
  BY <1>0, <1>1, Zenon DEF EPollInv, EPollDoes
<1>4. EPollInv' /\ epollChannels' = epollChannels \cup {fd}
  <2>1. eventListSize' = eventListSize /\ (epollAdd(fd, ev) \/ epollModify(fd, ev))
    BY <1>3 DEF epollUpdateChannel
  <2>2. CASE epollAdd(fd, ev)
    <3>1. epollChannels' = epollChannels \cup {fd}
      BY <2>2 DEF epollAdd
    <3> QED
      BY <2>1, <2>2, <3>1, <1>0, <1>1, <1>2, EPollAddInv, ZenonT(60)
  <2>3. CASE epollModify(fd, ev)
    <3>1. fd \in epollChannels
      BY <2>3, <1>0, SMTT(30), Z3T(30) DEF EPollInv, epollModify, kNew, kAdded
    <3>2. epollChannels' = epollChannels \cup {fd}
      BY <2>3, <3>1, SMTT(30), Z3T(30) DEF epollModify
    <3> QED
      BY <2>1, <2>3, <3>2, <1>0, <1>1, <1>2, EPollModifyInv, ZenonT(60)
  <2> QED
    BY <2>1, <2>2, <2>3, Zenon
<1>5. CASE pollFault = "none"
  <2>1. pollUpdateChannel(fd, ev) /\ epollChannels = pollChannels
    BY <1>0, <1>1, <1>5, Zenon DEF PollDoes, InStep
  <2>2. PollInv' /\ pollChannels' = pollChannels \cup {fd} /\ pollFault' = "none"
    <3>1. CASE pollIndex[fd] < 0
      <4>1. fd \notin pollChannels
        BY <3>1, <1>0, SMTT(30), Z3T(30) DEF PollInv, PollIndexed
      <4>2. pollAdd(fd, ev) /\ pollFault' = pollFault
        BY <2>1, <3>1, <4>1, ZenonT(60) DEF pollUpdateChannel, Asserting
      <4>3. pollChannels' = pollChannels \cup {fd}
        BY <4>2 DEF pollAdd
      <4> QED
        BY <4>1, <4>2, <4>3, <1>0, <1>1, <1>2, <1>5, PollAddInv, ZenonT(60)
    <3>2. CASE ~(pollIndex[fd] < 0)
      <4>1. fd \in pollChannels
        BY <3>2, <1>0, SMTT(30), Z3T(30) DEF PollInv, PollIndexed
      <4>2. Modifiable(fd)
        BY <4>1, <1>0, ModifiableIs, SMTT(30), Z3T(30)
      <4>3. pollModify(fd, ev) /\ pollFault' = pollFault
        BY <2>1, <3>2, <4>2, ZenonT(60) DEF pollUpdateChannel, Asserting
      <4>4. pollChannels' = pollChannels \cup {fd}
        BY <4>1, <4>3, SMTT(30), Z3T(30) DEF pollModify
      <4> QED
        BY <4>1, <4>3, <4>4, <1>0, <1>1, <1>2, <1>5, PollModifyInv, ZenonT(60)
    <3> QED
      BY <3>1, <3>2, Zenon
  <2> QED
    BY <2>1, <2>2, <1>4, SMTT(30), Z3T(30) DEF IInv, InStep
<1>6. CASE pollFault # "none"
  <2>1. UNCHANGED <<pollfds, pollIndex, pollChannels, pollFault>>
    BY <1>1, <1>6, Zenon DEF PollDoes, pollVars
  <2>2. Gone' /\ InStep'
    BY <2>1, <1>0, <1>6, SMTT(30), Z3T(30) DEF InStep, Gone
  <2> QED
    BY <2>2, <1>2, <1>4, GoneInv, SMTT(30), Z3T(30) DEF IInv
<1> QED
  BY <1>5, <1>6, SMTT(30), Z3T(30)

\* A channel that is removed keeps the invariant in EPollPoller, and in
\* PollPoller or ends it.
LEMMA RemoveInv == ASSUME IInv, NEW fd \in Fds, removeChannel(fd) PROVE IInv'
<1>0. PollInv /\ EPollInv /\ InStep /\ events \in [Fds -> SUBSET Events]
  BY DEF IInv, PollInv
<1>1. fd \in epollChannels /\ events[fd] = {} /\ events' = events /\ ready' = ready \ {fd}
        /\ PollDoes(pollRemoveChannel(fd)) /\ EPollDoes(epollRemoveChannel(fd))
  BY <1>0, SMTT(30), Z3T(30) DEF EPollInv, removeChannel
<1>2. epollRemoveChannel(fd)
  BY <1>0, <1>1, ZenonT(60) DEF EPollInv, EPollDoes
<1>3. EPollInv' /\ epollChannels' = epollChannels \ {fd}
  BY <1>0, <1>1, <1>2, EPollRemoveInv, ZenonT(60) DEF epollRemoveChannel
<1>4. events' \in [Fds -> SUBSET Events]
  BY <1>0, <1>1, SMTT(30), Z3T(30)
<1>5. CASE pollFault = "none"
  <2>1. pollRemoveChannel(fd) /\ epollChannels = pollChannels
    BY <1>0, <1>1, <1>5, Zenon DEF PollDoes, InStep
  <2>2. CASE Removable(fd)
    <3>1. pollRemove(fd) /\ pollFault' = pollFault
      BY <2>1, <2>2, Zenon DEF pollRemoveChannel, Asserting
    <3>2. PollInv'
      BY <2>1, <3>1, <1>0, <1>1, PollRemoveInv, ZenonT(60)
    <3>3. pollChannels' = pollChannels \ {fd}
      BY <3>1, SMTT(30), Z3T(30) DEF pollRemove
    <3> QED
      BY <2>1, <3>1, <3>2, <3>3, <1>3, <1>5, SMTT(30), Z3T(30) DEF IInv, InStep
  <2>3. CASE ~Removable(fd)
    <3>1. Aborts("removeChannel")
      BY <2>1, <2>3, Zenon DEF pollRemoveChannel, Asserting
    <3>2. Gone' /\ InStep'
      BY <3>1, SMTT(30), Z3T(30) DEF Aborts, Gone, InStep
    <3> QED
      BY <3>2, <1>3, <1>4, GoneInv, SMTT(30), Z3T(30) DEF IInv
  <2> QED
    BY <2>2, <2>3, Zenon
<1>6. CASE pollFault # "none"
  <2>1. UNCHANGED <<pollfds, pollIndex, pollChannels, pollFault>>
    BY <1>1, <1>6, Zenon DEF PollDoes, pollVars
  <2>2. Gone' /\ InStep'
    BY <2>1, <1>0, <1>6, SMTT(30), Z3T(30) DEF InStep, Gone
  <2> QED
    BY <2>2, <1>3, <1>4, GoneInv DEF IInv
<1> QED
  BY <1>5, <1>6, SMTT(30), Z3T(30)

\* poll() changes nothing that the invariant is about but events_.
LEMMA PollInvKept == ASSUME IInv, poll PROVE IInv'
<1>0. PollInv /\ EPollInv /\ InStep
  BY DEF IInv
<1>1. PollDoes(pollPoll) /\ EPollDoes(epollPoll) /\ events' = events /\ ready' = ready
  BY DEF poll
<1>2. epollPoll
  BY <1>0, <1>1, Zenon DEF EPollInv, EPollDoes
<1>3. EPollInv' /\ epollChannels' = epollChannels
  BY <1>0, <1>1, <1>2, EPollPollInv, ZenonT(60) DEF epollPoll
<1>4. UNCHANGED <<pollfds, pollIndex, pollChannels, pollFault, unused>>
  <2>1. CASE pollFault = "none"
    <3>1. Reported \subseteq pollChannels
      BY <1>0, ReportedIs, SMTT(30), Z3T(30) DEF EPollInv
    <3> QED
      BY <2>1, <3>1, <1>1, ZenonT(60) DEF PollDoes, pollPoll, Asserting
  <2>2. CASE pollFault # "none"
    BY <2>2, <1>1, ZenonT(60) DEF PollDoes, pollVars
  <2> QED
    BY <2>1, <2>2
<1>5. PollInv'
  BY <1>0, <1>1, <1>4, SMTT(30), Z3T(30) DEF PollInv, PollIndexed, EntryOf
<1>6. InStep'
  BY <1>0, <1>3, <1>4, SMTT(30), Z3T(30) DEF InStep, Gone
<1> QED
  BY <1>3, <1>5, <1>6, SMTT(30), Z3T(30) DEF IInv

\* Every step keeps the invariant.
LEMMA NextInv == IInv /\ [Next]_vars => IInv'
<1> SUFFICES ASSUME IInv, [Next]_vars PROVE IInv'
  OBVIOUS
<1>1. CASE poll
  BY <1>1, PollInvKept, SMTT(30), Z3T(30)
<1>2. ASSUME NEW fd \in Fds, updateChannel(fd) PROVE IInv'
  BY <1>2, UpdateInv
<1>3. ASSUME NEW fd \in Fds, removeChannel(fd) PROVE IInv'
  BY <1>3, RemoveInv, SMTT(30), Z3T(30)
<1>4. ASSUME NEW fd \in Fds, kernel(fd) PROVE IInv'
  <2>1. ready' \in SUBSET Fds
    BY <1>4, ZenonT(60) DEF IInv, EPollInv, kernel, readinessChanges
  <2>2. PollInv' /\ InStep'
    BY <1>4 DEF IInv, PollInv, PollIndexed, EntryOf, InStep, Gone, kernel
  <2>3. EPollInv'
    BY <1>4, <2>1, ZenonT(60) DEF IInv, EPollInv, kernel
  <2> QED
    BY <2>2, <2>3, SMTT(30), Z3T(30) DEF IInv
<1>5. CASE UNCHANGED vars
  BY <1>5, ZenonT(60) DEF IInv, PollInv, EPollInv, InStep, Gone, PollIndexed, EntryOf, vars, pollVars, epollVars
<1> QED
  BY <1>1, <1>2, <1>3, <1>4, <1>5, SMTT(30), Z3T(30) DEF Next

\* The invariant holds in every behaviour.
LEMMA InvHolds == Spec => []IInv
  BY InitInv, NextInv, PTL DEF Spec

\* However channels are enabled, disabled, removed and swapped into each other's
\* places, entries, channels_ and index_ of PollPoller name each other, for any
\* set of descriptors.
THEOREM PollEntriesIndexed == Spec => []PollIndexed
<1>1. IInv => PollIndexed
  BY SMTT(30), Z3T(30) DEF IInv, PollInv
<1> QED
  BY <1>1, InvHolds, PTL

\* For any set of descriptors and any first size of events_, however channels are
\* enabled, disabled and removed: no assertion of EPollPoller fails and no
\* epoll_ctl is refused; the one assertion of PollPoller that can fail is that of
\* removeChannel(), and it fails for exactly the channels without events whose one
\* update since they were added is the one that added them.
THEOREM UnusedChannelAborts == Spec => []OnlyUnusedAborts
<1>1. IInv => OnlyUnusedAborts
  <2> SUFFICES ASSUME IInv PROVE OnlyUnusedAborts
    BY SMTT(30), Z3T(30)
  <2>1. ~epollFault /\ pollFault \in {"none", "removeChannel"}
    BY DEF IInv, EPollInv, InStep
  <2>2. ASSUME pollFault = "none", NEW fd \in epollChannels, events[fd] = {}
        PROVE  Removable(fd) <=> fd \notin unused
    BY <2>2, RemovableIs, SMTT(30), Z3T(30) DEF IInv, InStep
  <2> QED
    BY <2>1, <2>2, SMTT(30), Z3T(30) DEF OnlyUnusedAborts
<1> QED
  BY <1>1, InvHolds, PTL

\* epoll_wait reports something when a listed descriptor is ready, because
\* events_ is never empty.
LEMMA EPollWaitReports ==
  ASSUME EPollInv, NEW S \in epoll_wait,
         {fd \in ready \cap DOMAIN epollSet : epollSet[fd] # {}} # {}
  PROVE  S # {}
<1> DEFINE R == {fd \in ready \cap DOMAIN epollSet : epollSet[fd] # {}}
           c == Cardinality(R)
<1>1. IsFiniteSet(R)
  BY FdsAssumption, FS_Subset, SMTT(30), Z3T(30) DEF EPollInv
<1>2. c \in Nat /\ c # 0
  BY <1>1, FS_CardinalityType, FS_EmptySet, SMTT(30), Z3T(30)
<1>3. Cardinality(S) = Min({c, eventListSize})
  BY DEF epoll_wait
<1> HIDE DEF c
<1>4. Min({c, eventListSize}) \in {c, eventListSize}
  <2>1. \E x \in {c, eventListSize} : \A y \in {c, eventListSize} : x <= y
    BY <1>2, SMTT(30), Z3T(30) DEF EPollInv
  <2> QED
    BY <2>1, SMTT(30), Z3T(30) DEF Min
<1>5. Cardinality(S) # 0
  BY <1>2, <1>3, <1>4 DEF EPollInv
<1> QED
  BY <1>5, FS_EmptySet, SMTT(30), Z3T(30)

\* EPollPoller with its kernel list does what Poller promises, for any set of
\* descriptors: each of its steps is a step of Poller or changes nothing there.
THEOREM EPollRefinesPoller == Spec => EPollImplementsPoller
<1>1. Init => EP!Init
  BY DEF Init, EPollInit, EP!Init
<1>2. IInv /\ [Next]_vars => [EP!Next]_EP!vars
  <2> SUFFICES ASSUME IInv, [Next]_vars PROVE [EP!Next]_EP!vars
    BY SMTT(30), Z3T(30)
  <2>0. ready \in SUBSET Fds /\ events \in [Fds -> SUBSET Events]
    BY DEF IInv, PollInv, EPollInv
  <2>1. CASE poll
    <3>1. EP!Reportable = {fd \in ready \cap DOMAIN epollSet : epollSet[fd] # {}}
      BY <2>0 DEF EP!Reportable, IInv, EPollInv
    <3>2. epollActive' \in epoll_wait
      BY <2>1, Zenon DEF poll, epollPoll, EPollDoes, IInv, EPollInv
    <3>3. epollActive' \in SUBSET EP!Reportable
      BY <3>1, <3>2, SMTT(30), Z3T(30) DEF epoll_wait
    <3>4. EP!Reportable # {} => epollActive' # {}
      BY <3>1, <3>2, EPollWaitReports, SMTT(30), Z3T(30) DEF IInv
    <3>5. EP!poll
      BY <2>1, <3>3, <3>4, SMTT(30), Z3T(30) DEF poll, EP!poll
    <3> QED
      BY <3>5, SMTT(30), Z3T(30) DEF EP!Next
  <2>2. ASSUME NEW fd \in Fds, updateChannel(fd) PROVE EP!Next
    <3>1. PICK ev \in NewEvents(fd) : events' = [events EXCEPT ![fd] = ev]
                                        /\ epollUpdateChannel(fd, ev) /\ ready' = ready
      BY <2>2, ZenonT(60) DEF updateChannel, EPollDoes, IInv, EPollInv
    <3>2. ev \in SUBSET Events
      BY <2>0, NewEventsType, SMTT(30), Z3T(30)
    <3>3. EP!updateChannel(fd)
      BY <3>1, <3>2, Zenon DEF epollUpdateChannel, EP!updateChannel
    <3> QED
      BY <3>3, SMTT(30), Z3T(30) DEF EP!Next
  <2>3. ASSUME NEW fd \in Fds, removeChannel(fd) PROVE EP!Next
    <3>1. epollRemoveChannel(fd)
      BY <2>3, Zenon DEF removeChannel, EPollDoes, IInv, EPollInv
    <3>2. EP!readinessChanges
      BY <2>0, <2>3, <3>1, SMTT(30), Z3T(30) DEF removeChannel, epollRemoveChannel, EP!readinessChanges
    <3> QED
      BY <3>2 DEF EP!Next
  <2>4. ASSUME NEW fd \in Fds, kernel(fd) PROVE EP!Next
    <3>1. EP!readinessChanges
      BY <2>0, <2>4, SMTT(30), Z3T(30) DEF kernel, readinessChanges, EP!readinessChanges
    <3> QED
      BY <3>1 DEF EP!Next
  <2>5. CASE UNCHANGED vars
    BY <2>5 DEF vars, epollVars, EP!vars
  <2> QED
    BY <2>1, <2>2, <2>3, <2>4, <2>5, SMTT(30), Z3T(30) DEF Next
<1> QED
  BY <1>1, <1>2, InvHolds, PTL DEF Spec, EPollImplementsPoller, EP!Spec
=============================================================================
