------------------------------- MODULE Poller -------------------------------
(***************************************************************************)
(* EpollPoller (src/base/EpollPoller.cpp), Channel (src/base/Channel.cpp)  *)
(* and the part of EventLoop::loop() that hands events to channels: the    *)
(* Channel::Index kept in user space has to agree with the interest list   *)
(* in the kernel, and neither that list nor activeChannels_ may keep a     *)
(* pointer to a channel that was freed.                                    *)
(*                                                                         *)
(* All steps are of the loop's thread.  Channels are owned the way         *)
(* TcpConnection owns its channel: handleClose() disables it and queues    *)
(* connectDestroyed(), which removes it; it is freed and its descriptor    *)
(* closed when the functors of that iteration are dropped.                 *)
(***************************************************************************)
EXTENDS Integers, FiniteSets

CONSTANTS
  Channels,           \* Channel objects
  Fds,                \* descriptors
  null,               \* no channel
  kInitEventListSize  \* events one epoll_wait() returns at most

\* The descriptor of each channel; channels share one when the kernel gives a
\* closed descriptor to the next connection.
CONSTANT Fd

ASSUME PollerAssumption ==
  /\ Fd \in [Channels -> Fds] /\ null \notin Channels
  /\ kInitEventListSize \in Nat \ {0}

Event == {"read", "write"}

VARIABLES
  life,              \* "none", "live" or "freed"
  Events, Index,     \* Channel::Events and Channel::Index
  channels_,         \* Poller::channels_
  epoll,             \* the kernel's interest list: data.ptr and events of each fd
  activeChannels_,   \* channels reported and not handled yet
  currentActiveChannel_,
  phase,             \* what loop() is doing: "poll", "handle", "functors"
  closing,           \* channels whose connectDestroyed() is queued
  unowned,           \* channels that go when the functors are dropped
  failed             \* history: an epoll_ctl() failed

chanVars == <<life, Events, Index>>
pollVars == <<channels_, epoll, failed>>
loopVars == <<activeChannels_, currentActiveChannel_, phase>>
vars == <<chanVars, pollVars, loopVars, closing, unowned>>

Absent == [ptr |-> null, events |-> {}]

Init ==
  /\ life = [c \in Channels |-> "none"]
  /\ Events = [c \in Channels |-> {}] /\ Index = [c \in Channels |-> "kNew"]
  /\ channels_ = [f \in Fds |-> null] /\ epoll = [f \in Fds |-> Absent]
  /\ activeChannels_ = {} /\ currentActiveChannel_ = null /\ phase = "poll"
  /\ closing = {} /\ unowned = {} /\ failed = FALSE

-----------------------------------------------------------------------------
(* EpollPoller.                                                              *)

\* update(): a failure is only logged.  ADD wants the fd absent, MOD and DEL
\* want it present.
update(op, c, events) ==
  LET f == Fd[c]
      ok == (op = "ADD") <=> (epoll[f] = Absent)
  IN  /\ epoll' = IF ~ok THEN epoll
                  ELSE [epoll EXCEPT ![f] = IF op = "DEL" THEN Absent
                                            ELSE [ptr |-> c, events |-> events]]
      /\ failed' = (failed \/ ~ok)

MutDisabled == "kAdded"
Disabled == "kDeleted"

\* updateChannel(), events being the channel's new events.
updateChannel(c, events) ==
  LET f == Fd[c] IN
  IF Index[c] \in {"kNew", "kDeleted"}
  THEN /\ channels_' = IF Index[c] = "kNew" THEN [channels_ EXCEPT ![f] = c] ELSE channels_
       /\ Index' = [Index EXCEPT ![c] = "kAdded"]
       /\ update("ADD", c, events)
  ELSE IF events = {}
  THEN /\ update("DEL", c, events)
       /\ Index' = [Index EXCEPT ![c] = Disabled]
       /\ UNCHANGED channels_
  ELSE /\ update("MOD", c, events)
       /\ UNCHANGED <<channels_, Index>>

removeChannel(c) ==
  /\ channels_' = [channels_ EXCEPT ![Fd[c]] = null]
  /\ Index' = [Index EXCEPT ![c] = "kNew"]
  /\ IF Index[c] = "kAdded" THEN update("DEL", c, {}) ELSE UNCHANGED <<epoll, failed>>

MutLoopRemoveChannel(c) == UNCHANGED <<channels_, epoll, failed, Index>>

\* EventLoop::removeChannel() refuses the channel being handled.
loopRemoveChannel(c) ==
  IF currentActiveChannel_ = c
  THEN UNCHANGED <<channels_, epoll, failed, Index>>
  ELSE removeChannel(c)

hasChannel(c) == channels_[Fd[c]] = c

-----------------------------------------------------------------------------
(* What handlers and functors do with channels.                              *)
InUserCode == currentActiveChannel_ # null \/ phase = "functors"

\* A new connection's channel, on a descriptor that no channel still owns.
Create(c) ==
  /\ InUserCode
  /\ life[c] = "none" /\ \A d \in Channels : life[d] = "live" => Fd[d] # Fd[c]
  /\ life' = [life EXCEPT ![c] = "live"]
  /\ UNCHANGED <<Events, Index, pollVars, loopVars, closing, unowned>>

\* enableReading(), disableReading(), enableWriting(), disableWriting().
ChangeEvents(c) ==
  /\ InUserCode /\ life[c] = "live" /\ c \notin closing \cup unowned
  /\ \E e \in Event : \E events \in {Events[c] \cup {e}, Events[c] \ {e}} :
       /\ Events' = [Events EXCEPT ![c] = events]
       /\ updateChannel(c, events)
  /\ UNCHANGED <<life, loopVars, closing, unowned>>

\* disableAll() in handleClose(), with connectDestroyed() queued in its wake.
Close(c) ==
  /\ InUserCode /\ life[c] = "live" /\ c \notin closing \cup unowned
  /\ Events' = [Events EXCEPT ![c] = {}]
  /\ updateChannel(c, {})
  /\ closing' = closing \cup {c}
  /\ UNCHANGED <<life, loopVars, unowned>>

\* connectDestroyed(), a functor.
ConnectDestroyed(c) ==
  /\ phase = "functors" /\ c \in closing
  /\ loopRemoveChannel(c)
  /\ closing' = closing \ {c} /\ unowned' = unowned \cup {c}
  /\ UNCHANGED <<life, Events, loopVars>>

-----------------------------------------------------------------------------
(* EventLoop::loop().                                                        *)

\* epoll_wait() reports descriptors of the interest list, for their events or
\* for EPOLLHUP and EPOLLERR; fillActiveChannels() takes data.ptr.
Poll ==
  /\ phase = "poll"
  /\ \E s \in SUBSET ({epoll[f].ptr : f \in Fds} \ {null}) :
       /\ Cardinality(s) <= kInitEventListSize
       /\ activeChannels_' = s
  /\ phase' = "handle"
  /\ UNCHANGED <<currentActiveChannel_, chanVars, pollVars, closing, unowned>>

\* The next channel's handleEvent(); epoll_wait() reports them in any order.
HandleEvent ==
  /\ phase = "handle"
  /\ \E c \in activeChannels_ :
       currentActiveChannel_' = c /\ activeChannels_' = activeChannels_ \ {c}
  /\ UNCHANGED <<phase, chanVars, pollVars, closing, unowned>>

\* After the last one doPendingFunctors() runs.
EndEvents ==
  /\ phase = "handle" /\ activeChannels_ = {}
  /\ currentActiveChannel_' = null
  /\ phase' = "functors"
  /\ UNCHANGED <<activeChannels_, chanVars, pollVars, closing, unowned>>

\* The batch of functors is dropped, and with it the last references to closed
\* connections: their channels are freed and their descriptors closed, which
\* takes them off the interest list.
EndFunctors ==
  /\ phase = "functors"
  /\ life' = [c \in Channels |-> IF c \in unowned THEN "freed" ELSE life[c]]
  /\ unowned' = {}
  /\ epoll' = [f \in Fds |-> IF \E c \in unowned : Fd[c] = f THEN Absent ELSE epoll[f]]
  /\ phase' = "poll"
  /\ UNCHANGED <<Events, Index, channels_, failed, activeChannels_, currentActiveChannel_, closing>>

Next ==
  \/ \E c \in Channels : Create(c) \/ ChangeEvents(c) \/ Close(c) \/ ConnectDestroyed(c)
  \/ Poll \/ HandleEvent \/ EndEvents \/ EndFunctors

Spec == Init /\ [][Next]_vars

-----------------------------------------------------------------------------
\* Channel::Index says where a live channel is: kAdded exactly when the kernel
\* watches it, with the channel's own events; not kNew exactly when channels_
\* has it.  And updateChannel() and removeChannel() choose ADD, MOD and DEL by it
\* so that epoll_ctl(), whose failure is reported to nobody, never fails, also
\* when a descriptor is used again.
IndexAgrees ==
  /\ ~failed
  /\ \A c \in Channels : life[c] = "live" =>
       /\ Index[c] = "kAdded" <=> epoll[Fd[c]] = [ptr |-> c, events |-> Events[c]]
       /\ epoll[Fd[c]].ptr = c => Index[c] = "kAdded"
       /\ Index[c] # "kNew" <=> hasChannel(c)

\* No pointer to a freed channel is left in the interest list, in channels_, in
\* the rest of activeChannels_ or in currentActiveChannel_: handleEvent() never
\* runs on a freed channel, whatever the handlers before it closed.
NoDanglingChannel ==
  \A c \in Channels : life[c] # "live" =>
    /\ \A f \in Fds : epoll[f].ptr # c /\ channels_[f] # c
    /\ c \notin activeChannels_ /\ currentActiveChannel_ # c
=============================================================================
