------------------------- MODULE PollerAndPoolProofs -------------------------
(***************************************************************************)
(* Proofs about what surrounds an EventLoop: the Poller it waits in, and   *)
(* the EventLoopThreadPool that runs it.  About Poller, for any set of     *)
(* channels and descriptors, any assignment of descriptors to channels and *)
(* any kInitEventListSize; about EventLoopThreadPool, for any number of    *)
(* threads, whoever may quit a loop and however many loops are dealt.      *)
(***************************************************************************)
EXTENDS Poller, EventLoopThreadPool, TLAPS

-----------------------------------------------------------------------------
(* Poller and its channels.                                                *)


TypeOK ==
  /\ life \in [Channels -> {"none", "live", "freed"}]
  /\ Events \in [Channels -> SUBSET Event]
  /\ Index \in [Channels -> {"kNew", "kAdded", "kDeleted"}]
  /\ channels_ \in [Fds -> Channels \cup {null}]
  /\ epoll \in [Fds -> [ptr : Channels \cup {null}, events : SUBSET Event]]
  /\ activeChannels_ \subseteq Channels
  /\ currentActiveChannel_ \in Channels \cup {null}
  /\ phase \in {"poll", "handle", "functors"}
  /\ closing \subseteq Channels /\ unowned \subseteq Channels

\* One channel at a time owns a descriptor.
FdsOwned ==
  \A c, d \in Channels : life[c] = "live" /\ life[d] = "live" /\ Fd[c] = Fd[d] => c = d

\* What Index says, of every channel: one that is not live is nowhere.
IndexInv ==
  \A c \in Channels :
    /\ Index[c] = "kAdded" => epoll[Fd[c]].ptr = c /\ epoll[Fd[c]].events = Events[c]
    /\ Index[c] # "kNew" => channels_[Fd[c]] = c
    /\ Index[c] # "kNew" => life[c] = "live"

\* The same seen from the descriptor: its entries belong to the channel that
\* owns it.
EntryInv ==
  \A f \in Fds :
    /\ epoll[f].ptr = null => epoll[f].events = {}
    /\ \A c \in Channels : epoll[f].ptr = c => Index[c] = "kAdded" /\ Fd[c] = f
    /\ \A c \in Channels : channels_[f] = c => Index[c] # "kNew" /\ Fd[c] = f

\* Where loop() holds pointers to channels, and for which channels it may let go.
LoopInv ==
  /\ phase # "handle" => activeChannels_ = {} /\ currentActiveChannel_ = null
  /\ phase # "functors" => unowned = {}
  /\ \A c \in activeChannels_ \cup closing \cup unowned : life[c] = "live"
  /\ currentActiveChannel_ # null => life[currentActiveChannel_] = "live"
  /\ \A c \in unowned : Index[c] = "kNew"
  /\ closing \cap unowned = {}

\* The inductive invariant.
IInv == TypeOK /\ ~failed /\ FdsOwned /\ IndexInv /\ EntryInv /\ LoopInv

-----------------------------------------------------------------------------
\* With no channel created yet the invariant holds: the interest list and
\* channels_ are empty.
LEMMA InitHolds == Init => IInv
  BY PollerAssumption
  DEF Init, IInv, TypeOK, FdsOwned, IndexInv, EntryInv, LoopInv, Absent, Event

\* An entry of the interest list is what its two fields say.
LEMMA EntryIs ==
  ASSUME TypeOK, NEW f \in Fds
  PROVE  /\ epoll[f] = [ptr |-> epoll[f].ptr, events |-> epoll[f].events]
         /\ epoll[f].ptr \in Channels \cup {null} /\ epoll[f].events \in SUBSET Event
         /\ channels_[f] \in Channels \cup {null}
  BY DEF TypeOK

\* The entries of a live channel's descriptor are the channel's own or empty.
LEMMA OwnEntries ==
  ASSUME IInv, NEW c \in Channels, life[c] = "live"
  PROVE  /\ Fd[c] \in Fds
         /\ Index[c] = "kAdded" => epoll[Fd[c]] = [ptr |-> c, events |-> Events[c]]
         /\ Index[c] # "kAdded" => epoll[Fd[c]] = Absent
         /\ channels_[Fd[c]] \in {c, null}
<1>1. Fd[c] \in Fds
  BY PollerAssumption
<1>2. ASSUME NEW d \in Channels, Index[d] # "kNew", Fd[d] = Fd[c] PROVE d = c
  BY <1>2 DEF IInv, FdsOwned, IndexInv
<1>3. channels_[Fd[c]] \in {c, null}
  <2>1. channels_[Fd[c]] \in Channels \cup {null}
    BY <1>1 DEF IInv, TypeOK
  <2>2. ASSUME NEW d \in Channels, channels_[Fd[c]] = d PROVE Index[d] # "kNew" /\ Fd[d] = Fd[c]
    BY <1>1, <2>2 DEF IInv, EntryInv
  <2> QED
    BY <1>2, <2>1, <2>2
<1>4. epoll[Fd[c]].ptr \in {c, null}
  <2>1. epoll[Fd[c]].ptr \in Channels \cup {null}
    BY <1>1, EntryIs, Zenon DEF IInv
  <2>2. ASSUME NEW d \in Channels, epoll[Fd[c]].ptr = d PROVE Index[d] = "kAdded" /\ Fd[d] = Fd[c]
    BY <1>1, <2>2 DEF IInv, EntryInv
  <2> QED
    BY <1>2, <2>1, <2>2
<1>5. Index[c] # "kAdded" => epoll[Fd[c]].ptr = null /\ epoll[Fd[c]].events = {}
  BY <1>1, <1>4 DEF IInv, EntryInv
<1>6. Index[c] = "kAdded" => epoll[Fd[c]].ptr = c /\ epoll[Fd[c]].events = Events[c]
  BY DEF IInv, IndexInv
<1> QED
  BY <1>1, <1>3, <1>5, <1>6, EntryIs, Zenon DEF IInv, Absent

\* A step that changes only the entries and the Index of one live channel, and
\* leaves them in agreement, keeps the invariant.
LEMMA OneChannelKeeps ==
  ASSUME IInv, NEW c \in Channels, life[c] = "live",
         NEW events \in SUBSET Event, NEW index \in {"kNew", "kAdded", "kDeleted"},
         c \notin unowned \/ index = "kNew",
         Events' = [Events EXCEPT ![c] = events],
         Index' = [Index EXCEPT ![c] = index],
         epoll' = [epoll EXCEPT ![Fd[c]] = IF index = "kAdded"
                                           THEN [ptr |-> c, events |-> events] ELSE Absent],
         channels_' = [channels_ EXCEPT ![Fd[c]] = IF index = "kNew" THEN null ELSE c],
         ~failed', UNCHANGED <<life, loopVars>>,
         closing' \subseteq closing \cup {c}, closing' \cap unowned' = {},
         unowned' \subseteq unowned \cup {d \in {c} : index = "kNew" /\ phase = "functors"}
  PROVE  IInv'
<1>1. Fd[c] \in Fds
  BY PollerAssumption
<1>2. TypeOK'
  BY <1>1 DEF IInv, TypeOK, Absent, loopVars
<1>3. FdsOwned'
  BY DEF IInv, FdsOwned
<1>4. ASSUME NEW d \in Channels, Index[d] # "kNew", Fd[d] = Fd[c] PROVE d = c
  BY <1>4 DEF IInv, FdsOwned, IndexInv
<1>5. IndexInv'
  <2> SUFFICES ASSUME NEW d \in Channels
               PROVE  /\ Index'[d] = "kAdded" => /\ epoll'[Fd[d]].ptr = d
                                                 /\ epoll'[Fd[d]].events = Events'[d]
                      /\ Index'[d] # "kNew" => channels_'[Fd[d]] = d
                      /\ Index'[d] # "kNew" => life'[d] = "live"
    BY DEF IndexInv
  <2>1. CASE d = c
    BY <1>1, <2>1 DEF IInv, TypeOK
  <2>2. CASE d # c /\ Index[d] = "kNew"
    BY <2>2 DEF IInv, TypeOK
  <2>3. CASE d # c /\ Index[d] # "kNew"
    <3>1. Fd[d] # Fd[c] /\ Fd[d] \in Fds
      BY <1>4, <2>3, PollerAssumption
    <3>2. epoll'[Fd[d]] = epoll[Fd[d]] /\ channels_'[Fd[d]] = channels_[Fd[d]]
      BY <3>1 DEF IInv, TypeOK
    <3>3. Index'[d] = Index[d] /\ Events'[d] = Events[d]
      BY <2>3 DEF IInv, TypeOK
    <3> QED
      BY <2>3, <3>2, <3>3 DEF IInv, IndexInv
  <2> QED
    BY <2>1, <2>2, <2>3
<1>6. EntryInv'
  <2> SUFFICES ASSUME NEW f \in Fds
               PROVE  /\ epoll'[f].ptr = null => epoll'[f].events = {}
                      /\ \A d \in Channels :
                           /\ epoll'[f].ptr = d => Index'[d] = "kAdded" /\ Fd[d] = f
                           /\ channels_'[f] = d => Index'[d] # "kNew" /\ Fd[d] = f
    BY DEF EntryInv
  <2>1. CASE f = Fd[c]
    <3>1. epoll'[f] = IF index = "kAdded" THEN [ptr |-> c, events |-> events] ELSE Absent
      BY <2>1 DEF IInv, TypeOK
    <3>2. channels_'[f] = IF index = "kNew" THEN null ELSE c
      BY <2>1 DEF IInv, TypeOK
    <3>3. Index'[c] = index
      BY DEF IInv, TypeOK
    <3> QED
      BY <2>1, <3>1, <3>2, <3>3, PollerAssumption DEF Absent
  <2>2. CASE f # Fd[c]
    <3>1. epoll'[f] = epoll[f] /\ channels_'[f] = channels_[f]
      BY <2>2 DEF IInv, TypeOK
    <3>2. \A d \in Channels : Fd[d] = f => Index'[d] = Index[d]
      BY <2>2 DEF IInv, TypeOK
    <3> QED
      BY <3>1, <3>2 DEF IInv, EntryInv
  <2> QED
    BY <2>1, <2>2
<1>7. LoopInv'
  BY DEF IInv, TypeOK, LoopInv, loopVars
<1> QED
  BY <1>2, <1>3, <1>5, <1>6, <1>7 DEF IInv

\* updateChannel() of a live channel chooses an operation that succeeds, and
\* leaves Index, channels_ and the interest list in agreement.
LEMMA UpdateKeeps ==
  ASSUME IInv, NEW c \in Channels, life[c] = "live", c \notin unowned,
         NEW events \in SUBSET Event, updateChannel(c, events),
         Events' = [Events EXCEPT ![c] = events],
         UNCHANGED <<life, loopVars, unowned>>, closing' \subseteq closing \cup {c}
  PROVE  IInv'
<1>0. closing' \cap unowned' = {}
  BY DEF IInv, LoopInv
<1>1. CASE Index[c] \in {"kNew", "kDeleted"}
  <2>1. epoll[Fd[c]] = Absent
    BY <1>1, OwnEntries, Zenon
  <2>2. /\ epoll' = [epoll EXCEPT ![Fd[c]] = [ptr |-> c, events |-> events]]
        /\ Index' = [Index EXCEPT ![c] = "kAdded"]
        /\ ~failed'
    BY <1>1, <2>1, Zenon DEF updateChannel, update, IInv
  <2>3. channels_' = [channels_ EXCEPT ![Fd[c]] = c]
    BY <1>1 DEF updateChannel, IInv, TypeOK, IndexInv
  <2> QED
    BY <1>0, <2>2, <2>3, OneChannelKeeps, Zenon
<1>2. CASE Index[c] = "kAdded"
  <2>1. epoll[Fd[c]] = [ptr |-> c, events |-> Events[c]] /\ channels_[Fd[c]] = c
    BY <1>2, OwnEntries DEF IInv, IndexInv
  <2>2. epoll[Fd[c]] # Absent
    BY <2>1, PollerAssumption DEF Absent
  <2>3. channels_' = [channels_ EXCEPT ![Fd[c]] = c]
    BY <1>2, <2>1 DEF updateChannel, IInv, TypeOK
  <2>4. CASE events = {}
    <3>1. /\ epoll' = [epoll EXCEPT ![Fd[c]] = Absent]
          /\ Index' = [Index EXCEPT ![c] = "kDeleted"]
          /\ ~failed'
      BY <1>2, <2>2, <2>4, Zenon DEF updateChannel, update, Disabled, IInv
    <3> QED
      BY <1>0, <2>3, <3>1, OneChannelKeeps, Zenon
  <2>5. CASE events # {}
    <3>1. /\ epoll' = [epoll EXCEPT ![Fd[c]] = [ptr |-> c, events |-> events]]
          /\ Index' = [Index EXCEPT ![c] = "kAdded"]
          /\ ~failed'
      BY <1>2, <2>2, <2>5, Zenon DEF updateChannel, update, IInv, TypeOK
    <3> QED
      BY <1>0, <2>3, <3>1, OneChannelKeeps, Zenon
  <2> QED
    BY <2>4, <2>5
<1> QED
  BY <1>1, <1>2 DEF IInv, TypeOK

\* connectDestroyed() runs while no channel is handled, so its removeChannel() is
\* not refused: afterwards nothing points to the channel.
LEMMA RemoveKeeps ==
  ASSUME IInv, NEW c \in Channels, ConnectDestroyed(c)
  PROVE  IInv'
<1>1. /\ life[c] = "live" /\ phase = "functors" /\ removeChannel(c)
      /\ closing' = closing \ {c} /\ unowned' = unowned \cup {c}
      /\ UNCHANGED <<life, Events, loopVars>>
  BY PollerAssumption DEF ConnectDestroyed, loopRemoveChannel, IInv, LoopInv
<1>2. epoll' = [epoll EXCEPT ![Fd[c]] = Absent] /\ ~failed'
  <2>1. CASE Index[c] = "kAdded"
    <3>1. epoll[Fd[c]] # Absent
      <4>1. epoll[Fd[c]] = [ptr |-> c, events |-> Events[c]]
        BY <1>1, <2>1, OwnEntries
      <4> QED
        BY <4>1, PollerAssumption DEF Absent
    <3> QED
      BY <1>1, <2>1, <3>1, Zenon DEF removeChannel, update, IInv
  <2>2. CASE Index[c] # "kAdded"
    BY <1>1, <2>2, OwnEntries, Zenon DEF removeChannel, IInv, TypeOK
  <2> QED
    BY <2>1, <2>2
<1>3. /\ Index' = [Index EXCEPT ![c] = "kNew"]
      /\ channels_' = [channels_ EXCEPT ![Fd[c]] = null]
  BY <1>1 DEF removeChannel
<1>4. Events' = [Events EXCEPT ![c] = Events[c]] /\ Events[c] \in SUBSET Event
  BY <1>1 DEF IInv, TypeOK
<1>5. closing' \cap unowned' = {}
  BY <1>1 DEF IInv, LoopInv
<1> QED
  BY <1>1, <1>2, <1>3, <1>4, <1>5, OneChannelKeeps, Zenon

\* The steps of loop() itself: what Poll reports is on the interest list and so
\* alive, and EndFunctors frees only channels that nothing points to.
LEMMA LoopKeeps ==
  ASSUME IInv, Poll \/ HandleEvent \/ EndEvents \/ EndFunctors
  PROVE  IInv'
<1>1. CASE Poll
  <2>1. PICK s \in SUBSET ({epoll[f].ptr : f \in Fds} \ {null}) : activeChannels_' = s
    BY <1>1 DEF Poll
  <2>2. \A c \in s : c \in Channels /\ life[c] = "live"
    <3> SUFFICES ASSUME NEW c \in s PROVE c \in Channels /\ life[c] = "live"
      OBVIOUS
    <3>1. PICK f \in Fds : c = epoll[f].ptr /\ c # null
      BY <2>1
    <3>2. c \in Channels
      BY <3>1, EntryIs, Zenon DEF IInv
    <3>3. Index[c] = "kAdded"
      BY <3>1, <3>2 DEF IInv, EntryInv
    <3> QED
      BY <3>2, <3>3 DEF IInv, IndexInv
  <2> QED
    BY <1>1, <2>1, <2>2
    DEF Poll, IInv, TypeOK, FdsOwned, IndexInv, EntryInv, LoopInv, chanVars, pollVars
<1>2. CASE HandleEvent
  BY <1>2, PollerAssumption
  DEF HandleEvent, IInv, TypeOK, FdsOwned, IndexInv, EntryInv, LoopInv, chanVars, pollVars
<1>3. CASE EndEvents
  BY <1>3
  DEF EndEvents, IInv, TypeOK, FdsOwned, IndexInv, EntryInv, LoopInv, chanVars, pollVars
<1>4. CASE EndFunctors
  <2>1. epoll' = epoll
    <3>1. \A c \in unowned : epoll[Fd[c]] = Absent
      BY OwnEntries, Zenon DEF IInv, TypeOK, LoopInv
    <3> QED
      BY <1>4, <3>1 DEF EndFunctors, IInv, TypeOK
  <2>2. TypeOK' /\ ~failed' /\ FdsOwned' /\ EntryInv'
    BY <1>4, <2>1 DEF EndFunctors, IInv, TypeOK, FdsOwned, EntryInv
  <2>3. \A c \in Channels : Index[c] # "kNew" => life'[c] = life[c]
    BY <1>4 DEF EndFunctors, IInv, TypeOK, LoopInv
  <2>4. IndexInv'
    BY <1>4, <2>1, <2>3 DEF EndFunctors, IInv, IndexInv
  <2>5. LoopInv'
    <3>1. closing \cap unowned = {}
      BY DEF IInv, LoopInv
    <3> QED
      BY <1>4, <3>1 DEF EndFunctors, IInv, TypeOK, LoopInv
  <2> QED
    BY <2>2, <2>4, <2>5 DEF IInv
<1> QED
  BY <1>1, <1>2, <1>3, <1>4

\* Every step keeps the invariant.
LEMMA NextKeeps == IInv /\ [Next]_vars => IInv'
<1> SUFFICES ASSUME IInv, [Next]_vars PROVE IInv'
  OBVIOUS
<1>1. ASSUME NEW c \in Channels, Create(c) PROVE IInv'
  BY <1>1, PollerAssumption
  DEF Create, IInv, TypeOK, FdsOwned, IndexInv, EntryInv, LoopInv, pollVars, loopVars
<1>2. ASSUME NEW c \in Channels, ChangeEvents(c) PROVE IInv'
  <2>1. PICK events \in SUBSET Event : /\ Events' = [Events EXCEPT ![c] = events]
                                       /\ updateChannel(c, events)
    BY <1>2, Zenon DEF ChangeEvents, IInv, TypeOK
  <2> QED
    BY <1>2, <2>1, UpdateKeeps, Zenon DEF ChangeEvents
<1>3. ASSUME NEW c \in Channels, Close(c) PROVE IInv'
  BY <1>3, UpdateKeeps, Zenon DEF Close
<1>4. CASE UNCHANGED vars
  BY <1>4
  DEF vars, chanVars, pollVars, loopVars, IInv, TypeOK, FdsOwned, IndexInv, EntryInv, LoopInv
<1> QED
  BY <1>1, <1>2, <1>3, <1>4, RemoveKeeps, LoopKeeps DEF Next

-----------------------------------------------------------------------------
\* The invariant holds throughout.
THEOREM Invariance == Spec => []IInv
  BY InitHolds, NextKeeps, PTL DEF Spec

\* Whatever handlers and functors do with whatever channels, Channel::Index tells
\* what the kernel watches, and no epoll_ctl() of EpollPoller fails.
THEOREM IndexIsRight == Spec => []IndexAgrees
<1>1. IInv => IndexAgrees
  BY PollerAssumption
  DEF IInv, TypeOK, IndexInv, EntryInv, IndexAgrees, hasChannel
<1> QED
  BY <1>1, Invariance, PTL

\* No pointer to a freed channel is left where loop() or epoll_wait() finds it.
THEOREM NoneDangles == Spec => []NoDanglingChannel
<1>1. IInv => NoDanglingChannel
  BY PollerAssumption
  DEF IInv, TypeOK, IndexInv, EntryInv, LoopInv, NoDanglingChannel
<1> QED
  BY <1>1, Invariance, PTL

-----------------------------------------------------------------------------
(* EventLoopThreadPool.                                                    *)

\* What the owner is doing: starting workers, or quitting and joining them.
Starting == {"checking", "waiting"}
Ending == {"dtor", "quit", "wakeup", "join"}

PoolTypeOK ==
  /\ wpc \in [Workers -> {"unborn", "init", "publish", "enter", "looping",
                          "unpublish", "destroy", "done"}]
  /\ alive \in [Workers -> BOOLEAN] /\ loop_ \in [Workers -> BOOLEAN]
  /\ held \in [Workers -> BOOLEAN]
  /\ mpc \in {"new", "started", "gone"} \cup Starting \cup Ending
  /\ cur \in Nat /\ (mpc \in Starting \cup Ending => cur \in Workers)
  /\ loops_ \in Seq(Workers) /\ next_ \in Nat
  /\ handed \in [Workers -> Int]

\* A worker's loop lives, and loop_ points to it, at these places of threadFunc().
WorkerInv ==
  \A w \in Workers :
    /\ alive[w] <=> wpc[w] \in {"publish", "enter", "looping", "unpublish", "destroy"}
    /\ loop_[w] <=> wpc[w] \in {"enter", "looping", "unpublish"}

\* start() starts the workers in turn.
UnbornInv ==
  \A w \in Workers : mpc = "new" \/ (mpc \in Starting /\ w > cur) => wpc[w] = "unborn"

\* ~EventLoopThread() quits a loop while it holds mutex_ and loop_ is set.
LockInv == mpc \in {"quit", "wakeup"} => held[cur] /\ loop_[cur]

\* loops_ lists the workers in the order in which they were started, and is
\* complete before the first loop is dealt.
LoopsInv ==
  /\ \A i \in 1 .. Len(loops_) : loops_[i] = i
  /\ mpc = "new" => Len(loops_) = 0
  /\ mpc \in Starting => Len(loops_) = cur - 1
  /\ mpc \in {"new"} \cup Starting => next_ = 0 /\ \A w \in Workers : handed[w] = 0

\* The inductive invariant.
PoolInv == PoolTypeOK /\ WorkerInv /\ UnbornInv /\ LockInv /\ LoopsInv /\ DealtEvenly

-----------------------------------------------------------------------------
\* Before start() no worker exists and nothing was dealt.
LEMMA PoolInitHolds == PoolInit => PoolInv
  BY PoolAssumption
  DEF PoolInit, PoolInv, PoolTypeOK, WorkerInv, UnbornInv, LockInv, LoopsInv, DealtEvenly,
      Workers, Starting, Ending

\* A step of threadFunc() keeps alive and loop_ in step with the worker's place,
\* and cannot clear loop_ while the owner holds mutex_.
LEMMA WorkerKeeps ==
  ASSUME PoolInv, NEW w \in Workers, WorkerStep(w) \/ FunctorQuits(w)
  PROVE  PoolInv'
<1> USE DEF ownerVars
<1>1. wpc[w] # "unborn"
  BY DEF WorkerStep, FunctorQuits, InitCallback, Publish, EnterLoop, LeaveLoop, Unpublish,
         DestroyLoop, At
<1>2. UNCHANGED <<held, mpc, cur, loops_, next_, handed>>
  BY DEF WorkerStep, FunctorQuits, InitCallback, Publish, EnterLoop, LeaveLoop, Unpublish,
         DestroyLoop
<1>3. PoolTypeOK' /\ WorkerInv'
  <2>1. CASE InitCallback(w)
    BY <1>2, <2>1 DEF InitCallback, At, PoolInv, PoolTypeOK, WorkerInv
  <2>2. CASE Publish(w)
    BY <1>2, <2>2 DEF Publish, At, PoolInv, PoolTypeOK, WorkerInv
  <2>3. CASE EnterLoop(w)
    BY <1>2, <2>3 DEF EnterLoop, At, PoolInv, PoolTypeOK, WorkerInv
  <2>4. CASE LeaveLoop(w)
    BY <1>2, <2>4 DEF LeaveLoop, At, PoolInv, PoolTypeOK, WorkerInv
  <2>5. CASE Unpublish(w)
    BY <1>2, <2>5 DEF Unpublish, At, PoolInv, PoolTypeOK, WorkerInv
  <2>6. CASE DestroyLoop(w)
    BY <1>2, <2>6 DEF DestroyLoop, At, PoolInv, PoolTypeOK, WorkerInv
  <2>7. CASE FunctorQuits(w)
    BY <1>2, <2>7 DEF FunctorQuits, PoolInv, PoolTypeOK, WorkerInv
  <2> QED
    BY <2>1, <2>2, <2>3, <2>4, <2>5, <2>6, <2>7 DEF WorkerStep
<1>4. UnbornInv'
  <2>1. \A v \in Workers : wpc[v] = "unborn" => wpc'[v] = "unborn"
    BY <1>1 DEF WorkerStep, FunctorQuits, InitCallback, Publish, EnterLoop, LeaveLoop,
                Unpublish, DestroyLoop, At, PoolInv, PoolTypeOK
  <2> QED
    BY <1>2, <2>1 DEF PoolInv, UnbornInv
<1>5. LockInv'
  <2>1. \A v \in Workers : held[v] /\ loop_[v] => loop_'[v]
    BY DEF WorkerStep, FunctorQuits, InitCallback, Publish, EnterLoop, LeaveLoop,
           Unpublish, DestroyLoop, At, PoolInv, PoolTypeOK
  <2> QED
    BY <1>2, <2>1 DEF PoolInv, LockInv, PoolTypeOK, Ending
<1>6. LoopsInv' /\ DealtEvenly'
  BY <1>2 DEF PoolInv, LoopsInv, DealtEvenly
<1> QED
  BY <1>3, <1>4, <1>5, <1>6 DEF PoolInv

\* start() and startLoop().
LEMMA StartKeeps ==
  ASSUME PoolInv, Start \/ Wait \/ Wake \/ SpuriousWake \/ LoopReady
  PROVE  PoolInv'
<1> USE PoolAssumption DEF Workers, Starting, Ending, workerVars
<1>1. CASE Start
  BY <1>1
  DEF Start, StartThread, PoolInv, PoolTypeOK, WorkerInv, UnbornInv, LockInv, LoopsInv, DealtEvenly
<1>2. CASE Wait \/ Wake \/ SpuriousWake
  <2>1. /\ mpc \in Starting /\ mpc' \in Starting
        /\ UNCHANGED <<wpc, alive, loop_, held, cur, loops_, next_, handed>>
    BY <1>2 DEF Wait, Wake, SpuriousWake
  <2>2. PoolTypeOK' /\ WorkerInv' /\ UnbornInv' /\ LockInv'
    BY <2>1 DEF PoolInv, PoolTypeOK, WorkerInv, UnbornInv, LockInv
  <2>3. LoopsInv' /\ DealtEvenly'
    BY <2>1 DEF PoolInv, LoopsInv, DealtEvenly
  <2> QED
    BY <2>2, <2>3 DEF PoolInv
<1>3. CASE LoopReady
  <2>1. /\ loops_' = Append(loops_, cur) /\ Len(loops_) = cur - 1 /\ cur \in Workers
        /\ next_ = 0 /\ \A w \in Workers : handed[w] = 0
        /\ UNCHANGED <<alive, loop_, held, next_, handed>>
    BY <1>3 DEF LoopReady, PoolInv, PoolTypeOK, LoopsInv
  <2>2. Len(loops_') = cur /\ \A i \in 1 .. cur : loops_'[i] = i
    BY <2>1 DEF PoolInv, PoolTypeOK, LoopsInv
  <2>3. loops_' \in Seq(Workers) /\ DOMAIN loops_' = 1 .. cur
    BY <2>1, <2>2 DEF PoolInv, PoolTypeOK
  <2>4. DealtEvenly'
    BY <2>1, <2>2, <2>3, SMTT(30) DEF DealtEvenly
  <2>5. CASE cur < numThreads_
    <3>1. mpc' = "checking" /\ cur' = cur + 1 /\ wpc' = [wpc EXCEPT ![cur + 1] = "init"]
      BY <1>3, <2>5 DEF LoopReady, StartThread
    <3>2. cur + 1 \in Workers /\ wpc[cur + 1] = "unborn"
      BY <1>3, <2>1, <2>5 DEF LoopReady, PoolInv, UnbornInv
    <3>3. PoolTypeOK' /\ WorkerInv' /\ UnbornInv' /\ LockInv'
      BY <1>3, <2>1, <2>3, <3>1, <3>2 DEF LoopReady, PoolInv, PoolTypeOK, WorkerInv, UnbornInv, LockInv
    <3>4. LoopsInv'
      BY <2>1, <2>2, <3>1 DEF LoopsInv
    <3> QED
      BY <2>4, <3>3, <3>4 DEF PoolInv
  <2>6. CASE ~(cur < numThreads_)
    <3>1. mpc' = "started" /\ UNCHANGED <<cur, wpc>>
      BY <1>3, <2>6 DEF LoopReady
    <3>2. PoolTypeOK' /\ WorkerInv' /\ UnbornInv' /\ LockInv'
      BY <2>1, <2>3, <3>1 DEF PoolInv, PoolTypeOK, WorkerInv, UnbornInv, LockInv
    <3>3. LoopsInv'
      BY <2>1, <2>2, <3>1 DEF LoopsInv
    <3> QED
      BY <2>4, <3>2, <3>3 DEF PoolInv
  <2> QED
    BY <2>5, <2>6
<1> QED
  BY <1>1, <1>2, <1>3

\* getNextLoop() deals the loop at next_, the first of those that are behind.
LEMMA DealKeeps ==
  ASSUME PoolInv, getNextLoop
  PROVE  PoolInv'
<1> USE DEF Starting, Ending, workerVars
<1>1. /\ mpc = "started" /\ Len(loops_) \in Nat \ {0} /\ next_ < Len(loops_)
      /\ DOMAIN loops_ = 1 .. Len(loops_) /\ 1 .. Len(loops_) \subseteq Workers
  <2>1. DOMAIN loops_ = 1 .. Len(loops_) /\ Len(loops_) \in Nat /\ loops_ # <<>>
    BY DEF getNextLoop, PoolInv, PoolTypeOK
  <2>2. \A i \in 1 .. Len(loops_) : loops_[i] \in Workers /\ loops_[i] = i
    BY <2>1 DEF PoolInv, PoolTypeOK, LoopsInv
  <2> QED
    BY <2>1, <2>2 DEF getNextLoop, PoolInv, PoolTypeOK, DealtEvenly
<1>2. loops_[next_ + 1] = next_ + 1
  BY <1>1 DEF PoolInv, PoolTypeOK, LoopsInv
<1>3. /\ handed' = [handed EXCEPT ![next_ + 1] = @ + 1]
      /\ next_' = IF next_ + 1 >= Len(loops_) THEN 0 ELSE next_ + 1
      /\ UNCHANGED <<wpc, alive, loop_, held, mpc, cur, loops_>>
  BY <1>2 DEF getNextLoop
<1>4. PoolTypeOK' /\ WorkerInv' /\ UnbornInv' /\ LockInv' /\ LoopsInv'
  <2>1. handed' \in [Workers -> Int] /\ next_' \in Nat
    <3>1. next_ \in Nat /\ next_ + 1 \in Workers
      <4>1. next_ \in Nat
        BY DEF PoolInv, PoolTypeOK
      <4>2. next_ + 1 \in 1 .. Len(loops_)
        BY <1>1, <4>1
      <4> QED
        BY <1>1, <4>1, <4>2
    <3>2. handed[next_ + 1] + 1 \in Int
      BY <3>1 DEF PoolInv, PoolTypeOK
    <3>3. next_' \in Nat
      BY <1>3, <3>1
    <3> QED
      BY <1>3, <3>1, <3>2, <3>3 DEF PoolInv, PoolTypeOK
  <2>2. PoolTypeOK'
    BY <1>3, <2>1 DEF PoolInv, PoolTypeOK
  <2>3. WorkerInv' /\ UnbornInv' /\ LockInv'
    BY <1>3 DEF PoolInv, WorkerInv, UnbornInv, LockInv
  <2>4. LoopsInv'
    BY <1>1, <1>3 DEF PoolInv, LoopsInv
  <2> QED
    BY <2>2, <2>3, <2>4
<1>5. DealtEvenly'
  <2> SUFFICES ASSUME NEW i \in 1 .. Len(loops_), NEW j \in 1 .. Len(loops_)
               PROVE  /\ next_' < Len(loops_)
                      /\ handed'[i] - handed'[j] =
                           (IF i <= next_' THEN 1 ELSE 0) - (IF j <= next_' THEN 1 ELSE 0)
    <3>1. loops_' = loops_ /\ next_' < Len(loops_)
      BY <1>1, <1>3 DEF PoolInv, PoolTypeOK
    <3>2. \A k \in 1 .. Len(loops_) : loops_[k] = k
      BY DEF PoolInv, LoopsInv
    <3> QED
      BY <1>1, <3>1, <3>2 DEF DealtEvenly
  <2>1. handed[i] - handed[j] = (IF i <= next_ THEN 1 ELSE 0) - (IF j <= next_ THEN 1 ELSE 0)
    BY <1>1 DEF PoolInv, LoopsInv, DealtEvenly
  <2>2. /\ handed'[i] = handed[i] + (IF i = next_ + 1 THEN 1 ELSE 0)
        /\ handed'[j] = handed[j] + (IF j = next_ + 1 THEN 1 ELSE 0)
        /\ handed[i] \in Int /\ handed[j] \in Int /\ next_ \in Nat
    <3>1. i \in Workers /\ j \in Workers /\ next_ \in Nat
      BY <1>1 DEF PoolInv, PoolTypeOK
    <3>2. handed[i] \in Int /\ handed[j] \in Int
      BY <3>1 DEF PoolInv, PoolTypeOK
    <3> QED
      BY <1>3, <3>1, <3>2, SMTT(30) DEF PoolInv, PoolTypeOK
  <2>3. /\ next_' = IF next_ + 1 >= Len(loops_) THEN 0 ELSE next_ + 1
        /\ next_ < Len(loops_) /\ Len(loops_) \in Nat
    BY <1>1, <1>3
  <2>4. CASE next_ + 1 >= Len(loops_)
    BY <2>1, <2>2, <2>3, <2>4, SMTT(30)
  <2>5. CASE next_ + 1 < Len(loops_)
    BY <2>1, <2>2, <2>3, <2>5, SMTT(60)
  <2> QED
    BY <2>2, <2>3, <2>4, <2>5
<1> QED
  BY <1>4, <1>5 DEF PoolInv

\* ~EventLoopThreadPool() and ~EventLoopThread().
LEMMA DestroyKeeps ==
  ASSUME PoolInv, Destroy \/ DtorLock \/ QuitStore \/ QuitWakeup \/ Join
  PROVE  PoolInv'
<1> USE PoolAssumption DEF Workers, Starting, Ending, workerVars
<1>1. UNCHANGED <<wpc, alive, loop_, loops_, next_, handed>>
  BY DEF Destroy, DtorLock, QuitStore, QuitWakeup, Join
<1>2. mpc \in {"started"} \cup Ending /\ mpc' \in {"gone"} \cup Ending
  BY DEF Destroy, DtorLock, QuitStore, QuitWakeup, Join, DestroyNext, PoolInv, PoolTypeOK
<1>3. PoolTypeOK'
  <2>1. cur' \in Nat /\ (mpc' \in Ending => cur' \in Workers)
    BY DEF Destroy, DtorLock, QuitStore, QuitWakeup, Join, DestroyNext, PoolInv, PoolTypeOK
  <2>2. held' \in [Workers -> BOOLEAN]
    BY Zenon DEF Destroy, DtorLock, QuitStore, QuitWakeup, Join, PoolInv, PoolTypeOK
  <2> QED
    BY <1>1, <1>2, <2>1, <2>2 DEF PoolInv, PoolTypeOK
<1>4. LockInv'
  BY <1>1 DEF Destroy, DtorLock, QuitStore, QuitWakeup, Join, DestroyNext, PoolInv, PoolTypeOK, LockInv
<1>5. WorkerInv' /\ UnbornInv' /\ LoopsInv' /\ DealtEvenly'
  BY <1>1, <1>2 DEF PoolInv, WorkerInv, UnbornInv, LoopsInv, DealtEvenly
<1> QED
  BY <1>3, <1>4, <1>5 DEF PoolInv

\* Every step keeps the invariant.
LEMMA PoolNextKeeps == PoolInv /\ [PoolNext]_poolVars => PoolInv'
<1> SUFFICES ASSUME PoolInv, [PoolNext]_poolVars PROVE PoolInv'
  OBVIOUS
<1>1. CASE UNCHANGED poolVars
  BY <1>1 DEF poolVars, workerVars, ownerVars, PoolInv, PoolTypeOK, WorkerInv, UnbornInv, LockInv,
              LoopsInv, DealtEvenly
<1> QED
  BY <1>1, WorkerKeeps, StartKeeps, DealKeeps, DestroyKeeps DEF PoolNext, OwnerStep

-----------------------------------------------------------------------------
\* The invariant holds throughout.
THEOREM PoolInvariance == PoolSpec => []PoolInv
  BY PoolInitHolds, PoolNextKeeps, PTL DEF PoolSpec

\* quit() in ~EventLoopThread() only ever hits a live loop: while the owner holds
\* mutex_ with loop_ set, the worker is between publishing and clearing loop_.
THEOREM QuitIsSafe == PoolSpec => []QuitOnLiveLoop
<1>1. PoolInv => QuitOnLiveLoop
  BY DEF PoolInv, PoolTypeOK, WorkerInv, LockInv, QuitOnLiveLoop, Ending
<1> QED
  BY <1>1, PoolInvariance, PTL

\* getNextLoop() deals any number of loops in turn, for ever.
THEOREM DealsEvenly == PoolSpec => []DealtEvenly
<1>1. PoolInv => DealtEvenly
  BY DEF PoolInv
<1> QED
  BY <1>1, PoolInvariance, PTL

-----------------------------------------------------------------------------
\* What StartReturns rests on: once the worker has published its loop, the owner
\* that waits for it has been notified, or the worker still has to notify.
StartOwed == mpc = "waiting" /\ loop_[cur] => notified \/ wpc[cur] = "enter"

\* startLoop() does not sleep through the notification of its worker: the owner
\* tests loop_ under mutex_ before it waits, the worker sets it before it notifies.
THEOREM StartIsHeard == PoolSpec => []StartOwed
<1>1. PoolInit => StartOwed
  BY DEF PoolInit, StartOwed
<1>2. PoolInv /\ StartOwed /\ [PoolNext]_poolVars => StartOwed'
  <2> SUFFICES ASSUME PoolInv, StartOwed, [PoolNext]_poolVars PROVE StartOwed'
    OBVIOUS
  <2> USE DEF StartOwed
  <2>1. ASSUME NEW w \in Workers, Publish(w) PROVE StartOwed'
    BY <2>1 DEF Publish, At, ownerVars, PoolInv, PoolTypeOK, Starting
  <2>2. ASSUME NEW w \in Workers, EnterLoop(w) PROVE StartOwed'
    BY <2>2 DEF EnterLoop, At, ownerVars, PoolInv, PoolTypeOK, Starting
  <2>3. ASSUME NEW w \in Workers, Unpublish(w) PROVE StartOwed'
    BY <2>3 DEF Unpublish, At, ownerVars, PoolInv, PoolTypeOK, Starting
  <2>4. ASSUME NEW w \in Workers, InitCallback(w) \/ LeaveLoop(w) \/ DestroyLoop(w) \/ FunctorQuits(w)
        PROVE  StartOwed'
    BY <2>4 DEF InitCallback, LeaveLoop, DestroyLoop, FunctorQuits, At, ownerVars, PoolInv,
                PoolTypeOK, Starting
  <2>5. CASE Wait
    BY <2>5 DEF Wait, workerVars
  <2>6. CASE Start \/ LoopReady
    BY <2>6 DEF Start, LoopReady, StartThread
  <2>7. CASE Wake \/ SpuriousWake \/ getNextLoop
    BY <2>7 DEF Wake, SpuriousWake, getNextLoop
  <2>8. CASE Destroy \/ DtorLock \/ QuitStore \/ QuitWakeup \/ Join
    BY <2>8 DEF Destroy, DtorLock, QuitStore, QuitWakeup, Join, DestroyNext
  <2>9. CASE UNCHANGED poolVars
    BY <2>9 DEF poolVars, workerVars, ownerVars
  <2> QED
    BY <2>1, <2>2, <2>3, <2>4, <2>5, <2>6, <2>7, <2>8, <2>9 DEF PoolNext, OwnerStep, WorkerStep
<1> QED
  BY <1>1, <1>2, PoolInvariance, PTL DEF PoolSpec
=============================================================================
