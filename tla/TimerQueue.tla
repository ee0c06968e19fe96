------------------------------ MODULE TimerQueue ------------------------------
(***************************************************************************)
(* TimerQueue (include/TimerQueue.h, src/base/TimerQueue.cpp) with Timer   *)
(* and TimerId (include/Timer.h, src/base/Timer.cpp): the timers of one    *)
(* loop, multiplexed over one timerfd.                                     *)
(*                                                                         *)
(* Time is counted in units of 100 us, the shortest delay the code arms    *)
(* the timerfd with.  The timerfd runs on the monotonic clock, expirations *)
(* are wall-clock times: Wall == clock + offset, and the offset may be     *)
(* stepped.  Timers live at heap addresses, which are reused after delete; *)
(* a TimerId is an address and a sequence number.                          *)
(*                                                                         *)
(* The loop thread is "idle" whenever it runs neither a timer callback nor *)
(* the bookkeeping of handleRead(): it then polls, runs other handlers or  *)
(* functors, any of which may call the public interface.                   *)
(***************************************************************************)
EXTENDS Integers, Sequences, FiniteSets

CONSTANTS
  Threads,      \* threads other than the loop's
  Addrs,        \* heap addresses at which a Timer can be allocated
  Times,        \* wall-clock times that callers ask for
  Intervals,    \* repeat intervals; 0 stands for an interval below one unit
  Offsets,      \* values of the wall clock's offset from the monotonic clock
  MaxTime,      \* bound: last value of the monotonic clock
  MaxTimers,    \* bound: number of timers ever created
  MaxPending    \* bound: functors queued in the loop at a time

ASSUME TimerAssumption ==
  /\ Addrs \subseteq Nat
  /\ Times \subseteq Nat /\ Intervals \subseteq Nat
  /\ Offsets \subseteq Nat
  /\ MaxTime \in Nat /\ MaxTimers \in Nat /\ MaxPending \in Nat

VARIABLES
  clock, offset,
  deadline,            \* monotonic time the timerfd fires at, 0: disarmed
  readable,            \* the timerfd has expired and was not read since
  activated,           \* epoll_wait has reported the timerfd readable
  heap,                \* the live Timer objects, by address
  nextSeq,             \* Timer::s_numCreated_
  timers_,             \* set of <<expiration, address>>
  activeTimers_,       \* set of <<address, sequence>>
  cancelingTimers_,
  callingExpiredTimers_,
  pc,                  \* "idle", "batch", "callback", "reset", "gone"
  batchNow,            \* handleRead()'s local now
  expired,             \* handleRead()'s local vector, entries still to reset
  uncalled,            \* those of its entries whose callback is still to run
  pending,             \* functors queued in the loop by other threads
  tpc,                 \* what each thread still has to return from addTimer()
  issued,              \* history: TimerIds returned to callers
  dead                 \* history: timers that must not run in a later batch

timerfdVars == <<deadline, readable, activated>>
setVars == <<timers_, activeTimers_>>
batchVars == <<pc, batchNow, expired, uncalled, cancelingTimers_, callingExpiredTimers_>>
ghostVars == <<issued, dead>>
vars == <<clock, offset, timerfdVars, heap, nextSeq, setVars, batchVars, pending, tpc, ghostVars>>

Wall == clock + offset

\* Timer(cb, when, interval): repeat_ is interval > 0.0.
Timer(when, repeat, interval) ==
  [expiration |-> when, repeat |-> repeat, interval |-> interval, sequence |-> nextSeq]

Alloc(a, timer) == [x \in DOMAIN heap \cup {a} |-> IF x = a THEN timer ELSE heap[x]]
Freed(a) == [x \in DOMAIN heap \ {a} |-> heap[x]]

Entry(a) == <<heap[a].expiration, a>>
ActiveTimer(a) == <<a, heap[a].sequence>>

\* The order of std::set<Entry>.
Before(d, e) == d[1] < e[1] \/ (d[1] = e[1] /\ d[2] < e[2])
IsFirst(e, S) == e \in S /\ \A d \in S \ {e} : Before(e, d)
First(S) == CHOOSE e \in S : IsFirst(e, S)

Idle == [addr |-> 0, sequence |-> -1]

Init ==
  /\ clock = 1 /\ offset \in Offsets
  /\ deadline = 0 /\ readable = FALSE /\ activated = FALSE
  /\ heap = <<>> /\ nextSeq = 0
  /\ timers_ = {} /\ activeTimers_ = {} /\ cancelingTimers_ = {}
  /\ callingExpiredTimers_ = FALSE
  /\ pc = "idle" /\ batchNow = 0 /\ expired = {} /\ uncalled = {}
  /\ pending = <<>>
  /\ tpc = [t \in Threads |-> Idle]
  /\ issued = {} /\ dead = {}

-----------------------------------------------------------------------------
(* resetTimerfd(): timerfd_settime() with a relative delay of at least one   *)
(* unit; it also discards an expiration that was not read.                   *)
ResetTimerfd(when) ==
  /\ deadline' = clock + (IF when - Wall < 1 THEN 1 ELSE when - Wall)
  /\ readable' = FALSE
  /\ UNCHANGED activated

EarliestChanged(when) == \A e \in timers_ : when < e[1]

\* addTimerInLoop(): insert() and, if the new timer is the earliest, re-arm.
AddTimerInLoop(a, timer) ==
  /\ timers_' = timers_ \cup {<<timer.expiration, a>>}
  /\ activeTimers_' = activeTimers_ \cup {<<a, timer.sequence>>}
  /\ IF EarliestChanged(timer.expiration)
     THEN ResetTimerfd(timer.expiration)
     ELSE UNCHANGED timerfdVars

\* Timers cancelled while in a queue set, or in the batch being run.
Stopped(id) ==
  {id} \cap (activeTimers_ \cup {ActiveTimer(e[2]) : e \in expired})

MutFound(id) == id[1] \in {x[1] : x \in activeTimers_}
Found(id) == id \in activeTimers_

MutErased(id) == timers_
Erased(id) == timers_ \ {Entry(id[1])}

MutRunning == FALSE
Running == callingExpiredTimers_

\* cancelInLoop(): delete the timer, or, while a batch runs, remember it.
\* (The timer is deleted through an iterator already erased, line 159; the
\* node's payload survives the erase, so the same timer is deleted.)
CancelInLoop(id) ==
  /\ IF Found(id)
     THEN /\ timers_' = Erased(id)
          /\ activeTimers_' = activeTimers_ \ {id}
          /\ heap' = Freed(id[1])
          /\ UNCHANGED cancelingTimers_
     ELSE /\ cancelingTimers_' = IF Running THEN cancelingTimers_ \cup {id} ELSE cancelingTimers_
          /\ UNCHANGED <<setVars, heap>>
  /\ dead' = dead \cup Stopped(id)

-----------------------------------------------------------------------------
(* The public interface called in the loop thread: runInLoop() runs the      *)
(* functor at once.                                                          *)
InUserCode == pc \in {"idle", "callback"}

Create(a, when, repeat, interval) ==
  /\ nextSeq < MaxTimers
  /\ a \notin DOMAIN heap
  /\ heap' = Alloc(a, Timer(when, repeat, interval))
  /\ nextSeq' = nextSeq + 1

\* runAt() and runAfter() give any time, past ones included; runEvery()
\* gives now plus the interval.
Requests ==
  {<<when, FALSE, 0>> : when \in Times} \cup {<<Wall + i, TRUE, i>> : i \in Intervals}

LoopAddTimer(a, r) ==
  /\ InUserCode
  /\ Create(a, r[1], r[2], r[3])
  /\ AddTimerInLoop(a, Timer(r[1], r[2], r[3]))
  /\ issued' = issued \cup {<<a, nextSeq>>}
  /\ UNCHANGED <<clock, offset, batchVars, pending, tpc, dead>>

LoopCancel(id) ==
  /\ InUserCode
  /\ CancelInLoop(id)
  /\ UNCHANGED <<clock, offset, timerfdVars, nextSeq, pc, batchNow, expired, uncalled,
                 callingExpiredTimers_, pending, tpc, issued>>

-----------------------------------------------------------------------------
(* The public interface called in another thread: the functor is queued in   *)
(* the loop, and addTimer() then reads timer->sequence() for its result.     *)
AddTimer(t, a, r) ==
  /\ pc # "gone" /\ tpc[t] = Idle
  /\ Len(pending) < MaxPending
  /\ Create(a, r[1], r[2], r[3])
  /\ pending' = Append(pending, [op |-> "add", id |-> <<a, nextSeq>>])
  /\ tpc' = [tpc EXCEPT ![t] = [addr |-> a, sequence |-> nextSeq]]
  /\ UNCHANGED <<clock, offset, timerfdVars, setVars, batchVars, ghostVars>>

\* The read finds the timer, or whatever memory was left or put in its place.
AddTimerReturn(t) ==
  LET a == tpc[t].addr
  IN  /\ tpc[t] # Idle
      /\ \E s \in IF a \in DOMAIN heap THEN {heap[a].sequence} ELSE 0 .. MaxTimers - 1 :
           issued' = issued \cup {<<a, s>>}
      /\ tpc' = [tpc EXCEPT ![t] = Idle]
      /\ UNCHANGED <<clock, offset, timerfdVars, heap, nextSeq, setVars, batchVars, pending,
                     dead>>

Cancel(t, id) ==
  /\ pc # "gone" /\ tpc[t] = Idle
  /\ Len(pending) < MaxPending
  /\ pending' = Append(pending, [op |-> "cancel", id |-> id])
  /\ UNCHANGED <<clock, offset, timerfdVars, heap, nextSeq, setVars, batchVars, tpc, ghostVars>>

\* doPendingFunctors() runs the queued functors in order.
RunPendingAdd ==
  /\ pc = "idle" /\ pending # <<>> /\ Head(pending).op = "add"
  /\ AddTimerInLoop(Head(pending).id[1], heap[Head(pending).id[1]])
  /\ pending' = Tail(pending)
  /\ UNCHANGED <<clock, offset, heap, nextSeq, batchVars, tpc, ghostVars>>

RunPendingCancel ==
  /\ pc = "idle" /\ pending # <<>> /\ Head(pending).op = "cancel"
  /\ CancelInLoop(Head(pending).id)
  /\ pending' = Tail(pending)
  /\ UNCHANGED <<clock, offset, timerfdVars, nextSeq, pc, batchNow, expired, uncalled,
                 callingExpiredTimers_, tpc, issued>>

-----------------------------------------------------------------------------
(* The timerfd and the clocks (external).                                    *)
Tick ==
  /\ clock < MaxTime
  /\ clock' = clock + 1
  /\ IF deadline # 0 /\ deadline <= clock + 1
     THEN deadline' = 0 /\ readable' = TRUE
     ELSE UNCHANGED <<deadline, readable>>
  /\ UNCHANGED <<offset, activated, heap, nextSeq, setVars, batchVars, pending, tpc, ghostVars>>

StepWallClock ==
  /\ offset' \in Offsets \ {offset}
  /\ UNCHANGED <<clock, timerfdVars, heap, nextSeq, setVars, batchVars, pending, tpc, ghostVars>>

\* epoll_wait() reports the timerfd.  A handler that runs before handleRead()
\* in the same iteration may re-arm it: read() then fails with EAGAIN.
Poll ==
  /\ pc = "idle" /\ readable /\ ~activated
  /\ activated' = TRUE
  /\ UNCHANGED <<clock, offset, deadline, readable, heap, nextSeq, setVars, batchVars,
                 pending, tpc, ghostVars>>

-----------------------------------------------------------------------------
(* handleRead().                                                             *)
Due(now) == {e \in timers_ : e[1] <= now}

MutActiveLeft(taken) == activeTimers_
ActiveLeft(taken) == activeTimers_ \ {ActiveTimer(e[2]) : e \in taken}

\* Up to the first callback: read the timerfd, take the due timers out of
\* both sets (getExpired()) and start a batch.
HandleRead ==
  /\ pc = "idle" /\ activated
  /\ activated' = FALSE /\ readable' = FALSE
  /\ batchNow' = Wall
  /\ expired' = Due(Wall)
  /\ uncalled' = Due(Wall)
  /\ timers_' = timers_ \ Due(Wall)
  /\ activeTimers_' = ActiveLeft(Due(Wall))
  /\ callingExpiredTimers_' = TRUE
  /\ cancelingTimers_' = {}
  /\ pc' = "batch"
  /\ UNCHANGED <<clock, offset, deadline, heap, nextSeq, pending, tpc, ghostVars>>

RunCallback ==
  /\ pc = "batch" /\ pc' = "callback"
  /\ \E e \in uncalled :
       /\ IsFirst(e, uncalled)
       /\ uncalled' = uncalled \ {e}
       /\ dead' = IF heap[e[2]].repeat THEN dead ELSE dead \cup {ActiveTimer(e[2])}
  /\ UNCHANGED <<clock, offset, timerfdVars, heap, nextSeq, setVars, batchNow, expired,
                 cancelingTimers_, callingExpiredTimers_, pending, tpc, issued>>

\* The callback returns, or throws and the exception is swallowed.
CallbackReturn ==
  /\ pc = "callback"
  /\ pc' = "batch"
  /\ UNCHANGED <<clock, offset, timerfdVars, heap, nextSeq, setVars, batchNow, expired, uncalled,
                 cancelingTimers_, callingExpiredTimers_, pending, tpc, ghostVars>>

EndBatch ==
  /\ pc = "batch" /\ uncalled = {}
  /\ callingExpiredTimers_' = FALSE
  /\ pc' = "reset"
  /\ UNCHANGED <<clock, offset, timerfdVars, heap, nextSeq, setVars, batchNow, expired, uncalled,
                 cancelingTimers_, pending, tpc, ghostVars>>

\* Timer::restart()
Restarted(timer) == [timer EXCEPT !.expiration = batchNow + timer.interval]

\* One turn of reset()'s loop: a repeating timer not cancelled meanwhile is
\* restarted and inserted, any other is deleted.
Reset(e) ==
  LET a == e[2]
      timer == Restarted(heap[a])
  IN  /\ expired' = expired \ {e}
      /\ IF heap[a].repeat /\ ActiveTimer(a) \notin cancelingTimers_
         THEN /\ heap' = [heap EXCEPT ![a] = timer]
              /\ timers_' = timers_ \cup {<<timer.expiration, a>>}
              /\ activeTimers_' = activeTimers_ \cup {ActiveTimer(a)}
         ELSE /\ heap' = Freed(a)
              /\ UNCHANGED setVars

ResetTimer ==
  /\ pc = "reset"
  /\ \E e \in expired : IsFirst(e, expired) /\ Reset(e)
  /\ UNCHANGED <<clock, offset, timerfdVars, nextSeq, pc, batchNow, uncalled, cancelingTimers_,
                 callingExpiredTimers_, pending, tpc, issued, dead>>

MutRearm == UNCHANGED timerfdVars
Rearm == IF timers_ # {} THEN ResetTimerfd(First(timers_)[1]) ELSE UNCHANGED timerfdVars

\* The end of reset(): re-arm for the earliest timer left.
ResetEnd ==
  /\ pc = "reset" /\ expired = {}
  /\ Rearm
  /\ pc' = "idle"
  /\ UNCHANGED <<clock, offset, heap, nextSeq, setVars, batchNow, expired, uncalled,
                 cancelingTimers_, callingExpiredTimers_, pending, tpc, ghostVars>>

\* ~TimerQueue(), with the loop outside loop(): the waiting timers are deleted
\* and the timerfd is closed.  Functors still queued never run.
Destroy ==
  /\ pc = "idle" /\ ~activated
  /\ pc' = "gone"
  /\ heap' = [a \in DOMAIN heap \ {e[2] : e \in timers_} |-> heap[a]]
  /\ timers_' = {} /\ activeTimers_' = {}
  /\ deadline' = 0 /\ readable' = FALSE
  /\ UNCHANGED <<clock, offset, activated, nextSeq, batchNow, expired, uncalled,
                 cancelingTimers_, callingExpiredTimers_, pending, tpc, ghostVars>>

-----------------------------------------------------------------------------
LoopStep ==
  \/ Poll \/ HandleRead \/ RunCallback \/ CallbackReturn
  \/ EndBatch \/ ResetTimer \/ ResetEnd \/ Destroy
  \/ RunPendingAdd \/ RunPendingCancel

UserCall ==
  \/ \E a \in Addrs, r \in Requests : LoopAddTimer(a, r)
  \/ \E id \in issued : LoopCancel(id)
  \/ \E t \in Threads, a \in Addrs, r \in Requests : AddTimer(t, a, r)
  \/ \E t \in Threads : AddTimerReturn(t)
  \/ \E t \in Threads, id \in issued : Cancel(t, id)

Next == LoopStep \/ UserCall \/ Tick \/ StepWallClock

Spec == Init /\ [][Next]_vars

-----------------------------------------------------------------------------
\* The two sets describe the same timers at every moment, so each erase of
\* cancelInLoop() and getExpired() finds its entry and insert()'s assertions
\* on their sizes hold (TimerQueue.cpp:153, 224, 292, 323).
SetsAgree ==
  /\ \A e \in timers_ : e[2] \in DOMAIN heap /\ e = Entry(e[2])
  /\ activeTimers_ = {ActiveTimer(e[2]) : e \in timers_}

\* Every live Timer has exactly one owner: the functor that will insert it,
\* the queue, or the batch being run.  So none leaks, none is deleted twice
\* and no callback runs on a deleted one; ~TimerQueue() leaves only timers of
\* functors that were not run.
OneOwner ==
  LET adds == {i \in DOMAIN pending : pending[i].op = "add"}
      queued == {pending[i].id[1] : i \in adds}
      inserted == {e[2] : e \in timers_}
      running == {e[2] : e \in expired}
  IN  /\ DOMAIN heap = queued \cup inserted \cup running
      /\ queued \cap inserted = {} /\ queued \cap running = {} /\ inserted \cap running = {}
      /\ \A i, j \in adds : pending[i].id[1] = pending[j].id[1] => i = j

\* A timer cancelled once it was inserted, and a one-shot timer that has run,
\* is not in the queue again: no later handleRead() can run it.
DeadStaysDead == dead \cap activeTimers_ = {}

\* A timer only goes away by running its one shot or by being cancelled with
\* its own TimerId: the id of a deleted timer never hits the timer that has
\* taken over its address.  Only ~TimerQueue() deletes timers unasked.
OnlyOwnIdCancels ==
  pc # "gone" => \A s \in 0 .. nextSeq - 1 :
    \/ \E a \in DOMAIN heap : heap[a].sequence = s
    \/ \E id \in dead : id[2] = s

\* Whenever timers wait and no handleRead() is due or under way, the timerfd
\* is armed, and fires no later than the earliest timer expires by the wall
\* clock at its slowest setting, or one unit from now if that is past.  (A
\* timer runs late when the clock is stepped forward after the timerfd was armed.)
Punctual ==
  LET slowest == CHOOSE o \in Offsets : \A p \in Offsets : o <= p
      now == clock + slowest
  IN  pc = "idle" /\ timers_ # {} /\ ~readable /\ ~activated
        => /\ deadline # 0
           /\ \A e \in timers_ : deadline + slowest <= (IF e[1] <= now THEN now + 1 ELSE e[1])

\* TimerQueue.h:36: addTimer() returns a TimerId by which the timer can be
\* cancelled.  addTimer() reads the sequence of a timer it has handed over.
ReturnedIdIsTheTimers ==
  \A t \in Threads :
    tpc[t] # Idle => /\ tpc[t].addr \in DOMAIN heap
                     /\ heap[tpc[t].addr].sequence = tpc[t].sequence
=============================================================================
