------------------------- MODULE EventLoopThreadPool -------------------------
(***************************************************************************)
(* EventLoopThreadPool and EventLoopThread (src/base/EventLoopThreadPool   *)
(* .cpp, src/base/EventLoopThread.cpp): the owner's thread starts one      *)
(* worker after the other, waits until each has published its loop, deals  *)
(* out the loops in turn and at the end quits and joins the workers.       *)
(*                                                                         *)
(* The loop of a worker is its stack variable in threadFunc(): the pointer *)
(* loop_ may be used only while it lives.  That a loop leaves loop() once  *)
(* quit_ is set is what EventLoop promises (QuitHonoured there).           *)
(***************************************************************************)
EXTENDS Integers, Sequences

CONSTANTS
  numThreads_,
  Quitters,    \* who may quit a loop besides the owner: "callback", "functor"
  MaxDeals     \* bound: calls of getNextLoop()

ASSUME PoolAssumption ==
  /\ numThreads_ \in Nat
  /\ Quitters \subseteq {"callback", "functor"}
  /\ MaxDeals \in Nat

Workers == 1 .. numThreads_

VARIABLES
  wpc,         \* where each worker is
  alive,       \* its EventLoop is constructed and not destroyed
  loop_,       \* its EventLoopThread::loop_ is not null
  quit_,       \* its EventLoop::quit_
  held,        \* the owner holds its mutex_
  mpc,         \* where the owner is
  cur,         \* the worker the owner is starting or destroying
  notified,    \* notify_one() has reached the owner's wait
  loops_,      \* the workers whose loops startLoop() has returned
  next_,       \* index of the next loop to deal
  handed       \* history: how often each worker's loop was dealt

workerVars == <<wpc, alive, loop_, quit_>>
ownerVars == <<held, mpc, cur, loops_, next_, handed>>
poolVars == <<workerVars, ownerVars, notified>>

PoolInit ==
  /\ wpc = [w \in Workers |-> "unborn"]
  /\ alive = [w \in Workers |-> FALSE]
  /\ loop_ = [w \in Workers |-> FALSE]
  /\ quit_ = [w \in Workers |-> FALSE]
  /\ held = [w \in Workers |-> FALSE]
  /\ mpc = "new" /\ cur = 0 /\ notified = FALSE
  /\ loops_ = <<>> /\ next_ = 0
  /\ handed = [w \in Workers |-> 0]

-----------------------------------------------------------------------------
(* threadFunc().                                                             *)
At(w, here, there) == wpc[w] = here /\ wpc' = [wpc EXCEPT ![w] = there]

\* Construct the loop and run the init callback, which may quit the loop or
\* queue a functor in it that does.
InitCallback(w) ==
  /\ At(w, "init", "publish")
  /\ alive' = [alive EXCEPT ![w] = TRUE]
  /\ quit_' \in {quit_} \cup (IF "callback" \in Quitters THEN {[quit_ EXCEPT ![w] = TRUE]} ELSE {})
  /\ UNCHANGED <<loop_, ownerVars, notified>>

Publish(w) ==
  /\ At(w, "publish", "enter") /\ ~held[w]
  /\ loop_' = [loop_ EXCEPT ![w] = TRUE]
  /\ UNCHANGED <<alive, quit_, ownerVars, notified>>

MutNoNotify(w) ==
  /\ At(w, "enter", "looping") /\ ~held[w]
  /\ UNCHANGED <<alive, loop_, quit_, ownerVars, notified>>

\* loop() calls the loopStartedCallback_, which notifies.
EnterLoop(w) ==
  /\ At(w, "enter", "looping") /\ ~held[w]
  /\ notified' = (notified \/ (mpc = "waiting" /\ cur = w))
  /\ UNCHANGED <<alive, loop_, quit_, ownerVars>>

FunctorQuits(w) ==
  /\ "functor" \in Quitters /\ wpc[w] = "looping"
  /\ quit_' = [quit_ EXCEPT ![w] = TRUE]
  /\ UNCHANGED <<wpc, alive, loop_, ownerVars, notified>>

LeaveLoop(w) ==
  /\ At(w, "looping", "unpublish") /\ quit_[w]
  /\ UNCHANGED <<alive, loop_, quit_, ownerVars, notified>>

Unpublish(w) ==
  /\ At(w, "unpublish", "destroy") /\ ~held[w]
  /\ loop_' = [loop_ EXCEPT ![w] = FALSE]
  /\ UNCHANGED <<alive, quit_, ownerVars, notified>>

\* The lock is released before the stack variable loop is destroyed.
DestroyLoop(w) ==
  /\ At(w, "destroy", "done")
  /\ alive' = [alive EXCEPT ![w] = FALSE]
  /\ UNCHANGED <<loop_, quit_, ownerVars, notified>>

-----------------------------------------------------------------------------
(* start() and startLoop(), in the owner's thread.                           *)
StartThread(w) ==
  /\ cur' = w /\ mpc' = "checking"
  /\ wpc' = [wpc EXCEPT ![w] = "init"]

Start ==
  /\ mpc = "new"
  /\ IF numThreads_ = 0 THEN mpc' = "started" /\ UNCHANGED <<cur, wpc>> ELSE StartThread(1)
  /\ UNCHANGED <<alive, loop_, quit_, held, notified, loops_, next_, handed>>

Wait ==
  /\ mpc = "checking" /\ ~loop_[cur]
  /\ mpc' = "waiting" /\ notified' = FALSE
  /\ UNCHANGED <<workerVars, held, cur, loops_, next_, handed>>

Wake ==
  /\ mpc = "waiting" /\ notified
  /\ mpc' = "checking"
  /\ UNCHANGED <<workerVars, held, cur, notified, loops_, next_, handed>>

SpuriousWake ==
  /\ mpc = "waiting" /\ ~notified
  /\ mpc' = "checking"
  /\ UNCHANGED <<workerVars, held, cur, notified, loops_, next_, handed>>

\* startLoop() returns, and start() goes on to the next worker.
LoopReady ==
  /\ mpc = "checking" /\ loop_[cur]
  /\ loops_' = Append(loops_, cur)
  /\ IF cur < numThreads_ THEN StartThread(cur + 1) ELSE mpc' = "started" /\ UNCHANGED <<cur, wpc>>
  /\ UNCHANGED <<alive, loop_, quit_, held, notified, next_, handed>>

MutNextLoop ==
  /\ mpc = "started" /\ loops_ # <<>> /\ \A w \in Workers : handed[w] < MaxDeals
  /\ handed' = [handed EXCEPT ![loops_[next_ + 1]] = @ + 1]
  /\ next_' = IF next_ + 1 > Len(loops_) - 1 THEN Len(loops_) - 1 ELSE next_ + 1
  /\ UNCHANGED <<workerVars, held, mpc, cur, notified, loops_>>

\* With no worker every call returns the base loop and changes nothing.
getNextLoop ==
  /\ mpc = "started" /\ loops_ # <<>> /\ \A w \in Workers : handed[w] < MaxDeals
  /\ handed' = [handed EXCEPT ![loops_[next_ + 1]] = @ + 1]
  /\ next_' = IF next_ + 1 >= Len(loops_) THEN 0 ELSE next_ + 1
  /\ UNCHANGED <<workerVars, held, mpc, cur, notified, loops_>>

-----------------------------------------------------------------------------
(* ~EventLoopThreadPool() destroys the EventLoopThreads in turn.             *)
DestroyNext(w) == IF w <= numThreads_ THEN cur' = w /\ mpc' = "dtor" ELSE mpc' = "gone" /\ cur' = 0

Destroy ==
  /\ mpc = "started"
  /\ DestroyNext(1)
  /\ UNCHANGED <<workerVars, held, notified, loops_, next_, handed>>

MutDtorNoLock ==
  /\ mpc = "dtor"
  /\ mpc' = IF loop_[cur] THEN "quit" ELSE "join"
  /\ held' = held
  /\ UNCHANGED <<workerVars, cur, notified, loops_, next_, handed>>

\* ~EventLoopThread() holds mutex_ across the two steps of quit().
DtorLock ==
  /\ mpc = "dtor"
  /\ mpc' = IF loop_[cur] THEN "quit" ELSE "join"
  /\ held' = [held EXCEPT ![cur] = loop_[cur]]
  /\ UNCHANGED <<workerVars, cur, notified, loops_, next_, handed>>

MutQuitStore ==
  /\ mpc = "quit"
  /\ mpc' = "wakeup"
  /\ UNCHANGED <<workerVars, held, cur, notified, loops_, next_, handed>>

QuitStore ==
  /\ mpc = "quit"
  /\ quit_' = [quit_ EXCEPT ![cur] = TRUE]
  /\ mpc' = "wakeup"
  /\ UNCHANGED <<wpc, alive, loop_, held, cur, notified, loops_, next_, handed>>

QuitWakeup ==
  /\ mpc = "wakeup"
  /\ held' = [held EXCEPT ![cur] = FALSE]
  /\ mpc' = "join"
  /\ UNCHANGED <<workerVars, cur, notified, loops_, next_, handed>>

Join ==
  /\ mpc = "join" /\ wpc[cur] = "done"
  /\ DestroyNext(cur + 1)
  /\ UNCHANGED <<workerVars, held, notified, loops_, next_, handed>>

-----------------------------------------------------------------------------
WorkerStep(w) ==
  \/ InitCallback(w) \/ Publish(w) \/ EnterLoop(w)
  \/ LeaveLoop(w) \/ Unpublish(w) \/ DestroyLoop(w)

OwnerStep ==
  \/ Start \/ Wait \/ Wake \/ LoopReady
  \/ DtorLock \/ QuitStore \/ QuitWakeup \/ Join

PoolNext ==
  \/ OwnerStep \/ SpuriousWake \/ getNextLoop \/ Destroy
  \/ \E w \in Workers : WorkerStep(w) \/ FunctorQuits(w)

PoolSpec == PoolInit /\ [][PoolNext]_poolVars

(* Threads are scheduled; nothing forces a spurious wakeup, a functor that   *)
(* quits, or the owner to deal loops or to destroy the pool.                 *)
Fairness == WF_poolVars(OwnerStep) /\ \A w \in Workers : WF_poolVars(WorkerStep(w))
FairSpec == PoolSpec /\ Fairness

-----------------------------------------------------------------------------
\* ~EventLoopThread() calls quit(), its wakeup write included, only on a loop
\* that still exists: the worker cannot get past clearing loop_ meanwhile.
QuitOnLiveLoop == mpc \in {"quit", "wakeup"} => alive[cur]

\* getNextLoop() never indexes past loops_ and shares the loops evenly: the
\* counts differ by at most one, and the workers before next_ are ahead.
DealtEvenly ==
  /\ loops_ # <<>> => next_ < Len(loops_)
  /\ \A i, j \in DOMAIN loops_ :
       handed[loops_[i]] - handed[loops_[j]] = (IF i <= next_ THEN 1 ELSE 0) - (IF j <= next_ THEN 1 ELSE 0)

\* start() returns: each startLoop() returns the worker's loop.  If the worker's
\* init callback or a functor has quit the loop it need not: loop_ may be null
\* again before the owner looks at it, and nobody notifies any more.
StartReturns == mpc = "checking" ~> mpc = "started" \/ (cur \in Workers /\ quit_[cur])

\* ~EventLoopThreadPool() returns, wherever the workers are when it starts.
DestroyReturns == mpc = "dtor" ~> mpc = "gone"
=============================================================================
