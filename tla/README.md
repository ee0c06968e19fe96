# A verification of re_muduo in TLA+

re_muduo is a C++ re-implementation of the muduo network library: one event loop
per thread, non-blocking sockets over epoll, timers over one timerfd per loop, and
an asynchronous logger. This directory models its concurrent core in TLA+, checks
the models with TLC on small instances and proves part of them with TLAPS.
`PROJECT.json` lists the runs, the source lines behind each definition, the
mutations each property was tested with, the hazards, the findings and the theorems.

## The system and its parts

| Part (source) | What it owns | Who uses it | Model |
|---|---|---|---|
| EventLoop (`Eventloop.cpp`) | queue of functors, `quit_`, eventfd | every thread | `EventLoop`, `TaskQueue` |
| EventLoopThread, EventLoopThreadPool | worker threads and their loops | TcpServer | `EventLoopThreadPool` |
| TimerQueue, Timer, TimerId | two sets of timers, one timerfd | EventLoop::runAt/After/Every, cancel | `TimerQueue` |
| Channel, Poller, EpollPoller | `Channel::Index`, epoll's interest list | EventLoop, all owners of descriptors | `Poller`; dispatch of one event in `TcpConnection` |
| Buffer | a vector with two indexes | TcpConnection | `Buffer`, `ByteQueue` |
| TcpConnection | `state_`, output buffer, three timers | its loop, user threads | `TcpConnection`, `ConnectionTimers` |
| TcpServer, Acceptor | the map of connections | base loop, IO loops | `TcpServer` |
| AsyncLogging, FixedBuffer, AsyncLoggingInit | log buffers, logging thread, the global logger | every thread that logs | `AsyncLogging` |
| LogFile, FileUtil | the log file and its rolling | logging thread | `LogFile` |
| Logger | level, output function | every thread | its output function, in `AsyncLogging` |
| Thread, Mutex, Condition, CurrentThread | wrappers | all | as steps of their users |
| LogStream, Socket, InetAddress, Timestamp, ProcessInfo | values and system calls | all | no |

Threads meet in four places: the functor queue (mutex and eventfd), plain members of
a connection (`state_`, the timeouts and timer ids, read and written without a lock),
the hand-shakes of thread start and stop (mutex and condition variable), and the
logger's buffers. Inside one loop everything else is sequential, but handlers,
functors and timer callbacks come in any order and call back into the library; that
is where `TimerQueue`, `Poller` and `ConnectionTimers` look.

## Modules

One action is one step another thread can observe: a critical section, an access to
an atomic or to an unprotected member, a system call. User callbacks are control
points at which the model may call the public interface. Names are the source's;
`Mut...` operators are plausible bugs used only to show that the properties can fail.

* **EventLoop** — the loop thread's control is `pc` (outside, started, check, poll,
  dispatch, handling, swap, run, functor); other threads push or store `quit_` in one
  step and write the eventfd in the next. Histories: `submitted`, `executed`,
  `inlined`, and `silent`, the functors the loop's own thread queued outside the
  `while` of `loop()`. **TaskQueue** is its abstract specification.
* **EventLoopThreadPool** — the owner's `start()`, `startLoop()` wait, `getNextLoop()`
  and destructor against the workers' `threadFunc()`. That a loop leaves `loop()`
  once `quit_` is set is taken from `EventLoop` (`QuitHonoured`).
* **TimerQueue** — timers live at heap addresses that are reused; a TimerId is an
  address and a sequence number. The timerfd runs on a monotonic clock, expirations
  on a wall clock that may be stepped. The destructor may come whenever the loop is
  not in a handler, with timers waiting and requests queued.
* **Poller** — `Channel::Index` and `channels_` against the kernel's interest list,
  with channels that share a descriptor one after the other. epoll reports ready
  channels in any order, hence `activeChannels_` is a set.
* **Buffer** — the operations as functions of a record; **ByteQueue** is the abstract
  specification, related by the readable bytes.
* **TcpConnection** — sending, closing and the dispatch of events. `Poll` delivers a
  set of events that fits the socket; `Dispatch` walks `handleEventWithGuard()` in its
  order, one handler after the other. `write()` may take all, part or nothing, or
  fail; other threads' calls are split into test, set and queue. **SendThenShutdown**
  adds the history its violation run needs: what a thread sent before it shut down.
* **ConnectionTimers** — the three timers of a connection. `idleTimeout_`,
  `keepAliveEnabled_`, `idleTimerId_` and `keepAliveTimerId_` are shared by the loop and
  a user thread without a lock, so no step of either makes more than one access to
  them. The user thread goes through a setter by store, post or store, test, cancel,
  clear. The loop's place in one is `loop`: `resetIdleTimer()` and
  `resetIdleTimerInLoop()` are test, cancel, start (`runAfter()` with the timeout it
  reads) and assign; turning a timer off is drop and clear; `handleClose()` cancels the
  two shared ids in two steps; `more` says that `handleRead()` has its own test still to
  do. Timers and `connectionTimeoutTimerId_` belong to the loop alone, and what it does
  with them rides on the same step. An id read or written by both threads at once may
  be `Torn`.
* **TcpServer** — connections from `newConnection()` to destruction over several
  loops, with the references that keep them alive: the server's map, user threads,
  queued functors; `start()` and `listen()` before, `~TcpServer()` with the pool
  quitting its loops after. Functors with a plain `this` keep nothing alive. If one
  runs on a destroyed object the behaviour is undefined; the model records it
  (`stray`) and stops. A failed `assert(n == 1)` ends the process (`missed`).
* **AsyncLogging** — `append()`, `start()`, `stop()`, `threadFunc()` and the life of
  the global logger, composed with **LogFile**, whose functions map a file to the set
  of files it may become. A buffer is the sequence of its lines. `pc = "aborted"` is
  the end of the process by a failed assert or a null `g_asyncLog`.
* **MCPoller**, **MCBuffer** give the function- and sequence-valued constants.
* **EventLoopProofs**, **PollerAndPoolProofs** (Poller and EventLoopThreadPool),
  **TimerQueueProofs**, **BufferProofs**, **TcpConnectionProofs**,
  **ConnectionTimersProofs**, **TcpServerProofs**, **AsyncLoggingProofs** hold the
  theorems.

## What is checked

Nine runs pass. Each checks all properties of its module together.

| Run | Bounds | Shows |
|---|---|---|
| event_loop | 2 threads, 3 functors, 1 channel, eventfd limit 2 | no wakeup for a functor (`NoLostWakeup`) or for a `quit()` (`QuitOwed`) is lost; refinement of `TaskQueue`; queued functors run without the poll timeout, the silent ones with it; `quit()` is honoured from anywhere |
| thread_pool | 3 workers, at most 5 deals of each loop | `quit()` only hits live loops, even dealing over several rounds, `start()` and the destructor return |
| timer_queue | 1 other thread, 2 addresses, 3 timers, 3 ticks, a wall clock that steps between 2 offsets | sets agree, one owner per timer until the destructor, the cancelled stay dead, ids are not confused on reuse, timerfd armed early enough |
| poller | 4 channels on 2 descriptors, 2 events per poll | index agrees with epoll, no freed channel reachable |
| buffer | vector of 2 + 2 bytes, at most 3 readable before an addition | indexes in range, room to prepend, queue of bytes |
| connection | 2 threads, 2 messages of 2 bytes, high-water mark 3, one functor queued per thread | bytes in order; output watched; one close whatever the mix of events; shutdown after the drain and always completed; a peer that leaves leads to a close |
| connection_timers | connection timeout and idle timeout configured, keep-alive switched on by calls, every user call, 5 timers created, one call by the user's thread | timeouts cancellable, idle timer armed while wanted and not otherwise, all timers end, timeout closes |
| server | 1 connection, base loop and 1 IO loop, 2 threads | erased once unless revived, watched channels alive, up then down, closed ones released, destructor returns |
| async_logging | 2 lines of length 1 or 3, buffers of 3, two lives of the logger, 4 clock steps (2 to a second), period of 2 s, roll size 1, check every 2 writes | spares suffice, order and completeness of the log over rolled files, flush between batches, rolling in time, no sleep on a backlog, `stop()` returns, lines reach the file |

Why these bounds are enough to be interesting: with two addresses and three timers
an address is reused while an old id is around; two channels per descriptor give
reuse; three functors give a batch, a functor queued by a functor and one by a
thread; an eventfd limit of 2 makes the counter saturate; a message of two bytes can
be taken in part; a connection handled by the base loop itself and one handled by
another loop take different paths through `runInLoop()`; lines of length 3 never fit
a buffer of 3, so they fill both spares and force a third buffer, while two lines of
length 1 exceed the roll size; four half seconds hold a flush by interval, a roll by
period and a second that ends inside `getLogFileName()`. Five timers leave room for
the two configured ones, a reset by data and one by a user's call in the loop, and one
started for the call of the other thread, so a setter meets every step of a reset.

Larger instances that take longer than a run should were checked once, with the same
result: the connection's timers with all three configured and 6 timers created (all
properties, 1.08 million states) and with two calls of the user's thread (the
inductive invariant, 15 million states); the server with two connections (invariants, 9.3 million states) and with
longer queues (all properties, 789,375 states); the logger with three lines, two
lives and roll size 2 (all properties, 706,162 states).

Three runs end in a violation, each of a statement the repository makes:

* **timer_add_returns** — `addTimer()` from another thread reads
  `timer->sequence()` (`TimerQueue.cpp:110`) after the loop may have deleted the timer.
* **connection_shutdown** — a thread that sends and then shuts down may see the write
  side shut down before its message is written, because `shutdown()` sets `state_` in
  the caller's thread (`TcpConnection.cpp:281`) and `handleWrite()` looks at it.
* **server_erase** — `forceClose()` in another thread may set `state_` after the loop
  has closed the connection (`TcpConnection.cpp:299`); the second close fails
  `assert(n == 1)` in `TcpServer.cpp:117`. `ErasedOnce` in the run `server` shows that
  this overwriting is the only way to get there.

Deadlock is checked for EventLoop, TimerQueue, Poller and Buffer, which never stop
(for TimerQueue it says little: the wall clock can always be stepped). The others end:
the pool or the server is gone, the connection is closed, the logger is stopped.

### Fairness

* EventLoop: the loop thread is scheduled and a thread finishes the call it has begun.
  User callbacks return. The poll timeout is assumed only for the functors nobody
  wrote a wakeup for (the second half of `QueuedFunctorRuns`).
* EventLoopThreadPool: owner and workers are scheduled. No spurious wakeup is assumed.
* TcpConnection: the loop polls, dispatches what it got and runs queued functors, and
  begun calls end. A peer that has not reset the connection reads, so the socket is
  writable again and again and `write()` then takes bytes; functors of other threads
  may come in between, hence strong fairness there.
* ConnectionTimers: functors and callbacks run, setters begun in the loop or in the
  user's thread end, and a pending timer expires. Expiry is disabled while a batch runs, hence strong
  fairness, which `Punctual` in TimerQueue supports: the timerfd is armed for the
  earliest timer.
* TcpServer: every loop that runs takes its steps, and the destructor goes on once
  begun. No event or call has to happen.
* AsyncLogging: the logging thread runs, its wait ends after the flush interval, and
  `stop()` gets to its join.

## What is proved

TLAPS checks the following for every value of the constants, from the assumption
named in the module that declares them (`LoopAssumption`, `PoolAssumption`,
`TimerAssumption`, `PollerAssumption`, `BufferAssumption`, `ConnectionAssumption`,
`TimersAssumption`, `ServerAssumption`, `LoggingAssumption`, `LogFileAssumption`; they
only give types and exclude zero where the code does). Each argument is an inductive invariant, which TLC
also found to hold on the run's instance: `Init` implies it, every action keeps it, and
it implies the property. The first one of a module is `IInv` (`PoolInv` for the pool,
whose specification is `PoolSpec`); a second one, which may use the first, has the name
the table gives.

| Module | Theorems | What the inductive invariant adds, and why |
|---|---|---|
| EventLoopProofs | `NoWakeupLost`, `BatchesComplete`, `QuitIsHeard`, `Refinement` (of `TaskQueue`) | `NoLostWakeup` speaks of `epoll_wait` only. `WakeupOwed` says the same for every control point except between the return of `epoll_wait` and the next swap; the flag `callingPendingFunctors_` holds exactly from before the swap to the end of the batch, which is what makes a functor queued by a functor wake the loop; `Conservation` (submitted = executed, rest of the batch, queue) maps `RunFunctor` to `Execute`. `QuitOwed` is inductive with the types: `quit()` stores `quit_` before it writes the eventfd, and `epoll_wait` is entered only after `quit_` was tested. |
| PollerAndPoolProofs (pool) | `QuitIsSafe`, `DealsEvenly`, `StartIsHeard` | At each point of `threadFunc()` whether the loop exists and whether `loop_` is published; the destructor between `quit()`'s store and its wakeup holds the worker's mutex and has seen `loop_` set, so the worker cannot unpublish it; `loops_` holds each started loop once, in order. `StartOwed` needs nothing more: `startLoop()` tests `loop_` under the mutex the worker sets it under. |
| TimerQueueProofs | `TheSetsAgree`, `TimersHaveOneOwner`, `TheDeadStayDead`, `IdsAreNotConfused`, `TimersArePunctual` | Every live Timer is in exactly one place: on its way in the queue, in both sets, or in the batch being run. Sequence numbers are unique, so an id whose address was reused matches nothing; timers cancelled during a batch are in it and in no set. `ArmedInv` adds that an armed timerfd fires later than now, and that its deadline suits every entry of `timers_` and not only the one it was set for: `insert()` arms it again only for a new earliest timer, `reset()` for the least of those left (`LeastNat`: there is one), and a cancelled earliest timer leaves it early. |
| PollerAndPoolProofs (poller) | `IndexIsRight`, `NoneDangles` | A channel with index kAdded or kDeleted is alive and owns its entry in `channels_`; an entry of the kernel belongs to a channel with kAdded and has its events; no two live channels share a descriptor; what is active or about to be freed is still alive; and no `epoll_ctl()` has failed. |
| BufferProofs | `IndexesStayInRange`, `Refinement` (of `ByteQueue`) | The vector never gets shorter than `kCheapPrepend`, which `makeSpace()` needs when it moves bytes to the front. |
| TcpConnectionProofs | `ClosedOnce`, `OutputNotCutOff`, `BytesKeepOrder`, `ShutdownNotForgotten` | Which events are left when a handler runs (the message callback only when HUP, ERR and IN are done, and no IN after a close); a connection closed and not revived is kDisconnected, does not write and gets no HUP; while open, the write event is on exactly when output is left, and then the write side is not shut. `BytesInv` is `BytesInOrder` with the types of its sequences: a direct `write()` finds the buffer empty because the write event is off, so what it leaves goes to the end; `handleWrite()` moves a prefix of the buffer to the end of what the kernel has. `OwedInv` follows a shutdown from the thread that sets `state_` to the functor it queues, and from there to `handleWrite()` if output is left. |
| ConnectionTimersProofs | `TimeoutsStayCancellable`, `IdleStaysArmed`, `IdleOffStaysOff` | Stated of the connection, the loop's step, the queue and the user's thread, with one lemma per step of either thread. Ids: an id that is kept, about to be assigned, queued for cancellation or read by the user's thread is of a timer already created, and a kept one of a timer of its own kind, so no cancellation hits a timer of another kind or one made later (`IdsInv`, `OldIds`). `BusyInv`: before the loop overwrites an id it has cancelled the timer that had it, and it does so outside of a batch, where a cancelled timer is gone. `CancelInv`: a thread about to forget the id it read has queued its cancellation, or no timer with that id waits. `OffInv`: with the timeout off, each idle timer is about to be cancelled or assigned, or is left by one of the three races. `OnInv`: with the timeout on, a queued cancellation of a waiting idle timer has a start queued behind it; the order matters, a start in front of it would be undone. `ArmedInv` says what `IdleArmed` says from construction on, and `SetupInv` why it may: `connectEstablished()` is the last functor that `newConnection()` queues, and none of those before it cancels. |
| TcpServerProofs | `AssertionHolds`, `WatchedConnectionsLive`, `CallbacksInOrder`, `ClosedNotForgotten` | Until the server is destroyed or a `state_` is revived: each queued functor finds its connection in the state it was queued for, a connection has at most one functor that establishes it and one that removes it, its channel is in epoll exactly while it is open, and it is in `connections_` until it is closed. So a close finds an open connection and nothing about to remove it. While the destructor runs the base loop runs no functor, and only the base loop is given removals. The other two theorems hold during and after destruction as well, for every connection whose `state_` no thread overwrote, and rest on `TrackInv`: the state, the index and the two callback counts of a connection fit together; its functors are in its own loop (a removal in the base loop) and find it in a state they were queued for, `connectEstablished()` before any other; and as long as its loop runs, a connection that is in epoll or about to be is in `connections_` or has its `connectDestroyed()` queued, and either keeps it alive. `ReleaseInv`: a connection about to be destroyed has left the map, and the map and the functors know only connections that were made; the base loop, which alone removes, is never told to quit. |
| AsyncLoggingProofs | `SparesSuffice`, `BacklogWakes`, `BatchesAreFlushed`, `FileIsRolled`, `LogKeepsOrder` | Which spares the thread holds at each point of `threadFunc()`: while it writes, it has at least one buffer to keep, and two if the second spare was handed to `append()`; a `nextBuffer_` that is taken means a full buffer is queued. `FileInv` says of the file, after every `append()` to it, that no more than `rollSize_` bytes were written since it was opened, and that the writes since its period ended are among those `count_` has counted. `StageInv` says for every line that fits where it is: file, batch, full buffers and current buffer hold the lines with increasing numbers and between them all that were not dropped or lost, every spare is empty when it comes into use, and a logger that was stopped leaves nothing to the next. |

Only model-checked: the liveness properties (the prover does not handle fairness and
ENABLED). Every invariant and every refinement a passing run checks is a theorem.

Four theorems state what a liveness property rests on: whatever it promises is done, or
something that does it is on its way. They are `QuitIsHeard` for `QuitHonoured` (its `QuitOwed` is checked by a run too),
`StartIsHeard` for `StartReturns`, `ShutdownNotForgotten` for `ShutdownCompletes` and
`ClosedNotForgotten` for `ClosedIsReleased`. They hold for any number of threads, loops
and connections and need no fairness; that what is on its way arrives is left to TLC.

In the longest proof modules `USE Zenon` makes Zenon the prover of a leaf that names
none; leaves with arithmetic or sequences cite `SMT`.

## Read with care

* An `assert` is live: the build sets no `NDEBUG`.
* `state_`, `idleTimeout_` and the timer ids are not atomic, so their accesses race.
  The build does not optimise (`-g` only): each access to an aligned word is one load
  or store, and the outcomes of the race are the interleavings of these accesses. A
  TimerId is two words; a torn one (`Torn` in ConnectionTimers) matches no timer, as a
  stale one does.
* `cancelInLoop()` erases an entry of `activeTimers_` and then deletes through the erased
  iterator (`TimerQueue.cpp:158-159`): `it->first` is read from a freed node. TimerQueue
  takes the read to give the pointer the node had: nothing is allocated in between, and
  glibc's `free()` writes to the first words of the node, which hold the links of the
  tree. With an allocator that clears freed memory its properties say nothing.
* A line is logged in one step: the read of `g_asyncLog` and the `append()` through
  it. A `resetAsyncLogging()` that destroys the logger between the two, in
  another thread, is not modelled; the line would go to a logger that is gone.
* `RolledInTime` counts the bytes since a file was opened (`writtenBytes_`), as the code
  does. A file whose name repeats is opened again with what it has and may get longer.
* `Punctual` compares the timerfd with the slowest setting of the wall clock. A clock
  stepped forward after the timerfd was armed makes a timer late by the step; nothing
  in the code sets the timerfd anew then.
* A write to a connection the peer has reset is assumed to return `EPIPE`; the library
  does not ignore `SIGPIPE` itself.
* `std::copy` on overlapping bytes of a Buffer is taken to behave as `memmove`, as it
  does for `char` in libstdc++.
* Channels are only updated in their loop's thread; nothing in the code enforces it.
* `connectionCallback_` inside `handleClose()` is assumed to make no further calls on
  a connection that was revived by a racing `forceClose()`.
* `handleError()` only logs. The close comes with a later `read()` or `write()`, which
  `PeerLeavesCloses` shows to happen.

Some properties name exceptions. Each is a behaviour of the code, not of the model:

* `connectDestroyed()` leaves a connection in `kDisconnecting` as it is: there is no
  down callback, and a send or force-close still queued registers its channel anew,
  which then stays in epoll when the connection is freed. A connection revived by
  `forceClose()` has the same fate. (`undone` in `WatchedIsAlive` and `UpThenDown`.)
* A connection that closes while `~TcpServer()` runs leaves a functor in the base loop
  that is bound to the dead server (`stray`). A loop past its last swap drops the
  `connectDestroyed()` queued for it.
* Three races of a `setIdleTimeout(0)` in another thread with a
  `resetIdleTimerInLoop()` leave an idle timer that closes the connection though the
  timeout is off. The reset finds the timeout off and starts a timer with delay 0
  (`TcpConnection.cpp:380-382`; `zero` in `IdleOffIsOff`). The call clears an id that the
  loop has assigned since the call read the old one, so nobody can cancel the new timer
  (line 354; `orphans`, also in `TimeoutsCancellable`). Or the loop has evaluated
  `runAfter()` with the old timeout, the whole call runs and cancels what
  `idleTimerId_` held, and then the loop assigns the new id (line 380; `late`).
* Where the loop and another thread set the idle timeout at once the last functor may
  be a cancellation, and the connection stays without a timer (`mixed` in `IdleArmed`).
* After an `fopen()` that failed in `rollFile()` lines are lost until the period is
  over and up to `checkEveryN_` more writes came (`lost` in `LogInOrder`). Lines
  appended after the last take before `stop()` are lost too (`dropped`).
* File names can repeat. Files are opened for appending, so no line is lost by it.
* After `resetAsyncLogging()` the output function stays installed and the next line
  goes through a null `g_asyncLog`; `stop()` right after `start()` may fail
  `assert(running_ == true)` (`AsyncLogging.cpp:41`). Both end the process.

Where code and documents differ without a run of their own:

* `md/代码细节/二/1.md:174` says a functor submitted by the loop's own thread outside
  `loop()` wakes it; `queueInLoop()` (`Eventloop.cpp:138`) does not.
* `reset()` logs "failed to reinsert" when `insert()` returns false
  (`TimerQueue.cpp:259`), which only means that the timer is not the earliest.
* `handleClose()` says it cancels all timers (`TcpConnection.cpp:141`); `handleRead()`
  (lines 76-79) starts the idle timer again after a callback that closed, and a second
  `enableKeepAlive()` (line 415) forgets the first timer, which then keeps the
  connection. `TimersEnd` excepts the latter.
* `startLoop()` may return before the worker is in `loop()`, and need not return if the
  worker's loop was quit already; the comment at `EventLoopThread.cpp:78` expects the
  notification to mean that the loop runs.
* `hasErrorLog()` looks for lines that begin with `E`, but lines begin with `[`.

## Not modelled

* The level of Logger and the text of a line, with the truncation of a line longer
  than its buffer. Two threads that log at once may print each other's level, because
  the macros set it and call `log()` in two unlocked steps; this shows without a model.
* LogStream, Socket, InetAddress, Timestamp and ProcessInfo have no state worth a
  model. The thread wrappers appear as steps of their users.
* `fwrite()` that is short and reports an error; the bytes then vanish with a message.
* Channel updates from threads other than the loop's, which the library does not make.
* The contents of received messages; Buffer covers how they are stored.
* `hasErrorLog()` and `cleanupLogFiles()`, which serve the tests, and
  `printConnectionsStat()`, which is declared and not defined.

## Plan

State an abstract timer service that TimerQueue implements and ConnectionTimers uses, so
that the two need not model expiry and cancellation each for itself.
