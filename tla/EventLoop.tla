------------------------------ MODULE EventLoop ------------------------------
(***************************************************************************)
(* EventLoop (include/Eventloop.h, src/base/Eventloop.cpp): the reactor of *)
(* one thread.  The loop thread alternates between epoll_wait, the         *)
(* handlers of the active channels and the callbacks that were queued;     *)
(* any other thread hands callbacks over with queueInLoop()/runInLoop()    *)
(* and stops the loop with quit(), waking it through an eventfd.           *)
(*                                                                         *)
(* One action is one step that another thread can observe: a critical      *)
(* section of mutex_, an access to an atomic, a system call on the         *)
(* eventfd.  The body of a user callback (loopStartedCallback_, the        *)
(* handler of an I/O channel, a queued functor) is a control point at      *)
(* which the loop thread may call the public interface any number of       *)
(* times before the callback returns.                                      *)
(***************************************************************************)
EXTENDS Naturals, Sequences, FiniteSets

CONSTANTS
  Threads,      \* the threads other than the one that owns the loop
  Functors,     \* the callbacks; each is submitted at most once
  Channels,     \* the I/O channels registered besides wakeupChannel_
  WakeupChannel,
  EventfdMax    \* largest value of the eventfd counter (2^64 - 2 in Linux)

ASSUME LoopAssumption ==
  /\ WakeupChannel \notin Channels
  /\ EventfdMax \in Nat \ {0}

VARIABLES
  pc,                       \* where the loop thread is
  looping_,
  quit_,
  callingPendingFunctors_,
  pendingFunctors_,
  functors,                 \* doPendingFunctors()'s local vector, what is left
  activeChannels_,          \* what is left to dispatch in this iteration
  counter,                  \* value of the eventfd behind wakeupFd_
  ready,                    \* I/O channels with a pending event in the kernel
  tpc,                      \* where each other thread is
  submitted,                \* history: functors queued, in order
  executed,                 \* history: queued functors begun, in order
  inlined,                  \* history: functors run directly by runInLoop()
  silent                    \* history: functors the loop thread queued before
                            \* entering the while of loop()

loopVars == <<pc, looping_, callingPendingFunctors_, functors, activeChannels_, executed>>
vars == <<pc, looping_, quit_, callingPendingFunctors_, pendingFunctors_, functors,
          activeChannels_, counter, ready, tpc, submitted, executed, inlined, silent>>

PCs == {"outside", "started", "check", "poll", "dispatch", "handling",
        "swap", "run", "functor"}

\* Control points of the loop thread at which user code runs.
UserCode == {"outside", "started", "handling", "functor"}

Elements(s) == {s[i] : i \in 1 .. Len(s)}

Fresh(f) == f \notin Elements(submitted) \cup inlined

Init ==
  /\ pc = "outside"
  /\ looping_ = FALSE
  /\ quit_ = FALSE
  /\ callingPendingFunctors_ = FALSE
  /\ pendingFunctors_ = <<>>
  /\ functors = <<>>
  /\ activeChannels_ = {}
  /\ counter = 0
  /\ ready = {}
  /\ tpc = [t \in Threads |-> "idle"]
  /\ submitted = <<>>
  /\ executed = <<>>
  /\ inlined = {}
  /\ silent = {}

-----------------------------------------------------------------------------
(* wakeup(): a write of 1 to the eventfd; at the limit it fails with EAGAIN. *)

CounterAfterWakeup == IF counter < EventfdMax THEN counter + 1 ELSE counter

(* queueInLoop(): the critical section.                                     *)
Push(f) ==
  /\ Fresh(f)
  /\ pendingFunctors_' = Append(pendingFunctors_, f)
  /\ submitted' = Append(submitted, f)

-----------------------------------------------------------------------------
(* Calls of the public interface by the loop thread, from user code.        *)

\* queueInLoop() in the loop thread: it wakes itself only while the functors
\* of a batch are running.
LoopQueueInLoop(f) ==
  /\ pc \in UserCode
  /\ Push(f)
  /\ counter' = IF callingPendingFunctors_ THEN CounterAfterWakeup ELSE counter
  /\ silent' = IF pc \in {"outside", "started"} THEN silent \cup {f} ELSE silent
  /\ UNCHANGED <<loopVars, quit_, ready, tpc, inlined>>

\* runInLoop() in the loop thread calls the functor on the spot.
LoopRunInLoop(f) ==
  /\ pc \in UserCode
  /\ Fresh(f)
  /\ inlined' = inlined \cup {f}
  /\ UNCHANGED <<loopVars, quit_, pendingFunctors_, counter, ready, tpc, submitted, silent>>

\* quit() in the loop thread: no wakeup, the flag is read before the next poll.
LoopQuit ==
  /\ pc \in UserCode
  /\ ~quit_
  /\ quit_' = TRUE
  /\ UNCHANGED <<loopVars, pendingFunctors_, counter, ready, tpc, submitted, inlined, silent>>

-----------------------------------------------------------------------------
(* Calls by other threads: first the shared state, then the wakeup.         *)

MutPushNoWakeup(t, f) ==
  /\ tpc[t] = "idle"
  /\ Push(f)
  /\ UNCHANGED <<loopVars, quit_, counter, ready, tpc, inlined, silent>>

\* queueInLoop(), and runInLoop(), from another thread, up to the unlock.
QueueInLoop(t, f) ==
  /\ tpc[t] = "idle"
  /\ Push(f)
  /\ tpc' = [tpc EXCEPT ![t] = "wakeup"]
  /\ UNCHANGED <<loopVars, quit_, counter, ready, inlined, silent>>

MutQuitNoWakeup(t) ==
  /\ tpc[t] = "idle"
  /\ quit_' = TRUE
  /\ UNCHANGED <<loopVars, pendingFunctors_, counter, ready, tpc, submitted, inlined, silent>>

\* quit() from another thread, up to the store to quit_.
Quit(t) ==
  /\ tpc[t] = "idle"
  /\ quit_' = TRUE
  /\ tpc' = [tpc EXCEPT ![t] = "wakeup"]
  /\ UNCHANGED <<loopVars, pendingFunctors_, counter, ready, submitted, inlined, silent>>

\* wakeup() called by itself: all it does is the write below.
CallWakeup(t) ==
  /\ tpc[t] = "idle"
  /\ tpc' = [tpc EXCEPT ![t] = "wakeup"]
  /\ UNCHANGED <<loopVars, quit_, pendingFunctors_, counter, ready, submitted, inlined, silent>>

\* The write to the eventfd that ends the three calls.
Wakeup(t) ==
  /\ tpc[t] = "wakeup"
  /\ counter' = CounterAfterWakeup
  /\ tpc' = [tpc EXCEPT ![t] = "idle"]
  /\ UNCHANGED <<loopVars, quit_, pendingFunctors_, ready, submitted, inlined, silent>>

-----------------------------------------------------------------------------
(* The loop thread inside loop().                                           *)

otherVars == <<quit_, pendingFunctors_, counter, ready, tpc, submitted, inlined, silent>>

MutResetQuit ==
  /\ pc = "outside"
  /\ ~looping_
  /\ pc' = "started"
  /\ looping_' = TRUE
  /\ quit_' = FALSE
  /\ UNCHANGED <<callingPendingFunctors_, pendingFunctors_, functors, activeChannels_, counter,
                 ready, tpc, submitted, executed, inlined, silent>>

\* Entry of loop(), up to the call of loopStartedCallback_.  quit_ is not reset.
Loop ==
  /\ pc = "outside"
  /\ ~looping_
  /\ pc' = "started"
  /\ looping_' = TRUE
  /\ UNCHANGED <<callingPendingFunctors_, functors, activeChannels_, executed, otherVars>>

\* loopStartedCallback_ returns (or there is none).
StartedReturn ==
  /\ pc = "started"
  /\ pc' = "check"
  /\ UNCHANGED <<looping_, callingPendingFunctors_, functors, activeChannels_, executed, otherVars>>

\* while (!quit_): leave loop(), or call poll() (nothing is left to dispatch,
\* so the clear() of activeChannels_ changes nothing here).
LoopCheck ==
  /\ pc = "check"
  /\ pc' = IF quit_ THEN "outside" ELSE "poll"
  /\ looping_' = ~quit_
  /\ UNCHANGED <<callingPendingFunctors_, functors, activeChannels_, executed, otherVars>>

\* The channels epoll_wait can report; the eventfd is readable when not zero.
Pollable == ready \cup (IF counter > 0 THEN {WakeupChannel} ELSE {})

\* epoll_wait returns some of the ready channels.
PollEvents ==
  /\ pc = "poll"
  /\ pc' = "dispatch"
  /\ activeChannels_' \in SUBSET Pollable \ {{}}
  /\ UNCHANGED <<looping_, callingPendingFunctors_, functors, executed, otherVars>>

\* epoll_wait returns nothing: kPollTimeMs elapsed, or a signal (EINTR).
PollTimeout ==
  /\ pc = "poll"
  /\ pc' = "dispatch"
  /\ UNCHANGED <<looping_, callingPendingFunctors_, functors, activeChannels_, executed, otherVars>>

\* handleEvent() of wakeupChannel_: handleRead() reads the counter to zero.
HandleWakeup ==
  /\ pc = "dispatch"
  /\ WakeupChannel \in activeChannels_
  /\ activeChannels_' = activeChannels_ \ {WakeupChannel}
  /\ counter' = 0
  /\ UNCHANGED <<pc, looping_, callingPendingFunctors_, functors, executed, quit_,
                 pendingFunctors_, ready, tpc, submitted, inlined, silent>>

\* handleEvent() of an I/O channel calls the user's handler, which consumes
\* the event ...
HandleChannel(c) ==
  /\ pc = "dispatch"
  /\ c \in activeChannels_
  /\ pc' = "handling"
  /\ activeChannels_' = activeChannels_ \ {c}
  /\ ready' = ready \ {c}
  /\ UNCHANGED <<looping_, callingPendingFunctors_, functors, executed, quit_,
                 pendingFunctors_, counter, tpc, submitted, inlined, silent>>

\* ... and returns.
HandlerReturn ==
  /\ pc = "handling"
  /\ pc' = "dispatch"
  /\ UNCHANGED <<looping_, callingPendingFunctors_, functors, activeChannels_, executed, otherVars>>

MutFlagAfterSwap ==
  /\ pc = "dispatch"
  /\ activeChannels_ = {}
  /\ pc' = "swap"
  /\ UNCHANGED <<looping_, callingPendingFunctors_, functors, activeChannels_, executed, otherVars>>

\* All active channels are handled: doPendingFunctors() raises its flag ...
BeginPending ==
  /\ pc = "dispatch"
  /\ activeChannels_ = {}
  /\ pc' = "swap"
  /\ callingPendingFunctors_' = TRUE
  /\ UNCHANGED <<looping_, functors, activeChannels_, executed, otherVars>>

MutSwapCopies ==
  /\ pc = "swap"
  /\ pc' = "run"
  /\ functors' = pendingFunctors_
  /\ UNCHANGED <<looping_, callingPendingFunctors_, activeChannels_, executed, otherVars>>

\* ... takes the queue over under mutex_ ...
Swap ==
  /\ pc = "swap"
  /\ pc' = "run"
  /\ functors' = pendingFunctors_
  /\ pendingFunctors_' = <<>>
  /\ UNCHANGED <<looping_, callingPendingFunctors_, activeChannels_, executed, quit_,
                 counter, ready, tpc, submitted, inlined, silent>>

\* ... calls the functors one after the other ...
RunFunctor ==
  /\ pc = "run"
  /\ functors # <<>>
  /\ pc' = "functor"
  /\ functors' = Tail(functors)
  /\ executed' = Append(executed, Head(functors))
  /\ UNCHANGED <<looping_, callingPendingFunctors_, activeChannels_, otherVars>>

\* ... each of which returns, or throws and is caught ...
FunctorReturn ==
  /\ pc = "functor"
  /\ pc' = "run"
  /\ UNCHANGED <<looping_, callingPendingFunctors_, functors, activeChannels_, executed, otherVars>>

\* ... and lowers the flag.
EndPending ==
  /\ pc = "run"
  /\ functors = <<>>
  /\ pc' = "check"
  /\ callingPendingFunctors_' = FALSE
  /\ UNCHANGED <<looping_, functors, activeChannels_, executed, otherVars>>

-----------------------------------------------------------------------------
(* The kernel reports an event on an I/O channel.                           *)
IoEvent(c) ==
  /\ c \notin ready
  /\ ready' = ready \cup {c}
  /\ UNCHANGED <<loopVars, quit_, pendingFunctors_, counter, tpc, submitted, inlined, silent>>

-----------------------------------------------------------------------------
\* Steps of the loop thread that need nothing but the CPU: everything inside
\* loop() except a poll timeout, user callbacks returning included.
LoopStep ==
  \/ StartedReturn
  \/ LoopCheck
  \/ PollEvents
  \/ HandleWakeup
  \/ \E c \in Channels : HandleChannel(c)
  \/ HandlerReturn
  \/ BeginPending
  \/ Swap
  \/ RunFunctor
  \/ FunctorReturn
  \/ EndPending

LoopCall ==
  \/ \E f \in Functors : LoopQueueInLoop(f) \/ LoopRunInLoop(f)
  \/ LoopQuit

ThreadStep(t) ==
  \/ \E f \in Functors : QueueInLoop(t, f)
  \/ Quit(t)
  \/ CallWakeup(t)
  \/ Wakeup(t)

Next ==
  \/ Loop
  \/ LoopStep
  \/ PollTimeout
  \/ LoopCall
  \/ \E t \in Threads : ThreadStep(t)
  \/ \E c \in Channels : IoEvent(c)

Spec == Init /\ [][Next]_vars

(* The scheduler runs the loop thread and lets a thread finish a call it has *)
(* begun; user callbacks return (the loop documents that they must not       *)
(* block).  No thread has to begin a call, no I/O has to happen, and the     *)
(* poll timeout is NOT used: what is shown to happen, happens promptly.      *)
Fairness == WF_vars(LoopStep) /\ \A t \in Threads : WF_vars(Wakeup(t))

FairSpec == Spec /\ Fairness

-----------------------------------------------------------------------------
\* The types, part of the inductive invariant of EventLoopProofs.
TypeOK ==
  /\ pc \in PCs
  /\ looping_ \in BOOLEAN
  /\ quit_ \in BOOLEAN
  /\ callingPendingFunctors_ \in BOOLEAN
  /\ pendingFunctors_ \in Seq(Functors)
  /\ functors \in Seq(Functors)
  /\ activeChannels_ \subseteq Channels \cup {WakeupChannel}
  /\ counter \in 0 .. EventfdMax
  /\ ready \subseteq Channels
  /\ tpc \in [Threads -> {"idle", "wakeup"}]
  /\ submitted \in Seq(Functors)
  /\ executed \in Seq(Functors)
  /\ inlined \subseteq Functors
  /\ silent \subseteq Functors

WakeInFlight == counter > 0 \/ \E t \in Threads : tpc[t] = "wakeup"

\* The loop thread never waits in epoll_wait over a queued functor without a
\* wakeup that is written or about to be written, for every functor queued by
\* another thread or from inside the loop (Eventloop.cpp:138 and the order of
\* the flag and the swap in doPendingFunctors()).  It does not extend to the
\* functors in silent, which the loop's own thread queued outside the while of
\* loop(): nothing wakes the loop for them, though the table in
\* md/代码细节/二/1.md:174 says that it is woken.
NoLostWakeup ==
  pc = "poll" /\ Elements(pendingFunctors_) \ silent # {} => WakeInFlight

\* Nor does it wait there through a quit(): quit_ is tested before each
\* epoll_wait, so a quit_ it has not seen was set by another thread, whose
\* wakeup is still to be written or has been written and not been read since,
\* also when other wakeups have filled or emptied the eventfd meanwhile
\* (Eventloop.cpp:106-114, 144-156).
QuitOwed == pc = "poll" /\ quit_ => WakeInFlight

\* A batch that doPendingFunctors() took over is run to its end before the
\* loop polls again or returns, whatever quit() is called meanwhile.
BatchRunToEnd == pc \in {"outside", "check", "poll"} => functors = <<>>

\* EventLoop implements the first-in first-out executor: nothing queued is
\* lost, repeated or overtaken on its way through the swap.
Abstract == INSTANCE TaskQueue

TaskQueueSpec == Abstract!Spec

\* A functor queued by another thread, or from inside the loop, while loop()
\* runs is executed without waiting for the poll timeout, unless quit() is
\* called.  The silent ones are executed too if epoll_wait() times out.
QueuedFunctorRuns ==
  /\ \A f \in Functors :
       (looping_ /\ f \in Elements(pendingFunctors_) \ silent)
         ~> (f \in Elements(executed) \/ quit_)
  /\ WF_vars(PollTimeout) =>
       ((looping_ /\ silent # {}) ~> (silent \subseteq Elements(executed) \/ quit_))

\* quit() takes effect from any thread, before or during loop(): from then on
\* the loop thread is always back outside loop() again.
QuitHonoured == quit_ ~> []<>(pc = "outside")
=============================================================================
