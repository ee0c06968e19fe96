-------------------------- MODULE ConnectionTimers --------------------------
(***************************************************************************)
(* The connection timeout, idle timeout and keep-alive timers of a         *)
(* TcpConnection (src/base/TcpConnection.cpp:313-451) and the places that  *)
(* set and cancel them: TcpServer::newConnection() in the base loop's      *)
(* thread, handleRead() and handleClose() in the connection's loop, and a  *)
(* thread of the user that calls the setters.                              *)
(*                                                                         *)
(* idleTimeout_, keepAliveEnabled_, idleTimerId_ and keepAliveTimerId_ are *)
(* read and written by two threads without a lock.  A step of a thread     *)
(* makes one access to them, and what a handler has still to do is in      *)
(* loop.  The timers themselves belong to the connection's loop; of        *)
(* TimerQueue there is what the connection sees: the timers pending, the   *)
(* batch being run and the timers cancelled in it.                         *)
(***************************************************************************)
EXTENDS Integers, Sequences, FiniteSets

CONSTANTS
  Config,      \* timers the server is configured with
  UserCalls,   \* what messageCallback_ may call
  MaxTimers,   \* bound: timers created
  MaxCalls     \* bound: setters called by the user's thread

Kinds == {"connection", "idle", "keepAlive"}

ASSUME TimersAssumption ==
  /\ Config \subseteq Kinds
  /\ UserCalls \subseteq {"shutdown", "forceClose", "connectionOn", "connectionOff",
                          "idleOn", "idleOff", "keepAliveOn", "keepAliveOff"}
  /\ MaxTimers \in Nat /\ MaxCalls \in Nat

VARIABLES
  conn,    \* the connection and its timers
  loop,    \* its loop: the next step of a setter or of handleClose(), of which timer,
           \* and whether handleRead() goes on after it
  queue,   \* functors queued in its loop
  setup,   \* what newConnection() has still to queue
  user     \* the user's thread: its step in a setter, of which timer, the id it has read

vars == <<conn, loop, queue, setup, user>>

NoId == 0    \* a TimerId that is not valid
Torn == -1   \* a valid one with a word of two TimerIds, which matches no timer

\* newConnection() sets idleTimeout_ and keepAliveEnabled_ in its own thread
\* and leaves the rest to functors, queued in this order.  A functor is a name
\* and an argument.
IfSet(f) == IF f[1] \in Config THEN <<f>> ELSE <<>>
Setup ==
  IfSet(<<"connection", TRUE>>) \o IfSet(<<"idle">>) \o IfSet(<<"keepAlive">>)
    \o <<<<"connectEstablished">>>>

\* The loop is about to take a step; or no handler is left to finish.  After a call of
\* messageCallback_ handleRead() tests idleTimeout_.
At(step, k, more) == [step |-> step, kind |-> k, more |-> more]
Free == At("free", "idle", FALSE)
After(more) == IF more THEN At("test", "idle", FALSE) ELSE Free

Init ==
  /\ conn = [state |-> "kConnecting",
             idle |-> "idle" \in Config, keepAlive |-> "keepAlive" \in Config,
             ids |-> [k \in Kinds |-> NoId],
             created |-> 0,                     \* timers created so far
             timers |-> {},                     \* pending timers
             batch |-> {}, todo |-> {},         \* expired timers; not run yet
             canceling |-> {},                  \* cancelled while in the batch
             early |-> FALSE,                   \* history: expired in kConnecting
             orphans |-> {},                    \* history: ids overwritten by user
             late |-> {},                       \* history: ids assigned after the timeout was off
             mixed |-> FALSE]                   \* history: idle timeout set by two threads at once
  /\ loop = Free
  /\ queue = <<>>
  /\ setup = Setup
  /\ user = [step |-> "free", kind |-> "idle", id |-> NoId, calls |-> 0]

-----------------------------------------------------------------------------
\* loop_->cancel() in the loop: a timer that already ran is not found.
Cancel(c, id) ==
  [c EXCEPT !.timers = {t \in @ : t.id # id},
            !.canceling = @ \cup {t.id : t \in {b \in c.batch : b.id = id}}]

\* loop_->runAfter() or runEvery() in the loop.  An idle timer started with the
\* timeout off has the delay 0.
Start(c, k) ==
  [c EXCEPT !.created = @ + 1,
            !.timers = @ \cup {[id |-> c.created + 1, kind |-> k, zero |-> k = "idle" /\ ~c.idle]}]

\* connectionTimeoutTimerId_ is used by the loop only.
SetConnectionTimeoutInLoop(c, on) ==
  LET d == Cancel(c, c.ids["connection"])
  IN  IF on THEN [Start(d, "connection") EXCEPT !.ids["connection"] = c.created + 1] ELSE d

Shutdown(c) == IF c.state = "kConnected" THEN [c EXCEPT !.state = "kDisconnecting"] ELSE c

\* The ids stay valid.  The other two timers are cancelled in the next steps.
HandleClose(c, more) ==
  /\ conn' = Cancel([c EXCEPT !.state = "kDisconnected"], c.ids["connection"])
  /\ loop' = At("close", "idle", more)

MutForceClose(c, more) ==
  IF c.state = "kConnected" THEN HandleClose(c, more) ELSE conn' = c /\ loop' = After(more)

ForceClose(c, more) ==
  IF c.state \in {"kConnected", "kDisconnecting"}
  THEN HandleClose(c, more) ELSE conn' = c /\ loop' = After(more)

OnKeepAliveTimeout(c) ==
  conn' = c /\ loop' = IF c.state = "kConnected" THEN Free ELSE At("close", "keepAlive", FALSE)

-----------------------------------------------------------------------------
(* The base loop's thread, in newConnection().                               *)
QueueSetup ==
  /\ setup # <<>>
  /\ queue' = Append(queue, Head(setup))
  /\ setup' = Tail(setup)
  /\ UNCHANGED <<conn, loop, user>>

(* The user's thread, which has the connection from connectionCallback_.     *)
Callable == user.step = "free" /\ user.calls < MaxCalls /\ conn.state # "kConnecting"

\* The loop is about to assign a TimerId, or has assigned one word of it.
Assigning(k) == loop.step = "assign" /\ loop.kind = k

\* The user's thread turns the idle timeout off, or on.
TurningOff == user.kind = "idle" /\ user.step \in {"test", "cancel", "clear"}
TurningOn == user.kind = "idle" /\ user.step = "post"

Returned == [user EXCEPT !.step = "free", !.kind = "idle", !.id = NoId]

\* Queued by setConnectionTimeout() itself, without touching the connection.
UserSetConnectionTimeout(on) ==
  /\ Callable
  /\ queue' = Append(queue, <<"connection", on>>)
  /\ user' = [user EXCEPT !.calls = @ + 1]
  /\ UNCHANGED <<conn, loop, setup>>

\* setIdleTimeout() and enableKeepAlive() store the setting,
UserStore(k, on) ==
  /\ Callable
  /\ conn' = IF k = "idle" THEN [conn EXCEPT !.idle = on] ELSE [conn EXCEPT !.keepAlive = on]
  /\ user' = [step |-> IF on THEN "post" ELSE "test", kind |-> k, id |-> NoId,
              calls |-> user.calls + 1]
  /\ UNCHANGED <<loop, queue, setup>>

\* then queue the functor that starts the timer (resetIdleTimer() looks again),
UserPost ==
  /\ user.step = "post"
  /\ queue' = IF user.kind = "idle" /\ ~conn.idle THEN queue ELSE Append(queue, <<user.kind>>)
  /\ user' = Returned
  /\ UNCHANGED <<conn, loop, setup>>

\* or test whether the id is valid,
UserTest ==
  /\ user.step = "test"
  /\ \/ /\ conn.ids[user.kind] # NoId \/ Assigning(user.kind)
        /\ user' = [user EXCEPT !.step = "cancel"]
     \/ /\ conn.ids[user.kind] = NoId
        /\ user' = Returned
  /\ UNCHANGED <<conn, loop, queue, setup>>

\* read it, one word after the other, and queue the cancellation,
UserCancel ==
  /\ user.step = "cancel"
  /\ \E id \in {conn.ids[user.kind]} \cup {i \in {Torn} : Assigning(user.kind)} :
       /\ user' = [user EXCEPT !.step = "clear", !.id = id]
       /\ queue' = Append(queue, <<"cancel", id>>)
  /\ UNCHANGED <<conn, loop, setup>>

\* and forget the id, which may by now be another one.
UserClear ==
  /\ user.step = "clear"
  /\ conn' = [conn EXCEPT !.ids[user.kind] = NoId,
                          !.orphans = @ \cup ({conn.ids[user.kind]} \ {user.id, NoId, Torn})]
  /\ user' = Returned
  /\ UNCHANGED <<loop, queue, setup>>

\* While the loop assigns it, a word of each may be left.
UserClearTorn ==
  /\ user.step = "clear" /\ Assigning(user.kind)
  /\ conn' = [conn EXCEPT !.ids[user.kind] = Torn, !.orphans = @ \cup {conn.created}]
  /\ user' = Returned
  /\ loop' = After(loop.more)
  /\ UNCHANGED <<queue, setup>>

UserGoesOn == UserPost \/ UserTest \/ UserCancel \/ UserClear \/ UserClearTorn

UserStep ==
  \/ \E on \in BOOLEAN : UserSetConnectionTimeout(on) \/ UserStore("idle", on)
                          \/ UserStore("keepAlive", on)
  \/ UserGoesOn

-----------------------------------------------------------------------------
(* The connection's loop, in a setter: resetIdleTimer(), setupKeepAliveTimer(), *)
(* the other branches of setIdleTimeout() and enableKeepAlive(), and the end *)
(* of handleClose().                                                         *)
\* idleTimeout_ is tested by handleRead() and again by resetIdleTimer(),
LoopTest ==
  /\ loop.step = "test"
  /\ loop' = IF conn.idle THEN At("cancel", "idle", loop.more) ELSE After(loop.more)
  /\ UNCHANGED conn

MutLoopCancel ==
  /\ loop.step = "cancel"
  /\ loop' = At("start", "idle", loop.more)
  /\ UNCHANGED conn

\* idleTimerId_ is read and its timer cancelled by resetIdleTimerInLoop(),
LoopCancel ==
  /\ loop.step = "cancel"
  /\ conn' = Cancel(conn, conn.ids["idle"])
  /\ loop' = At("start", "idle", loop.more)

MutLoopStart ==
  /\ loop.step = "start"
  /\ loop' = After(loop.more)
  /\ UNCHANGED conn

\* which reads idleTimeout_ and starts a timer, as setupKeepAliveTimer() does after
\* a test of keepAliveEnabled_.  It does not cancel the timer of an earlier call.
LoopStart ==
  /\ loop.step = "start"
  /\ \/ /\ loop.kind = "idle" \/ conn.keepAlive
        /\ conn' = Start(conn, loop.kind)
        /\ loop' = At("assign", loop.kind, loop.more)
     \/ /\ loop.kind = "keepAlive" /\ ~conn.keepAlive
        /\ loop' = After(loop.more)
        /\ UNCHANGED conn

\* The id is assigned, maybe after a setIdleTimeout(0) that has found the old one.
LoopAssign ==
  /\ loop.step = "assign"
  /\ conn' = [conn EXCEPT !.ids[loop.kind] = conn.created,
                          !.late = @ \cup {i \in {conn.created} :
                                       loop.kind = "idle" /\ ~conn.idle /\ ~TurningOff}]
  /\ loop' = After(loop.more)

MutLoopDrop ==
  /\ loop.step = "drop"
  /\ loop' = After(loop.more)
  /\ UNCHANGED conn

\* Turning a timer off: the id is read and its timer cancelled,
LoopDrop ==
  /\ loop.step = "drop"
  /\ \/ /\ conn.ids[loop.kind] # NoId
        /\ conn' = Cancel(conn, conn.ids[loop.kind])
        /\ loop' = At("clear", loop.kind, loop.more)
     \/ /\ conn.ids[loop.kind] = NoId
        /\ loop' = After(loop.more)
        /\ UNCHANGED conn

\* then forgotten.
LoopClear ==
  /\ loop.step = "clear"
  /\ conn' = [conn EXCEPT !.ids[loop.kind] = NoId]
  /\ loop' = After(loop.more)

\* handleClose() cancels the idle and the keep-alive timer, onKeepAliveTimeout() the second.
LoopClose ==
  /\ loop.step = "close"
  /\ conn' = Cancel(conn, conn.ids[loop.kind])
  /\ loop' = IF loop.kind = "idle" THEN At("close", "keepAlive", loop.more) ELSE After(loop.more)

LoopGoesOn ==
  /\ LoopTest \/ LoopCancel \/ LoopStart \/ LoopAssign \/ LoopDrop \/ LoopClear \/ LoopClose
  /\ UNCHANGED <<queue, setup, user>>

(* The loop between handlers.                                                *)
Ready == loop = Free /\ conn.batch = {}

RunFunctor ==
  /\ Ready /\ queue # <<>>
  /\ LET f == Head(queue)
     IN  \/ /\ f[1] \in {"idle", "keepAlive"}
            /\ loop' = At(IF f[1] = "idle" THEN "cancel" ELSE "start", f[1], FALSE)
            /\ UNCHANGED conn
         \/ /\ f[1] = "connection"
            /\ conn' = SetConnectionTimeoutInLoop(conn, f[2])
            /\ UNCHANGED loop
         \/ /\ f[1] = "cancel"
            /\ conn' = Cancel(conn, f[2])
            /\ UNCHANGED loop
         \/ /\ f[1] = "connectEstablished"
            /\ conn' = [conn EXCEPT !.state = "kConnected"]
            /\ UNCHANGED loop
  /\ queue' = Tail(queue)
  /\ UNCHANGED <<setup, user>>

\* The channel reads from connectEstablished() to handleClose().
Reading == conn.state \in {"kConnected", "kDisconnecting"}

\* A thread is in setIdleTimeout(), or its functors have not run.
IdleCallOpen ==
  \/ TurningOff \/ TurningOn \/ loop.step # "free"
  \/ \E i \in DOMAIN queue : queue[i][1] \in {"idle", "cancel"}

\* What messageCallback_ calls, up to the first access that another thread may disturb.
Message(call) ==
  \/ call = "none" /\ UNCHANGED conn /\ loop' = After(TRUE)
  \/ call = "shutdown" /\ conn' = Shutdown(conn) /\ loop' = After(TRUE)
  \/ call = "forceClose" /\ HandleClose(conn, TRUE)   \* the channel reads: ForceClose() closes
  \/ /\ call \in {"connectionOn", "connectionOff"}
     /\ conn' = SetConnectionTimeoutInLoop(conn, call = "connectionOn") /\ loop' = After(TRUE)
  \/ /\ call \in {"idleOn", "idleOff"}
     /\ conn' = [conn EXCEPT !.idle = call = "idleOn", !.mixed = @ \/ IdleCallOpen]
     /\ loop' = At(IF call = "idleOn" THEN "test" ELSE "drop", "idle", TRUE)
  \/ /\ call \in {"keepAliveOn", "keepAliveOff"}
     /\ conn' = [conn EXCEPT !.keepAlive = call = "keepAliveOn"]
     /\ loop' = At(IF call = "keepAliveOn" THEN "start" ELSE "drop", "keepAlive", TRUE)

\* handleRead() with data: messageCallback_, then the idle timer is set anew.
HandleRead ==
  /\ Ready /\ Reading /\ conn.created + 2 + MaxCalls - user.calls <= MaxTimers
  /\ \E call \in UserCalls \cup {"none"} : Message(call)
  /\ UNCHANGED <<queue, setup, user>>

HandleReadEof ==
  /\ Ready /\ Reading
  /\ HandleClose(conn, FALSE)
  /\ UNCHANGED <<queue, setup, user>>

\* TimerQueue::handleRead() takes the timers that expired, e.
Expire(e) ==
  /\ Ready /\ e # {} /\ e \subseteq conn.timers
  /\ conn' = [conn EXCEPT !.timers = @ \ e, !.batch = e, !.todo = e, !.canceling = {}]
  /\ UNCHANGED <<loop, queue, setup, user>>

\* A timer of the batch runs even if an earlier one cancelled it.
RunTimer ==
  /\ loop = Free
  /\ \E t \in conn.todo :
       LET c == [conn EXCEPT !.todo = @ \ {t},
                             !.early = @ \/ (t.kind # "keepAlive" /\ conn.state = "kConnecting")]
       IN  IF t.kind = "keepAlive" THEN OnKeepAliveTimeout(c) ELSE ForceClose(c, FALSE)
  /\ UNCHANGED <<queue, setup, user>>

MutEndBatchForgetsCancel ==
  /\ loop = Free /\ conn.batch # {} /\ conn.todo = {}
  /\ conn' = [conn EXCEPT !.batch = {},
                          !.timers = @ \cup {t \in conn.batch : t.kind = "keepAlive"}]
  /\ UNCHANGED <<loop, queue, setup, user>>

\* TimerQueue::reset(): the keep-alive timer repeats unless cancelled.
EndBatch ==
  /\ loop = Free /\ conn.batch # {} /\ conn.todo = {}
  /\ conn' = [conn EXCEPT !.batch = {},
                          !.timers = @ \cup {t \in conn.batch :
                                       t.kind = "keepAlive" /\ t.id \notin conn.canceling}]
  /\ UNCHANGED <<loop, queue, setup, user>>

Next ==
  \/ QueueSetup \/ UserStep \/ LoopGoesOn \/ RunFunctor \/ HandleRead \/ HandleReadEof
  \/ \E e \in SUBSET conn.timers : Expire(e)
  \/ RunTimer \/ EndBatch

Spec == Init /\ [][Next]_vars

\* Some timer of the kind k expires.
ExpireKind(k) == \E e \in SUBSET conn.timers : Expire(e) /\ \E t \in e : t.kind = k

(* The threads run.  Time goes on and timerfd is armed (TimerQueue.tla), so  *)
(* pending timers expire; that is disabled while a batch runs, hence SF.     *)
FairSpec ==
  /\ Spec /\ WF_vars(QueueSetup) /\ WF_vars(UserGoesOn)
  /\ WF_vars(LoopGoesOn) /\ WF_vars(RunFunctor) /\ WF_vars(RunTimer \/ EndBatch)
  /\ \A k \in Kinds : SF_vars(ExpireKind(k))

-----------------------------------------------------------------------------
QueueHas(f) == \E i \in DOMAIN queue : queue[i] = f
Pending == conn.timers \cup conn.todo

\* Every pending one-shot timer is the one whose id the connection keeps: there
\* is never a second idle or connection timeout running that nobody can cancel.
\* The exception is a setIdleTimeout(0) in another thread: its last assignment
\* may forget a timer that the loop has started meanwhile.
TimeoutsCancellable ==
  \A t \in Pending :
    t.kind # "keepAlive" =>
      \/ t.id = conn.ids[t.kind] \/ (Assigning(t.kind) /\ t.id = conn.created)
      \/ QueueHas(<<"cancel", t.id>>) \/ t.id \in conn.orphans

\* An established connection with an idle timeout has an idle timer pending or
\* on its way, however often data, user calls and expiries have reset it, unless
\* two threads set the timeout at once.
IdleArmed ==
  Reading /\ conn.idle /\ ~conn.early /\ ~conn.mixed
    => (\E t \in Pending : t.kind = "idle") \/ IdleCallOpen

\* Once setIdleTimeout(0) has returned and its cancellation has run no idle timer
\* is left to close the connection, but for three races of a call in another thread
\* with a resetIdleTimerInLoop(): one that finds the timeout off and starts a timer
\* with the delay 0 (TcpConnection.cpp:380), one whose new id the call forgets
\* without having cancelled it, and one that has started its timer before the call
\* and assigns the id after it.
IdleOffIsOff ==
  Reading /\ ~conn.idle /\ ~IdleCallOpen
    => \A t \in Pending : t.kind = "idle" => t.zero \/ t.id \in conn.orphans \cup conn.late

\* Timers hold a TcpConnectionPtr: they all end once the connection is closed,
\* or it would never be destroyed.  That takes more than the "cancel all timers"
\* of handleClose() (TcpConnection.cpp:141): handleRead() starts the idle timer
\* again after a messageCallback_ that closed the connection.  Excepted are the
\* keep-alive timers whose id a second enableKeepAlive(), or one in another
\* thread, overwrote.
Forgotten == {t \in conn.timers \cup conn.batch :
                t.kind = "keepAlive" /\ t.id # conn.ids["keepAlive"]}
TimersEnd ==
  conn.state = "kDisconnected" ~> conn.timers \cup conn.batch \subseteq Forgotten

\* When the connection timeout expires the connection gets closed, by the timer
\* or before it, unless it expired before connectEstablished(): forceClose()
\* does nothing then and the timeout is lost.
TimeoutCloses ==
  (\E t \in conn.todo : t.kind = "connection") ~> (conn.state = "kDisconnected" \/ conn.early)
=============================================================================
