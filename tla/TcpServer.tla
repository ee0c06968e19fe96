------------------------------ MODULE TcpServer ------------------------------
(***************************************************************************)
(* TcpServer (src/base/TcpServer.cpp) with the life cycle of its           *)
(* TcpConnections: a connection is made in the base loop, lives in an IO   *)
(* loop, is removed from connections_ in the base loop and destroyed when  *)
(* the last TcpConnectionPtr to it goes; the server is started and, in the *)
(* base loop's thread, destroyed while its IO loops run.                   *)
(*                                                                         *)
(* A functor queued in a loop either holds a TcpConnectionPtr or only the  *)
(* plain pointer `this' (raw).  Channel::index() is kept, with the calls   *)
(* of EpollPoller::updateChannel() and removeChannel() that change it.     *)
(***************************************************************************)
EXTENDS Integers, Sequences

CONSTANTS
  Conns,        \* connections that may be accepted
  IoLoops,      \* the loops connections are dealt to; may contain base
  base,         \* the server's own loop
  Threads,      \* threads that are not loops' threads
  Calls,        \* what those threads call: "send", "shutdown", "forceClose"
  MaxQueue      \* bound: a thread makes a call while every queue is shorter

ASSUME ServerAssumption ==
  /\ Calls \subseteq {"send", "shutdown", "forceClose"}
  /\ MaxQueue \in Nat

Loops == IoLoops \cup {base}

VARIABLES
  connections_,   \* connections in the server's map
  ioLoop,         \* the loop of each connection, base until it is made
  state_,         \* TcpConnection::state_, "none" until it is made
  index,          \* Channel::index()
  reading,        \* the channel's read event is enabled
  queue,          \* functors queued in each loop
  refs,           \* connections each thread holds a TcpConnectionPtr to
  tpc,            \* the call each thread is in
  server,         \* "made", "listening", "destroying" (in ~TcpServer()) or "gone"
  phase, batch,   \* of each loop: "poll", "run" or "done"; functors swapped out and not run
  quit_,          \* IO loops told to quit
  ups, downs,     \* history: calls of connectionCallback_
  missed,         \* history: removeConnectionInLoop() erased nothing
  stray,          \* history: a functor ran on a destroyed connection
  revived,        \* history: connections whose state_ left kDisconnected again
  undone          \* history: connections destroyed in kDisconnecting, which they stay in

connVars == <<state_, index, reading, ups, downs, undone>>
serverVars == <<connections_, missed>>
threadVars == <<refs, tpc, revived>>
loopVars == <<server, phase, batch, quit_>>
vars == <<serverVars, ioLoop, connVars, queue, threadVars, stray, loopVars>>

Idle == [call |-> "none", conn |-> base, at |-> "idle"]

Init ==
  /\ connections_ = {} /\ missed = FALSE /\ stray = FALSE /\ revived = {} /\ undone = {}
  /\ server = "made" /\ quit_ = {}
  /\ phase = [l \in Loops |-> "poll"] /\ batch = [l \in Loops |-> 0]
  /\ ioLoop = [c \in Conns |-> base]
  /\ state_ = [c \in Conns |-> "none"]
  /\ index = [c \in Conns |-> "kNew"]
  /\ reading = [c \in Conns |-> FALSE]
  /\ ups = [c \in Conns |-> 0] /\ downs = [c \in Conns |-> 0]
  /\ queue = [l \in Loops |-> <<>>]
  /\ refs = [t \in Threads |-> {}]
  /\ tpc = [t \in Threads |-> Idle]

-----------------------------------------------------------------------------
Functor(fn, c, raw) == [fn |-> fn, conn |-> c, raw |-> raw]
Push(q, l, f) == [q EXCEPT ![l] = Append(@, f)]
Pop(l) == [queue EXCEPT ![l] = Tail(@)]

\* A TcpConnection exists as long as a TcpConnectionPtr to it does.
Alive(c) ==
  \/ c \in connections_
  \/ \E t \in Threads : c \in refs[t]
  \/ \E l \in Loops : \E i \in DOMAIN queue[l] : queue[l][i].conn = c /\ ~queue[l][i].raw

\* EpollPoller::updateChannel() with no events enabled: an added channel is
\* deleted from epoll, any other is added with an empty event set.
IndexWhenDisabled(c) == IF index[c] = "kAdded" THEN "kDeleted" ELSE "kAdded"

\* connectEstablished(); connectionCallback_ may hand the pointer to threads.
ConnectEstablished(c) ==
  /\ state_' = [state_ EXCEPT ![c] = "kConnected"]
  /\ index' = [index EXCEPT ![c] = "kAdded"]
  /\ reading' = [reading EXCEPT ![c] = TRUE]
  /\ ups' = [ups EXCEPT ![c] = @ + 1]
  /\ \E holders \in SUBSET Threads :
       refs' = [t \in Threads |-> IF t \in holders THEN refs[t] \cup {c} ELSE refs[t]]
  /\ UNCHANGED <<downs, undone>>

\* connectDestroyed(): ends with channel_->remove().
ConnectDestroyed(c) ==
  /\ IF state_[c] = "kConnected"
     THEN /\ state_' = [state_ EXCEPT ![c] = "kDisconnected"]
          /\ reading' = [reading EXCEPT ![c] = FALSE]
          /\ downs' = [downs EXCEPT ![c] = @ + 1]
     ELSE UNCHANGED <<state_, reading, downs>>
  /\ index' = [index EXCEPT ![c] = "kNew"]
  /\ undone' = undone \cup {d \in {c} : state_[d] = "kDisconnecting"}
  /\ UNCHANGED ups

MutRemoveConnectionInLoop(c, q) ==
  /\ connections_' = connections_ \ {c}
  /\ missed' = (missed \/ c \notin connections_)
  /\ queue' = q

\* removeConnectionInLoop(), in the base loop; q is the queue to add to.
RemoveConnectionInLoop(c, q) ==
  /\ connections_' = connections_ \ {c}
  /\ missed' = (missed \/ c \notin connections_)
  /\ queue' = Push(q, ioLoop[c], Functor("connectDestroyed", c, FALSE))

MutDisabled(c) == UNCHANGED <<index, reading>>

\* channel_->disableAll()
Disabled(c) ==
  /\ index' = [index EXCEPT ![c] = IndexWhenDisabled(c)]
  /\ reading' = [reading EXCEPT ![c] = FALSE]

\* handleClose() in the thread of the loop l, with closeCallback_ =
\* TcpServer::removeConnection(), which runs its functor at once in the base loop.
\* A server that is gone must not be called (stray).
HandleClose(c, q, l) ==
  /\ state_' = [state_ EXCEPT ![c] = "kDisconnected"]
  /\ Disabled(c)
  /\ downs' = [downs EXCEPT ![c] = @ + 1]
  /\ \/ /\ l = base /\ server # "gone"
        /\ RemoveConnectionInLoop(c, q) /\ UNCHANGED stray
     \/ /\ l = base /\ server = "gone"
        /\ queue' = q /\ stray' = TRUE /\ UNCHANGED serverVars
     \/ /\ l # base
        /\ queue' = Push(q, base, Functor("remove", c, FALSE)) /\ UNCHANGED <<serverVars, stray>>
  /\ UNCHANGED <<ups, undone>>

-----------------------------------------------------------------------------
(* newConnection(), in the base loop.  runInLoop() runs connectEstablished() *)
(* at once if the connection's loop is the base loop.                        *)
NewConnection(c, l) ==
  /\ state_[c] = "none" /\ server = "listening"
  /\ connections_' = connections_ \cup {c}
  /\ ioLoop' = [ioLoop EXCEPT ![c] = l]
  /\ IF l = base
     THEN ConnectEstablished(c) /\ UNCHANGED queue
     ELSE /\ state_' = [state_ EXCEPT ![c] = "kConnecting"]
          /\ queue' = Push(queue, l, Functor("connectEstablished", c, FALSE))
          /\ UNCHANGED <<index, reading, ups, downs, undone, refs>>
  /\ UNCHANGED <<missed, tpc, revived>>

\* Acceptor::handleRead(); an accept() that fails changes nothing.
Accept(c) == \E l \in IoLoops : NewConnection(c, l)

\* Events are reported for channels in the epoll set that read.
Handling(c) ==
  index[c] = "kAdded" /\ phase[ioLoop[c]] = "poll" /\ (ioLoop[c] = base => server # "destroying")
Readable(c) == Handling(c) /\ reading[c]

\* handleRead() finds the end of the stream.
HandleReadEof(c) ==
  /\ Readable(c)
  /\ HandleClose(c, queue, ioLoop[c])
  /\ UNCHANGED <<ioLoop, threadVars>>

\* A channel left in the epoll set with no events still reports EPOLLHUP,
\* and Channel::handleEventWithGuard() calls CloseCallback.
HandleHangup(c) ==
  /\ Handling(c) /\ ~reading[c] /\ Alive(c)
  /\ HandleClose(c, queue, ioLoop[c])
  /\ UNCHANGED <<ioLoop, threadVars>>

\* messageCallback_ calls shutdown() or forceClose(); connectionCallback_ may
\* too, which is this step right after ConnectEstablished.
MessageShutdown(c) ==
  /\ Readable(c) /\ state_[c] = "kConnected"
  /\ state_' = [state_ EXCEPT ![c] = "kDisconnecting"]
  /\ UNCHANGED <<serverVars, ioLoop, index, reading, ups, downs, undone, queue, threadVars>>

MessageForceClose(c) ==
  /\ Readable(c) /\ state_[c] \in {"kConnected", "kDisconnecting"}
  /\ HandleClose(c, queue, ioLoop[c])
  /\ UNCHANGED <<ioLoop, threadVars>>

-----------------------------------------------------------------------------
(* The loops: doPendingFunctors() takes the functors queued so far and runs  *)
(* them; then quit_ is tested.  A loop that ends drops its queue.  An        *)
(* iteration without functors matters only when the loop may be told to quit.*)
Turn(l) == l = base => server # "destroying"

Swap(l) ==
  /\ Turn(l) /\ phase[l] = "poll" /\ (queue[l] # <<>> \/ server = "destroying")
  /\ phase' = [phase EXCEPT ![l] = "run"]
  /\ batch' = [batch EXCEPT ![l] = Len(queue[l])]
  /\ UNCHANGED <<serverVars, ioLoop, connVars, queue, threadVars, stray, server, quit_>>

MutQuits(l) == l \in quit_ /\ queue[l] = <<>> /\ \A c \in Conns : ioLoop[c] = l => ~Alive(c)
Quits(l) == l \in quit_

EndBatch(l) ==
  /\ Turn(l) /\ phase[l] = "run" /\ batch[l] = 0
  /\ phase' = [phase EXCEPT ![l] = IF Quits(l) THEN "done" ELSE "poll"]
  /\ queue' = IF Quits(l) THEN [queue EXCEPT ![l] = <<>>] ELSE queue
  /\ UNCHANGED <<serverVars, ioLoop, connVars, threadVars, stray, server, batch, quit_>>

\* The functor at the head of the queue runs and is removed.
Runs(l) ==
  /\ Turn(l) /\ batch[l] > 0
  /\ batch' = [batch EXCEPT ![l] = @ - 1]
  /\ UNCHANGED <<server, phase, quit_>>

(* Functors.                                                                 *)
RunOwning(l) ==
  LET f == Head(queue[l])
      c == f.conn
  IN  /\ Runs(l) /\ ~f.raw
      /\ \/ /\ f.fn = "connectEstablished"
            /\ ConnectEstablished(c) /\ queue' = Pop(l)
            /\ UNCHANGED serverVars
         \/ /\ f.fn = "remove" /\ server # "gone"
            /\ RemoveConnectionInLoop(c, Pop(l))
            /\ UNCHANGED <<connVars, refs>>
         \/ /\ f.fn = "connectDestroyed"
            /\ ConnectDestroyed(c) /\ queue' = Pop(l)
            /\ UNCHANGED <<serverVars, refs>>
      /\ UNCHANGED <<ioLoop, tpc, revived, stray>>

\* Functors with a plain `this'.
RunRaw(l) ==
  LET f == Head(queue[l])
      c == f.conn
  IN  /\ Runs(l) /\ f.raw /\ Alive(c)
      /\ \/ /\ f.fn = "forceClose"
            /\ IF state_[c] \in {"kConnected", "kDisconnecting"}
               THEN HandleClose(c, Pop(l), l)
               ELSE queue' = Pop(l) /\ UNCHANGED <<connVars, serverVars, stray>>
         \/ /\ f.fn = "send"          \* sendInLoop() may enable writing
            /\ index' \in {index} \cup
                 (IF state_[c] # "kDisconnected" THEN {[index EXCEPT ![c] = "kAdded"]} ELSE {})
            /\ queue' = Pop(l)
            /\ UNCHANGED <<state_, reading, ups, downs, undone, serverVars, stray>>
         \/ /\ f.fn = "shutdown"
            /\ queue' = Pop(l)
            /\ UNCHANGED <<connVars, serverVars, stray>>
      /\ UNCHANGED <<ioLoop, threadVars>>

\* What such a functor does to a destroyed connection is undefined, down to
\* acting on another connection at the same address: nothing is said of the
\* process from then on.  The same goes for removeConnectionInLoop() of a
\* server that is gone.
RunStray(l) ==
  LET f == Head(queue[l])
  IN  /\ Runs(l)
      /\ (f.raw /\ ~Alive(f.conn)) \/ (f.fn = "remove" /\ server = "gone")
      /\ stray' = TRUE
      /\ queue' = Pop(l)
      /\ UNCHANGED <<serverVars, ioLoop, connVars, threadVars>>

-----------------------------------------------------------------------------
(* Other threads: test state_, set it, queue a functor with a plain `this'.  *)
Permitted(call, s) == s = "kConnected" \/ (call = "forceClose" /\ s = "kDisconnecting")

Test(t, c, call) ==
  /\ tpc[t] = Idle /\ c \in refs[t]
  /\ \A l \in Loops : Len(queue[l]) < MaxQueue
  /\ Permitted(call, state_[c])
  /\ tpc' = [tpc EXCEPT ![t] = [call |-> call, conn |-> c,
                                at |-> IF call = "send" THEN "queue" ELSE "set"]]
  /\ UNCHANGED <<serverVars, ioLoop, connVars, queue, refs, revived>>

SetDisconnecting(t) ==
  /\ tpc[t].at = "set"
  /\ state_' = [state_ EXCEPT ![tpc[t].conn] = "kDisconnecting"]
  /\ revived' = revived \cup {c \in {tpc[t].conn} : state_[c] = "kDisconnected"}
  /\ tpc' = [tpc EXCEPT ![t].at = "queue"]
  /\ UNCHANGED <<serverVars, ioLoop, index, reading, ups, downs, undone, queue, refs>>

QueueFunctor(t) ==
  /\ tpc[t].at = "queue"
  /\ queue' = Push(queue, ioLoop[tpc[t].conn], Functor(tpc[t].call, tpc[t].conn, TRUE))
  /\ stray' = (phase[ioLoop[tpc[t].conn]] = "done")   \* the loop was destroyed
  /\ tpc' = [tpc EXCEPT ![t] = Idle]
  /\ UNCHANGED <<serverVars, ioLoop, connVars, refs, revived>>

DropRef(t, c) ==
  /\ tpc[t] = Idle /\ c \in refs[t]
  /\ refs' = [refs EXCEPT ![t] = @ \ {c}]
  /\ UNCHANGED <<serverVars, ioLoop, connVars, queue, tpc, revived>>

-----------------------------------------------------------------------------
(* start(), with the pool's start(); a second call does nothing.             *)
listen == server' = "listening"

Start ==
  /\ server = "made"
  /\ listen
  /\ UNCHANGED <<serverVars, ioLoop, connVars, queue, threadVars, stray, phase, batch, quit_>>

\* ~TcpServer(), in the base loop's thread and outside the handlers of its connections.
Destroy ==
  /\ server = "listening"
  /\ server' = "destroying"
  /\ UNCHANGED <<serverVars, ioLoop, connVars, queue, threadVars, stray, phase, batch, quit_>>

MutDtorFunctor(c) == Functor("connectDestroyed", c, TRUE)

\* The functor keeps the connection once its entry in the map is reset.
DtorFunctor(c) == Functor("connectDestroyed", c, FALSE)

\* One round of its loop over connections_.
DtorConn(c) ==
  /\ server = "destroying" /\ c \in connections_
  /\ connections_' = connections_ \ {c}
  /\ IF ioLoop[c] = base
     THEN ConnectDestroyed(c) /\ UNCHANGED queue
     ELSE queue' = Push(queue, ioLoop[c], DtorFunctor(c)) /\ UNCHANGED connVars
  /\ UNCHANGED <<missed, ioLoop, threadVars, stray, loopVars>>

\* Then the pool's threads, each told to quit and joined before the next.
DtorQuit(l) ==
  /\ server = "destroying" /\ connections_ = {}
  /\ l \notin quit_ /\ \A k \in quit_ : phase[k] = "done"
  /\ quit_' = quit_ \cup {l}
  /\ UNCHANGED <<serverVars, ioLoop, connVars, queue, threadVars, stray, server, phase, batch>>

DtorEnd ==
  /\ server = "destroying" /\ connections_ = {}
  /\ \A l \in IoLoops \ {base} : phase[l] = "done"
  /\ server' = "gone"
  /\ UNCHANGED <<serverVars, ioLoop, connVars, queue, threadVars, stray, phase, batch, quit_>>

-----------------------------------------------------------------------------
\* A failed assertion (missed) ends the process.
Running == ~missed /\ ~stray

LoopStep(l) == Running /\ (Swap(l) \/ RunOwning(l) \/ RunRaw(l) \/ RunStray(l) \/ EndBatch(l))

DtorStep ==
  /\ Running
  /\ (\E c \in Conns : DtorConn(c)) \/ (\E l \in IoLoops \ {base} : DtorQuit(l)) \/ DtorEnd

Event(c) ==
  /\ Running /\ UNCHANGED loopVars
  /\ \/ HandleReadEof(c) \/ HandleHangup(c)
     \/ MessageForceClose(c)
     \/ (MessageShutdown(c) \/ Accept(c)) /\ UNCHANGED stray

ThreadStep(t) ==
  /\ Running /\ UNCHANGED loopVars
  /\ \/ /\ \E c \in Conns : DropRef(t, c) \/ \E call \in Calls : Test(t, c, call)
        /\ UNCHANGED stray
     \/ SetDisconnecting(t) /\ UNCHANGED stray
     \/ QueueFunctor(t)

Next ==
  \/ \E c \in Conns : Event(c)
  \/ \E l \in Loops : LoopStep(l)
  \/ \E t \in Threads : ThreadStep(t)
  \/ Running /\ (Start \/ Destroy)
  \/ DtorStep

Spec == Init /\ [][Next]_vars

(* Every loop's thread runs, also in the destructor.                         *)
FairSpec == Spec /\ WF_vars(DtorStep) /\ \A l \in Loops : WF_vars(LoopStep(l))

-----------------------------------------------------------------------------
\* TcpServer.cpp:117 asserts that removeConnectionInLoop() erases one entry.
\* shutdown() and forceClose() break it: they set state_ in the caller's thread.
ErasedOne == ~missed

\* The assertion fails in no other way than by a test of state_ that was stale
\* when the thread acted on it: whatever the order of events, functors and
\* calls, a connection that stays kDisconnected is closed and erased once.
ErasedOnce == missed => revived # {}

\* The loop of a connection has not ended.
LoopLives(c) == phase[ioLoop[c]] # "done"

\* A channel known to the poller belongs to a connection that exists: epoll
\* never reports a channel that was freed, also while ~TcpServer() gives up its
\* references.  Excepted are connections put back into kDisconnecting by another
\* thread after their end, and those destroyed with the server in that state: a
\* queued sendInLoop() or forceCloseInLoop() registers the channel anew.
Settled == Conns \ (revived \cup undone)
WatchedIsAlive == \A c \in Settled : index[c] # "kNew" /\ LoopLives(c) => Alive(c)

\* The user sees each connection come up once and go down once, down not before
\* up, and down before the connection is destroyed if its loop still runs.  Not
\* so the connections that shut down when their server is destroyed.
UpThenDown ==
  \A c \in Settled :
    /\ downs[c] <= ups[c] /\ ups[c] <= 1
    /\ state_[c] # "none" /\ ~Alive(c) /\ LoopLives(c) => downs[c] = 1

\* A closed connection leaves the server's map and the poller, unless the
\* process ends or a functor runs on a destroyed object first.
ClosedIsReleased ==
  \A c \in Conns :
    state_[c] = "kDisconnected"
      ~> (c \notin connections_ /\ index[c] = "kNew") \/ ~Running \/ ~LoopLives(c)

\* ~TcpServer() returns: each IO loop ends whatever it is doing and whatever
\* connections, queued functors and calls of other threads it still has.
DestructorReturns == server = "destroying" ~> server = "gone" \/ ~Running
=============================================================================
