---------------------------- MODULE TcpConnection ----------------------------
(***************************************************************************)
(* TcpConnection (include/TcpConnection.h, src/base/TcpConnection.cpp):    *)
(* an established connection, its state_ and its sending half, with the    *)
(* dispatch of one epoll event by Channel::handleEventWithGuard().  The    *)
(* loop thread runs the handlers and the queued functors; other threads    *)
(* call send(), shutdown() and forceClose(), which look at state_, may set *)
(* it, and queue a functor, without a lock, also in the middle of a        *)
(* dispatch.                                                               *)
(*                                                                         *)
(* A message is a few bytes, <<m, 1>>, <<m, 2>>..., so that the kernel can *)
(* take part of one.  Functors run in the order they are queued (TaskQueue *)
(* is what EventLoop implements).  What is received is in Buffer.          *)
(***************************************************************************)
EXTENDS Integers, Sequences

CONSTANTS
  Threads,          \* threads other than the loop's
  Calls,            \* what the other threads call: "send", "shutdown", "forceClose"
  MaxMessages,      \* bound: messages passed to send(), numbered as they are
  Size,             \* bytes in a message
  highWaterMark_,
  MaxQueue          \* bound: forceClose() is called while fewer functors are queued

ASSUME ConnectionAssumption ==
  /\ Calls \subseteq {"send", "shutdown", "forceClose"}
  /\ Size \in Nat \ {0} /\ highWaterMark_ \in Nat
  /\ MaxMessages \in Nat /\ MaxQueue \in Nat

VARIABLES
  state_,
  writing,          \* channel_->isWriting(); it is reading until handleClose()
  outputBuffer_,
  revents,          \* callbacks handleEventWithGuard() has still to consider
  queue,            \* functors queued in the loop for this connection
  tpc,              \* the call each thread is in and how far it got
  peer,             \* "up", "fin" (its stream has ended), "error" (it has reset the
                    \* connection and SO_ERROR is set) or "reset" (SO_ERROR was read)
  wire,             \* bytes the kernel has taken, in order
  shut,             \* shutdownWrite() was called
  closes,           \* history: how often handleClose() has run, up to 2
  revived,          \* history: a thread set state_ after it was kDisconnected
  used,             \* number of messages passed to send()
  accepted          \* history: messages sendInLoop() took, in order

sendVars == <<outputBuffer_, wire, accepted>>
closeVars == <<state_, writing, closes>>
vars == <<closeVars, sendVars, revents, queue, tpc, peer, shut, revived, used>>

Idle == [call |-> "none", at |-> "idle", msg |-> 0]
Bytes(m) == [i \in 1 .. Size |-> <<m, i>>]
closed == closes > 0

Init ==
  /\ state_ = "kConnected" /\ writing = FALSE /\ outputBuffer_ = <<>>
  /\ revents = {} /\ queue = <<>>
  /\ tpc = [t \in Threads |-> Idle]
  /\ peer = "up" /\ wire = <<>> /\ shut = FALSE
  /\ closes = 0 /\ revived = FALSE
  /\ used = 0 /\ accepted = <<>>

-----------------------------------------------------------------------------
(* The kernel (external).  write() takes some of the bytes, has no room,     *)
(* fails for want of memory, or finds the connection unusable; this and      *)
(* read() and getsockopt() fetch the error of a reset.                       *)
WriteResults(n) ==
  IF shut \/ peer \in {"error", "reset"} THEN {[n |-> 0, errno |-> "EPIPE"]}
  ELSE {[n |-> k, errno |-> "none"] : k \in 1 .. n}
         \cup {[n |-> 0, errno |-> e] : e \in {"EWOULDBLOCK", "ENOBUFS"}}

FetchError == peer' = IF peer = "error" THEN "reset" ELSE peer

(* What epoll must report for the channel, and what it may: data from a peer *)
(* that is up and room to write come at any time.                            *)
MustReport ==
  (IF ~closed /\ peer # "up" THEN {"IN"} ELSE {})
    \cup (IF writing /\ (shut \/ peer \in {"error", "reset"}) THEN {"OUT"} ELSE {})
    \cup (IF peer \in {"error", "reset"} \/ (peer = "fin" /\ shut) THEN {"HUP"} ELSE {})
    \cup (IF peer = "error" THEN {"ERR"} ELSE {})

MayReport ==
  MustReport \cup (IF ~closed THEN {"IN"} ELSE {}) \cup (IF writing THEN {"OUT"} ELSE {})

Take(bytes, n) == SubSeq(bytes, 1, n)
Drop(bytes, n) == SubSeq(bytes, n + 1, Len(bytes))

\* queueInLoop() of the callbacks is modelled: they run later, in order.
WriteComplete == <<[fn |-> "writeComplete", msg |-> 0]>>
HighWater == <<[fn |-> "highWaterMark", msg |-> 0]>>

-----------------------------------------------------------------------------
MutWriteFirst == TRUE

\* The condition of the direct write() in sendInLoop(): nothing is waiting.
WriteFirst == ~writing /\ outputBuffer_ = <<>>

\* sendInLoop(): write at once if nothing is waiting, buffer what is left.
\* q is the functor queue without the functor that runs this.
SendInLoop(m, q) ==
  \/ /\ state_ = "kDisconnected"
     /\ queue' = q
     /\ UNCHANGED <<writing, sendVars, peer>>
  \/ /\ state_ # "kDisconnected"
     /\ IF WriteFirst THEN FetchError ELSE UNCHANGED peer
     /\ \E r \in IF WriteFirst THEN WriteResults(Size) ELSE {[n |-> 0, errno |-> "none"]} :
          IF r.errno = "EPIPE"                             \* faultError
          THEN queue' = q /\ UNCHANGED <<writing, sendVars>>
          ELSE LET oldLen == Len(outputBuffer_)
                   remaining == Size - r.n
               IN  /\ accepted' = Append(accepted, m)
                   /\ wire' = wire \o Take(Bytes(m), r.n)
                   /\ outputBuffer_' = outputBuffer_ \o Drop(Bytes(m), r.n)
                   /\ writing' = (writing \/ remaining > 0)
                   /\ queue' = q \o (IF remaining = 0 THEN WriteComplete ELSE <<>>)
                                 \o (IF /\ remaining > 0
                                        /\ oldLen + remaining >= highWaterMark_
                                        /\ oldLen < highWaterMark_
                                     THEN HighWater ELSE <<>>)

MutShutdownInLoop == shut' = TRUE

\* shutdownInLoop(): while output is waiting, handleWrite() will do it.
ShutdownInLoop == shut' = (shut \/ ~writing)

\* handleClose(): the channel is disabled; what is buffered stays unsent.
HandleClose ==
  /\ state_' = "kDisconnected"
  /\ writing' = FALSE
  /\ closes' = IF closes < 2 THEN closes + 1 ELSE closes

-----------------------------------------------------------------------------
(* One event of the channel: poll() fills revents, handleEventWithGuard()    *)
(* goes through it in a fixed order.  Nothing else runs in the loop thread   *)
(* meanwhile, but handlers change what later callbacks find.                 *)
Poll ==
  /\ revents = {}
  /\ ~closed \/ writing                      \* else disableAll() took it out of epoll
  /\ \E ready \in SUBSET MayReport :
       /\ ready # {} /\ MustReport \subseteq ready
       /\ revents' = ready
  /\ UNCHANGED <<closeVars, sendVars, queue, tpc, peer, shut, revived, used>>

MutHupCloses == TRUE

\* EPOLLHUP closes unless there is something to read, be it the end.
HupCloses == "IN" \notin revents

DispatchClose ==
  /\ "HUP" \in revents
  /\ IF HupCloses THEN HandleClose ELSE UNCHANGED closeVars
  /\ revents' = revents \ {"HUP"}
  /\ UNCHANGED <<sendVars, queue, tpc, peer, shut, revived, used>>

\* handleError() fetches SO_ERROR and logs it.
HandleError ==
  /\ "ERR" \in revents /\ "HUP" \notin revents
  /\ FetchError
  /\ revents' = revents \ {"ERR"}
  /\ UNCHANGED <<closeVars, sendVars, queue, tpc, shut, revived, used>>

MutReadEnd == UNCHANGED closeVars

\* read() returned 0.
ReadEnd == HandleClose

\* handleRead(): messageCallback_ is called for data, the end of the stream
\* closes, an error is handed to handleError().
HandleRead ==
  /\ "IN" \in revents /\ revents \cap {"HUP", "ERR"} = {}
  /\ \/ /\ peer = "up"
        /\ revents' = (revents \ {"IN"}) \cup {"message"}
        /\ UNCHANGED <<closeVars, peer>>
     \/ /\ peer \in {"fin", "reset"}
        /\ ReadEnd
        /\ revents' = revents \ {"IN"}
        /\ UNCHANGED peer
     \/ /\ peer \in {"up", "error"}
        /\ FetchError
        /\ revents' = revents \ {"IN"}
        /\ UNCHANGED closeVars
  /\ UNCHANGED <<sendVars, queue, tpc, shut, revived, used>>

\* messageCallback_ returns to handleRead().
MessageReturns ==
  /\ "message" \in revents
  /\ revents' = revents \ {"message"}
  /\ UNCHANGED <<closeVars, sendVars, queue, tpc, peer, shut, revived, used>>

MutDrained == UNCHANGED shut

\* The end of handleWrite() when the buffer is drained: a shutdown() that had
\* to wait is carried out.
Drained == shut' = (shut \/ state_ = "kDisconnecting")

\* handleWrite(): writing is disabled when the buffer is drained, an unusable
\* connection is closed, other errors are logged.
HandleWrite ==
  /\ revents = {"OUT"}
  /\ revents' = {}
  /\ \/ /\ ~writing
        /\ UNCHANGED <<closeVars, sendVars, queue, peer, shut>>
     \/ /\ writing
        /\ FetchError
        /\ \E r \in WriteResults(Len(outputBuffer_)) :
             /\ wire' = wire \o Take(outputBuffer_, r.n)
             /\ outputBuffer_' = Drop(outputBuffer_, r.n)
             /\ IF r.errno = "EPIPE" THEN HandleClose
                ELSE writing' = (r.n < Len(outputBuffer_)) /\ UNCHANGED <<state_, closes>>
             /\ IF r.n = Len(outputBuffer_)
                THEN queue' = queue \o WriteComplete /\ Drained
                ELSE UNCHANGED <<queue, shut>>
        /\ UNCHANGED accepted
  /\ UNCHANGED <<tpc, revived, used>>

RunFunctor ==
  /\ revents = {} /\ queue # <<>>
  /\ \/ /\ Head(queue).fn = "send"
        /\ SendInLoop(Head(queue).msg, Tail(queue))
        /\ UNCHANGED <<state_, shut, closes>>
     \/ /\ Head(queue).fn # "send"
        /\ queue' = Tail(queue)
        /\ IF Head(queue).fn = "shutdown" THEN ShutdownInLoop ELSE UNCHANGED shut
        /\ IF Head(queue).fn = "forceClose" /\ state_ \in {"kConnected", "kDisconnecting"}
           THEN HandleClose ELSE UNCHANGED closeVars
        /\ UNCHANGED <<sendVars, peer>>        \* else a callback of the user
  /\ UNCHANGED <<revents, tpc, revived, used>>

-----------------------------------------------------------------------------
(* The interface called from callbacks in the loop thread, messageCallback_  *)
(* or one of another channel, a timer or a functor, runs at once.            *)
InCallback == revents = {} \/ "message" \in revents

LoopSend ==
  /\ InCallback /\ used < MaxMessages /\ state_ = "kConnected"
  /\ SendInLoop(used, queue)
  /\ used' = used + 1
  /\ UNCHANGED <<state_, closes, revents, tpc, shut, revived>>

LoopShutdown ==
  /\ InCallback /\ state_ = "kConnected"
  /\ state_' = "kDisconnecting"
  /\ ShutdownInLoop
  /\ UNCHANGED <<writing, closes, sendVars, revents, queue, tpc, peer, revived, used>>

LoopForceClose ==
  /\ InCallback /\ state_ \in {"kConnected", "kDisconnecting"}
  /\ HandleClose
  /\ UNCHANGED <<sendVars, revents, queue, tpc, peer, shut, revived, used>>

-----------------------------------------------------------------------------
(* The interface called in another thread: test state_, set it, queue.       *)
loopVars == <<writing, closes, sendVars, revents, peer, shut>>

TestSend(t) ==
  /\ "send" \in Calls /\ tpc[t] = Idle /\ used < MaxMessages
  /\ state_ = "kConnected"
  /\ tpc' = [tpc EXCEPT ![t] = [call |-> "send", at |-> "queue", msg |-> used]]
  /\ used' = used + 1
  /\ UNCHANGED <<state_, queue, loopVars, revived>>

TestShutdown(t) ==
  /\ "shutdown" \in Calls /\ tpc[t] = Idle
  /\ state_ = "kConnected"
  /\ tpc' = [tpc EXCEPT ![t] = [call |-> "shutdown", at |-> "set", msg |-> 0]]
  /\ UNCHANGED <<state_, queue, loopVars, revived, used>>

TestForceClose(t) ==
  /\ "forceClose" \in Calls /\ tpc[t] = Idle /\ Len(queue) < MaxQueue
  /\ state_ \in {"kConnected", "kDisconnecting"}
  /\ tpc' = [tpc EXCEPT ![t] = [call |-> "forceClose", at |-> "set", msg |-> 0]]
  /\ UNCHANGED <<state_, queue, loopVars, revived, used>>

SetDisconnecting(t) ==
  /\ tpc[t].at = "set"
  /\ state_' = "kDisconnecting"
  /\ revived' = (revived \/ state_ = "kDisconnected")
  /\ tpc' = [tpc EXCEPT ![t].at = "queue"]
  /\ UNCHANGED <<queue, loopVars, used>>

QueueFunctor(t) ==
  /\ tpc[t].at = "queue"
  /\ queue' = Append(queue, [fn |-> tpc[t].call, msg |-> tpc[t].msg])
  /\ tpc' = [tpc EXCEPT ![t] = Idle]
  /\ UNCHANGED <<state_, loopVars, revived, used>>

PeerLeaves ==
  /\ \/ peer = "up" /\ peer' \in {"fin", "error"}
     \/ peer = "fin" /\ peer' = "error"
  /\ UNCHANGED <<closeVars, sendVars, revents, queue, tpc, shut, revived, used>>

-----------------------------------------------------------------------------
Dispatch == DispatchClose \/ HandleError \/ HandleRead \/ MessageReturns \/ HandleWrite
LoopCall == LoopSend \/ LoopShutdown \/ LoopForceClose
ThreadCall(t) == TestSend(t) \/ TestShutdown(t) \/ TestForceClose(t)
ThreadStep(t) == SetDisconnecting(t) \/ QueueFunctor(t)

Next ==
  \/ Poll \/ Dispatch \/ RunFunctor \/ LoopCall \/ PeerLeaves
  \/ \E t \in Threads : ThreadCall(t) \/ ThreadStep(t)

Spec == Init /\ [][Next]_vars

(* The loop polls, dispatches and runs what is queued in every iteration,    *)
(* and a thread inside a call finishes it.  A peer that is not gone reads,   *)
(* so epoll reports room and write() takes bytes again and again.            *)
Fairness ==
  /\ WF_vars(Poll) /\ WF_vars(Dispatch) /\ SF_vars(RunFunctor)
  /\ SF_vars(Poll /\ "OUT" \in revents') /\ SF_vars(HandleWrite /\ wire' # wire)
  /\ \A t \in Threads : WF_vars(ThreadStep(t))
FairSpec == Spec /\ Fairness

-----------------------------------------------------------------------------
\* The kernel has been given, and the output buffer still holds, exactly the
\* bytes of the messages sendInLoop() took, in the order it took them: the
\* direct write() and the buffered path never overtake each other and a
\* partial write() neither loses nor repeats a byte.
BytesInOrder ==
  LET stream == wire \o outputBuffer_
  IN  /\ Len(stream) = Size * Len(accepted)
      /\ \A i \in 1 .. Len(stream) :
           stream[i] = <<accepted[(i - 1) \div Size + 1], ((i - 1) % Size) + 1>>

\* While the connection is open, buffered output has the write event enabled
\* and the write side open, whichever of shutdownInLoop() and handleWrite()
\* would shut it: it is neither forgotten nor cut off.
OutputCanLeave == outputBuffer_ # <<>> /\ ~closed => writing /\ ~shut

\* A shutdown() in progress ends with the write side shut down or the
\* connection closed.
ShutdownCompletes == state_ = "kDisconnecting" ~> shut \/ closed

\* handleClose(), which reports the connection down and has it erased, runs once
\* however the bits of an event combine (a reset comes as EPOLLHUP, EPOLLERR,
\* EPOLLIN and EPOLLOUT together), whatever messageCallback_ does in between and
\* whoever closes as well, unless a thread set state_ after the first close.
CloseOnce == closes <= 1 \/ revived

\* A connection whose peer has ended its stream or reset is closed, although
\* handleError() only logs: the end is found by a later read() or write().
PeerLeavesCloses == peer # "up" ~> closed
=============================================================================
