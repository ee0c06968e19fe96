------------------------ MODULE TcpConnectionProofs ------------------------
(***************************************************************************)
(* Proofs about TcpConnection, for any threads, messages and sizes: it is  *)
(* closed once unless state_ is overwritten after the close, buffered      *)
(* output keeps its way out, and bytes leave in the order of the messages. *)
(***************************************************************************)
EXTENDS TcpConnection, SequenceTheorems, TLAPS

Byte == Nat \X Nat
Functor == [fn : {"send", "shutdown", "forceClose", "writeComplete", "highWaterMark"}, msg : Nat]

TypeOK ==
  /\ state_ \in {"kConnected", "kDisconnecting", "kDisconnected"}
  /\ writing \in BOOLEAN /\ shut \in BOOLEAN /\ revived \in BOOLEAN
  /\ closes \in 0 .. 2
  /\ outputBuffer_ \in Seq(Byte)
  /\ revents \subseteq {"HUP", "ERR", "IN", "OUT", "message"}
  /\ queue \in Seq(Functor)
  /\ tpc \in [Threads -> [call : {"none", "send", "shutdown", "forceClose"},
                          at : {"idle", "set", "queue"}, msg : Nat]]
  /\ used \in Nat
  /\ \A t \in Threads : tpc[t].at # "idle" => tpc[t].call # "none"

\* What the rest of an event's bits can be: messageCallback_ is called when the
\* earlier ones are done, and a closed connection has nothing left to read.
DispatchInv ==
  /\ "message" \in revents => revents \cap {"HUP", "ERR", "IN"} = {}
  /\ closed => "IN" \notin revents

\* A connection that was closed and not revived is out of epoll's reach.
ClosedInv ==
  /\ closed /\ ~revived => state_ = "kDisconnected" /\ ~writing /\ "HUP" \notin revents
  /\ CloseOnce

\* On an open connection the write event is enabled exactly while output waits.
OutputInv ==
  ~closed => /\ writing <=> outputBuffer_ # <<>>
             /\ writing => ~shut

IInv == TypeOK /\ DispatchInv /\ ClosedInv /\ OutputInv

-----------------------------------------------------------------------------
(* Sequences of bytes.                                                       *)

\* A message of Size bytes is a sequence.
LEMMA BytesType ==
  ASSUME NEW m \in Nat
  PROVE  Bytes(m) \in Seq(Byte) /\ Len(Bytes(m)) = Size
BY ConnectionAssumption DEF Bytes, Byte

\* What Drop() leaves, as handleWrite() and sendInLoop() use it.
LEMMA DropType ==
  ASSUME NEW s \in Seq(Byte), NEW n \in 0 .. Len(s)
  PROVE  /\ Drop(s, n) \in Seq(Byte)
         /\ Drop(s, n) = <<>> <=> n = Len(s)
<1>1. Drop(s, n) \in Seq(Byte) /\ Len(Drop(s, n)) = Len(s) - n
  BY DEF Drop
<1> QED BY <1>1, SMTT(60)

\* write() takes no more than it is given.
LEMMA WriteResultsType ==
  ASSUME NEW n \in Nat, NEW r \in WriteResults(n)
  PROVE  r.n \in 0 .. n /\ (r.errno # "EPIPE" => ~shut)
BY DEF WriteResults

-----------------------------------------------------------------------------
(* sendInLoop() keeps the invariant, wherever it is called.                  *)
LEMMA SendKeeps ==
  ASSUME IInv, NEW m \in Nat, NEW q \in Seq(Functor), SendInLoop(m, q),
         UNCHANGED <<state_, closes, shut>>
  PROVE  /\ writing' \in BOOLEAN
         /\ outputBuffer_' \in Seq(Byte)
         /\ queue' \in Seq(Functor)
         /\ state_ = "kDisconnected" => UNCHANGED writing
         /\ OutputInv'
<1> USE DEF IInv, TypeOK
<1>1. CASE state_ = "kDisconnected"
  BY <1>1 DEF SendInLoop, sendVars, OutputInv, closed
<1>2. CASE state_ # "kDisconnected"
  <2>1. PICK r \in IF WriteFirst THEN WriteResults(Size) ELSE {[n |-> 0, errno |-> "none"]} :
          IF r.errno = "EPIPE"
          THEN queue' = q /\ UNCHANGED <<writing, sendVars>>
          ELSE LET oldLen == Len(outputBuffer_)
                   remaining == Size - r.n
               IN  /\ outputBuffer_' = outputBuffer_ \o Drop(Bytes(m), r.n)
                   /\ writing' = (writing \/ remaining > 0)
                   /\ queue' = q \o (IF remaining = 0 THEN WriteComplete ELSE <<>>)
                                 \o (IF /\ remaining > 0
                                        /\ oldLen + remaining >= highWaterMark_
                                        /\ oldLen < highWaterMark_
                                     THEN HighWater ELSE <<>>)
    BY <1>2, Zenon DEF SendInLoop
  <2>2. CASE r.errno = "EPIPE"
    BY <2>1, <2>2, <1>2 DEF sendVars, OutputInv, closed
  <2>3. CASE r.errno # "EPIPE"
    <3>1. r.n \in 0 .. Size /\ (WriteFirst => ~shut) /\ (~WriteFirst => r.n = 0)
      BY <2>1, <2>3, WriteResultsType, ConnectionAssumption, SMTT(30)
    <3>2. /\ Drop(Bytes(m), r.n) \in Seq(Byte)
          /\ Drop(Bytes(m), r.n) = <<>> <=> r.n = Size
      BY <3>1, BytesType, DropType, Zenon
    <3>3. WriteComplete \in Seq(Functor) /\ HighWater \in Seq(Functor)
      BY DEF WriteComplete, HighWater, Functor
    <3>4. outputBuffer_' = outputBuffer_ \o Drop(Bytes(m), r.n)
      BY <2>1, <2>3
    <3>5. writing' = (writing \/ Size - r.n > 0)
      BY <2>1, <2>3, Zenon
    <3>6. Size - r.n > 0 <=> r.n # Size
      BY <3>1, ConnectionAssumption
    <3>7. writing' \in BOOLEAN /\ (writing' <=> writing \/ r.n # Size)
      BY <3>5, <3>6, Zenon
    <3>8. PICK x \in Seq(Functor), y \in Seq(Functor) : queue' = (q \o x) \o y
      <4>1. /\ <<>> \in Seq(Functor)
            /\ (IF Size - r.n = 0 THEN WriteComplete ELSE <<>>) \in Seq(Functor)
        BY <3>3
      <4> QED BY <2>1, <2>3, <3>3, <4>1, Zenon
    <3>9. queue' \in Seq(Functor)
      BY <3>8
    <3>10. ~closed => ~shut
      BY <3>1 DEF WriteFirst, OutputInv
    <3>11. /\ outputBuffer_' \in Seq(Byte)
           /\ outputBuffer_' # <<>> <=> (outputBuffer_ # <<>> \/ r.n # Size)
      BY <3>2, <3>4, SMTT(60)
    <3>12. OutputInv'
      <4>1. ~closed => (writing' <=> outputBuffer_' # <<>>)
        BY <3>7, <3>11, Zenon DEF OutputInv
      <4> QED BY <3>10, <4>1 DEF OutputInv, closed
    <3> QED BY <1>2, <3>7, <3>9, <3>11, <3>12, Zenon
  <2> QED BY <2>2, <2>3
<1> QED BY <1>1, <1>2

-----------------------------------------------------------------------------
\* handleClose() on a connection that is open, or that was revived.
LEMMA CloseKeeps ==
  ASSUME IInv, HandleClose, ~closed \/ revived, revived' = revived,
         revents' \subseteq revents, "IN" \notin revents', "HUP" \notin revents'
  PROVE  /\ state_' = "kDisconnected" /\ writing' = FALSE /\ closes' \in 0 .. 2
         /\ DispatchInv' /\ ClosedInv' /\ OutputInv'
BY DEF IInv, TypeOK, DispatchInv, ClosedInv, OutputInv, CloseOnce, HandleClose, closed

\* An established connection with nothing to send.
LEMMA InitHolds == Init => IInv
<1> SUFFICES ASSUME Init PROVE IInv
  OBVIOUS
<1>1. TypeOK
  <2>1. <<>> \in Seq(Byte) /\ <<>> \in Seq(Functor)
    OBVIOUS
  <2>2. tpc = [t \in Threads |-> [call |-> "none", at |-> "idle", msg |-> 0]]
    BY DEF Init, Idle
  <2>3. /\ tpc \in [Threads -> [call : {"none", "send", "shutdown", "forceClose"},
                               at : {"idle", "set", "queue"}, msg : Nat]]
        /\ \A t \in Threads : tpc[t].at # "idle" => tpc[t].call # "none"
    BY <2>2
  <2>4. outputBuffer_ \in Seq(Byte) /\ queue \in Seq(Functor)
    BY <2>1 DEF Init
  <2>5. closes \in 0 .. 2 /\ state_ \in {"kConnected", "kDisconnecting", "kDisconnected"}
    BY DEF Init
  <2> QED BY <2>3, <2>4, <2>5, Zenon DEF Init, TypeOK
<1>2. DispatchInv /\ ClosedInv /\ OutputInv
  BY DEF Init, DispatchInv, ClosedInv, CloseOnce, OutputInv, closed
<1> QED BY <1>1, <1>2 DEF IInv

\* The handlers and functors of the loop thread.
LEMMA PollKeeps == IInv /\ Poll => IInv'
<1> SUFFICES ASSUME IInv, Poll PROVE IInv'
  OBVIOUS
<1> USE DEF IInv
<1>1. PICK ready \in SUBSET MayReport : ready # {} /\ MustReport \subseteq ready /\ revents' = ready
  BY DEF Poll
<1>2. MayReport \subseteq {"HUP", "ERR", "IN", "OUT"} /\ (closed => "IN" \notin MayReport)
  BY DEF MayReport, MustReport
<1>3. closed /\ ~revived => FALSE
  BY DEF Poll, ClosedInv
<1> QED BY <1>1, <1>2, <1>3 DEF Poll, TypeOK, DispatchInv, ClosedInv, CloseOnce, OutputInv, closed,
                                closeVars, sendVars

\* handleEventWithGuard(): at most one of the callbacks of an event closes.
LEMMA DispatchKeeps == IInv /\ Dispatch => IInv'
<1> SUFFICES ASSUME IInv, Dispatch PROVE IInv'
  OBVIOUS
<1> USE DEF IInv
<1>1. CASE DispatchClose
  <2>1. CASE "IN" \in revents
    BY <1>1, <2>1 DEF DispatchClose, HupCloses, TypeOK, DispatchInv, ClosedInv, CloseOnce, OutputInv,
                      closed, closeVars, sendVars
  <2>2. CASE "IN" \notin revents
    <3>1. HandleClose /\ (~closed \/ revived) /\ revents' = revents \ {"HUP"}
      BY <1>1, <2>2 DEF DispatchClose, HupCloses, ClosedInv
    <3> QED BY <1>1, <2>2, <3>1, CloseKeeps, Zenon DEF DispatchClose, TypeOK, sendVars
  <2> QED BY <2>1, <2>2
<1>2. CASE HandleError
  BY <1>2 DEF HandleError, TypeOK, DispatchInv, ClosedInv, CloseOnce, OutputInv, closed, closeVars, sendVars
<1>3. CASE HandleRead
  <2>1. ~closed
    BY <1>3 DEF HandleRead, DispatchInv
  <2>2. CASE UNCHANGED closeVars
    BY <1>3, <2>1, <2>2, Zenon DEF HandleRead, TypeOK, DispatchInv, ClosedInv, CloseOnce, OutputInv, closed,
                            closeVars, sendVars
  <2>3. CASE HandleClose /\ revents' = revents \ {"IN"}
    BY <1>3, <2>1, <2>3, CloseKeeps, Zenon DEF HandleRead, TypeOK, sendVars
  <2> QED BY <1>3, <2>2, <2>3 DEF HandleRead, ReadEnd
<1>4. CASE MessageReturns
  BY <1>4 DEF MessageReturns, TypeOK, DispatchInv, ClosedInv, CloseOnce, OutputInv, closed, closeVars, sendVars
<1>5. CASE HandleWrite
  <2>1. CASE ~writing
    BY <1>5, <2>1 DEF HandleWrite, TypeOK, DispatchInv, ClosedInv, CloseOnce, OutputInv, closed,
                      closeVars, sendVars
  <2>2. CASE writing
    <3>1. PICK r \in WriteResults(Len(outputBuffer_)) :
            /\ outputBuffer_' = Drop(outputBuffer_, r.n)
            /\ IF r.errno = "EPIPE" THEN HandleClose
               ELSE writing' = (r.n < Len(outputBuffer_)) /\ UNCHANGED <<state_, closes>>
            /\ IF r.n = Len(outputBuffer_)
               THEN queue' = queue \o WriteComplete /\ Drained
               ELSE UNCHANGED <<queue, shut>>
      BY <1>5, <2>2 DEF HandleWrite
    <3>2. r.n \in 0 .. Len(outputBuffer_)
      BY WriteResultsType DEF TypeOK
    <3>3. /\ outputBuffer_' \in Seq(Byte)
          /\ outputBuffer_' = <<>> <=> r.n = Len(outputBuffer_)
      BY <3>1, <3>2, DropType DEF TypeOK
    <3>4. WriteComplete \in Seq(Functor)
      BY DEF WriteComplete, Functor
    <3>5. queue' \in Seq(Functor) /\ shut' \in BOOLEAN /\ (r.n # Len(outputBuffer_) => shut' = shut)
      <4>1. CASE r.n = Len(outputBuffer_)
        <5>1. shut' \in BOOLEAN
          BY <3>1, <4>1, Zenon DEF Drained
        <5>2. queue' \in Seq(Functor)
          <6>1. queue' = queue \o WriteComplete
            BY <3>1, <4>1, Zenon
          <6> QED BY <3>4, <6>1 DEF TypeOK
        <5> QED BY <4>1, <5>1, <5>2
      <4>2. CASE r.n # Len(outputBuffer_)
        BY <3>1, <4>2 DEF TypeOK
      <4> QED BY <4>1, <4>2
    <3>6. revents' = {} /\ UNCHANGED <<tpc, revived, used>> /\ (~closed \/ revived)
      BY <1>5, <2>2 DEF HandleWrite, ClosedInv
    <3>7. CASE r.errno = "EPIPE"
      BY <3>1, <3>3, <3>5, <3>6, <3>7, CloseKeeps, Zenon DEF TypeOK
    <3>8. CASE r.errno # "EPIPE"
      <4>1. writing' \in BOOLEAN /\ (writing' <=> r.n # Len(outputBuffer_)) /\ UNCHANGED <<state_, closes>>
        <5>1. writing' = (r.n < Len(outputBuffer_)) /\ UNCHANGED <<state_, closes>>
          BY <3>1, <3>8, Zenon
        <5>2. r.n < Len(outputBuffer_) <=> r.n # Len(outputBuffer_)
          BY <3>2 DEF TypeOK
        <5>3. writing' \in BOOLEAN
          BY <5>1
        <5> QED BY <5>1, <5>2, <5>3, Zenon
      <4> QED BY <2>2, <3>3, <3>5, <3>6, <4>1 DEF TypeOK, DispatchInv, ClosedInv, CloseOnce, OutputInv, closed
    <3> QED BY <3>7, <3>8
  <2> QED BY <2>1, <2>2
<1> QED BY <1>1, <1>2, <1>3, <1>4, <1>5 DEF Dispatch

\* The queued sendInLoop(), shutdownInLoop(), forceCloseInLoop() and callbacks.
LEMMA FunctorKeeps == IInv /\ RunFunctor => IInv'
<1> SUFFICES ASSUME IInv, RunFunctor PROVE IInv'
  OBVIOUS
<1>1. Head(queue) \in Functor /\ Tail(queue) \in Seq(Functor)
  BY DEF IInv, TypeOK, RunFunctor
<1>2. UNCHANGED <<revents, tpc, revived, used>> /\ revents = {}
  BY DEF RunFunctor
<1>3. CASE Head(queue).fn = "send"
  <2>1. Head(queue).msg \in Nat
    BY <1>1 DEF Functor
  <2>2. SendInLoop(Head(queue).msg, Tail(queue)) /\ UNCHANGED <<state_, closes, shut>>
    BY <1>3 DEF RunFunctor
  <2>3. /\ writing' \in BOOLEAN /\ outputBuffer_' \in Seq(Byte) /\ queue' \in Seq(Functor)
        /\ state_ = "kDisconnected" => UNCHANGED writing
        /\ OutputInv'
    BY <1>1, <2>1, <2>2, SendKeeps, Zenon
  <2> QED BY <1>2, <2>2, <2>3 DEF IInv, TypeOK, DispatchInv, ClosedInv, CloseOnce, closed
<1>4. CASE Head(queue).fn # "send"
  <2>1. queue' = Tail(queue) /\ UNCHANGED <<outputBuffer_>>
    BY <1>4 DEF RunFunctor, sendVars
  <2>2. shut' \in BOOLEAN /\ (shut' # shut => ~writing)
    BY <1>4, Zenon DEF RunFunctor, ShutdownInLoop, IInv, TypeOK
  <2>3. CASE UNCHANGED closeVars
    BY <1>1, <1>2, <2>1, <2>2, <2>3 DEF IInv, TypeOK, DispatchInv, ClosedInv, CloseOnce, OutputInv, closed,
                                        closeVars
  <2>4. CASE state_ \in {"kConnected", "kDisconnecting"} /\ HandleClose
    BY <1>1, <1>2, <2>1, <2>2, <2>4, CloseKeeps, Zenon DEF IInv, TypeOK, ClosedInv
  <2> QED BY <1>4, <2>3, <2>4 DEF RunFunctor
<1> QED BY <1>3, <1>4

\* The interface called in the loop thread.
LEMMA LoopCallKeeps == IInv /\ LoopCall => IInv'
<1> SUFFICES ASSUME IInv, LoopCall PROVE IInv'
  OBVIOUS
<1>1. CASE LoopSend
  <2>1. used \in Nat /\ used' \in Nat
    BY <1>1 DEF LoopSend, IInv, TypeOK
  <2>2. SendInLoop(used, queue) /\ UNCHANGED <<state_, closes, shut, revents, tpc, revived>>
    BY <1>1 DEF LoopSend
  <2>3. /\ writing' \in BOOLEAN /\ outputBuffer_' \in Seq(Byte) /\ queue' \in Seq(Functor)
        /\ state_ = "kDisconnected" => UNCHANGED writing
        /\ OutputInv'
    BY <2>1, <2>2, SendKeeps DEF IInv, TypeOK
  <2> QED BY <2>1, <2>2, <2>3 DEF IInv, TypeOK, DispatchInv, ClosedInv, CloseOnce, closed
<1>2. CASE LoopShutdown
  <2>1. shut' \in BOOLEAN /\ (shut' # shut => ~writing)
    BY <1>2 DEF LoopShutdown, ShutdownInLoop, IInv, TypeOK
  <2> QED BY <1>2, <2>1 DEF LoopShutdown, IInv, TypeOK, DispatchInv, ClosedInv, CloseOnce, OutputInv,
                            closed, sendVars
<1>3. CASE LoopForceClose
  <2>1. "IN" \notin revents /\ "HUP" \notin revents
    BY <1>3 DEF LoopForceClose, InCallback, IInv, DispatchInv
  <2> QED BY <1>3, <2>1, CloseKeeps, Zenon DEF LoopForceClose, IInv, TypeOK, ClosedInv, sendVars
<1> QED BY <1>1, <1>2, <1>3 DEF LoopCall

\* The interface called in another thread.
LEMMA ThreadKeeps ==
  ASSUME NEW t \in Threads
  PROVE  IInv /\ (ThreadCall(t) \/ ThreadStep(t)) => IInv'
<1> SUFFICES ASSUME IInv, ThreadCall(t) \/ ThreadStep(t) PROVE IInv'
  OBVIOUS
<1> USE DEF IInv
<1>1. CASE TestSend(t)
  BY <1>1 DEF TestSend, TypeOK, DispatchInv, ClosedInv, CloseOnce, OutputInv, closed, loopVars, sendVars
<1>2. CASE TestShutdown(t)
  BY <1>2 DEF TestShutdown, TypeOK, DispatchInv, ClosedInv, CloseOnce, OutputInv, closed, loopVars, sendVars
<1>3. CASE TestForceClose(t)
  BY <1>3 DEF TestForceClose, TypeOK, DispatchInv, ClosedInv, CloseOnce, OutputInv, closed, loopVars, sendVars
<1>4. CASE SetDisconnecting(t)
  <2>1. revived' \in BOOLEAN /\ (~revived' => ~revived /\ state_ # "kDisconnected")
    BY <1>4, Zenon DEF SetDisconnecting, TypeOK
  <2>2. TypeOK'
    BY <1>4, <2>1, Zenon DEF SetDisconnecting, TypeOK, loopVars, sendVars
  <2> QED BY <1>4, <2>1, <2>2 DEF SetDisconnecting, DispatchInv, ClosedInv, CloseOnce, OutputInv, closed,
                                  loopVars, sendVars
<1>5. CASE QueueFunctor(t)
  <2>1. [fn |-> tpc[t].call, msg |-> tpc[t].msg] \in Functor
    BY <1>5 DEF QueueFunctor, Functor, TypeOK
  <2> QED BY <1>5, <2>1 DEF QueueFunctor, Idle, TypeOK, DispatchInv, ClosedInv, CloseOnce, OutputInv,
                            closed, loopVars, sendVars
<1> QED BY <1>1, <1>2, <1>3, <1>4, <1>5 DEF ThreadCall, ThreadStep

\* Every step of the specification keeps the inductive invariant.
LEMMA NextKeeps == IInv /\ [Next]_vars => IInv'
<1> SUFFICES ASSUME IInv, [Next]_vars PROVE IInv'
  OBVIOUS
<1>1. CASE PeerLeaves
  BY <1>1 DEF PeerLeaves, IInv, TypeOK, DispatchInv, ClosedInv, CloseOnce, OutputInv, closed,
              closeVars, sendVars
<1>2. CASE UNCHANGED vars
  BY <1>2 DEF vars, IInv, TypeOK, DispatchInv, ClosedInv, CloseOnce, OutputInv, closed, closeVars, sendVars
<1> QED BY <1>1, <1>2, PollKeeps, DispatchKeeps, FunctorKeeps, LoopCallKeeps, ThreadKeeps DEF Next

-----------------------------------------------------------------------------
\* The inductive invariant holds in every reachable state.
THEOREM Invariance == Spec => []IInv
BY InitHolds, NextKeeps, PTL DEF Spec

\* handleClose() runs at most once unless a thread overwrites state_ after the
\* close, for any number of threads and whatever bits an event carries.
THEOREM ClosedOnce == Spec => []CloseOnce
<1>1. IInv => CloseOnce
  BY DEF IInv, ClosedInv
<1> QED BY <1>1, Invariance, PTL

\* Buffered output on an open connection is watched and its way not shut, for
\* any messages, sizes and calls.
THEOREM OutputNotCutOff == Spec => []OutputCanLeave
<1>1. IInv => OutputCanLeave
  BY DEF IInv, OutputInv, OutputCanLeave
<1> QED BY <1>1, Invariance, PTL

-----------------------------------------------------------------------------
(* The bytes of the connection, on the wire and waiting.                     *)

\* stream holds the bytes of the messages of taken, one message after the other.
InOrder(stream, taken) ==
  /\ Len(stream) = Size * Len(taken)
  /\ \A i \in 1 .. Len(stream) :
       stream[i] = <<taken[(i - 1) \div Size + 1], ((i - 1) % Size) + 1>>

\* Which message a byte belongs to, one of the first n or the one after them, and
\* where it is in it.
LEMMA Position ==
  ASSUME NEW n \in Nat, NEW i \in Nat
  PROVE  /\ Size * n \in Nat /\ Size * (n + 1) = Size * n + Size
         /\ i < Size * n => i \div Size \in 0 .. n - 1
         /\ i \in Size * n .. Size * n + Size - 1 => i \div Size = n /\ i % Size = i - Size * n
<1> DEFINE s == Size
<1> HIDE DEF s
<1>1. s \in Nat \ {0}
  BY ConnectionAssumption DEF s
<1>2. s * n \in Nat /\ s * (n + 1) = s * n + s
  BY <1>1
<1>3. i < s * n => i \div s \in 0 .. n - 1
  BY <1>1
<1>4. ASSUME i \in s * n .. s * n + s - 1 PROVE i \div s = n /\ i % s = i - s * n
  <2>1. PICK j \in 0 .. s - 1 : i = s * n + j
    BY <1>1, <1>2, <1>4, i - s * n \in 0 .. s - 1
  <2>2. i \div s = n /\ i % s = j
    BY <1>1, <2>1
  <2> QED BY <1>2, <2>1, <2>2
<1> QED BY <1>2, <1>3, <1>4 DEF s

\* A message added at the end of the stream.
LEMMA MessageAdded ==
  ASSUME NEW s \in Seq(Byte), NEW taken \in Seq(Nat), NEW m \in Nat, InOrder(s, taken)
  PROVE  InOrder(s \o Bytes(m), Append(taken, m))
<1>1. PICK n \in Nat, p \in Nat, b \in Seq(Byte) :
        n = Len(taken) /\ p = Len(s) /\ p = Size * n /\ b = Bytes(m) /\ Len(b) = Size
  BY BytesType, LenProperties, Zenon DEF InOrder
<1> DEFINE both == s \o b
           more == Append(taken, m)
<1>2. /\ both \in Seq(Byte) /\ Len(both) = p + Size
      /\ \A i \in 1 .. p + Size : both[i] = IF i <= p THEN s[i] ELSE b[i - p]
  <2>1. /\ both \in Seq(Byte) /\ Len(both) = Len(s) + Len(b)
        /\ \A i \in 1 .. Len(s) + Len(b) :
             both[i] = IF i <= Len(s) THEN s[i] ELSE b[i - Len(s)]
    BY ConcatProperties
  <2> QED BY <1>1, <2>1, SMTT(30)
<1>3. Len(more) = n + 1 /\ (\A k \in 1 .. n : more[k] = taken[k]) /\ more[n + 1] = m
  BY <1>1, AppendProperties
<1>4. Size * (n + 1) = p + Size /\ Size \in Nat \ {0}
  BY <1>1, Position, ConnectionAssumption
<1> HIDE DEF both, more
<1>5. ASSUME NEW i \in 1 .. p + Size
      PROVE  both[i] = <<more[(i - 1) \div Size + 1], ((i - 1) % Size) + 1>>
  <2>1. PICK h \in Nat : h = i - 1 /\ i = h + 1 /\ h < p + Size
    BY <1>4
  <2>2. PICK k \in Int, j \in Int :
          /\ k = h \div Size /\ j = h % Size
          /\ h < p => k \in 0 .. n - 1
          /\ h \in p .. p + Size - 1 => k = n /\ j = h - p
    <3>1. /\ h < p => h \div Size \in 0 .. n - 1
          /\ h \in p .. p + Size - 1 => h \div Size = n /\ h % Size = h - p
      <4>1. /\ h < Size * n => h \div Size \in 0 .. n - 1
            /\ h \in Size * n .. Size * n + Size - 1 => h \div Size = n /\ h % Size = h - Size * n
        BY Position, Zenon
      <4>2. p = Size * n
        BY <1>1
      <4> QED BY <4>1, <4>2, Zenon
    <3>2. h \div Size \in Int /\ h % Size \in Int
      BY <1>4
    <3> QED BY <3>1, <3>2
  <2>3. CASE i <= p
    <3>1. s[i] = <<taken[k + 1], j + 1>>
      <4>1. s[i] = <<taken[(i - 1) \div Size + 1], ((i - 1) % Size) + 1>>
        <5>1. i \in 1 .. Len(s)
          BY <1>1, <2>1, <2>3
        <5> QED BY <5>1 DEF InOrder
      <4> QED BY <2>1, <2>2, <4>1, Zenon
    <3>2. more[k + 1] = taken[k + 1]
      <4>1. k + 1 \in 1 .. n
        BY <2>1, <2>2, <2>3, SMTT(30)
      <4> QED BY <1>3, <4>1
    <3>3. both[i] = s[i]
      BY <1>2, <2>3
    <3> QED BY <2>1, <2>2, <3>1, <3>2, <3>3, Zenon
  <2>4. CASE i > p
    <3>1. k = n /\ j + 1 = i - p /\ i - p \in 1 .. Size
      BY <1>1, <1>4, <2>1, <2>2, <2>4, SMTT(30)
    <3>2. both[i] = b[i - p]
      BY <1>1, <1>2, <2>1, <2>4, SMTT(30)
    <3>3. b[i - p] = <<m, i - p>>
      BY <1>1, <3>1 DEF Bytes
    <3>4. (i - 1) \div Size = k /\ (i - 1) % Size = j /\ more[k + 1] = m
      BY <1>3, <2>1, <2>2, <3>1, Zenon
    <3> QED BY <3>1, <3>2, <3>3, <3>4, Zenon
  <2>5. i <= p \/ i > p
    BY <2>1
  <2> QED BY <2>3, <2>4, <2>5
<1>6. Len(both) = Size * Len(more)
  BY <1>2, <1>3, <1>4
<1>7. InOrder(both, more)
  BY <1>2, <1>5, <1>6, Zenon DEF InOrder
<1> QED BY <1>1, <1>7 DEF both, more

\* Bytes in three parts.
LEMMA ThreeParts ==
  ASSUME NEW s \in Seq(Byte), NEW t \in Seq(Byte), NEW u \in Seq(Byte)
  PROVE  (s \o t) \o u = s \o (t \o u)
BY ConcatAssociative, SMTT(30)

\* A write() to a connection with nothing waiting: x was taken, y is buffered.
LEMMA WrittenFirst ==
  ASSUME NEW w \in Seq(Byte), NEW x \in Seq(Byte), NEW y \in Seq(Byte)
  PROVE  (w \o x) \o (<<>> \o y) = (w \o <<>>) \o (x \o y)
<1>1. (w \o x) \o y = w \o (x \o y)
  BY ThreeParts, SMTT(30)
<1>2. <<>> \o y = y /\ w \o <<>> = w
  BY ConcatEmptySeq
<1> QED BY <1>1, <1>2, Zenon

\* No write(): all of a message is buffered behind o.
LEMMA AllBuffered ==
  ASSUME NEW w \in Seq(Byte), NEW o \in Seq(Byte), NEW y \in Seq(Byte)
  PROVE  (w \o <<>>) \o (o \o y) = (w \o o) \o (<<>> \o y)
<1>1. (w \o o) \o y = w \o (o \o y)
  BY ThreeParts, SMTT(30)
<1>2. <<>> \o y = y /\ w \o <<>> = w
  BY ConcatEmptySeq
<1> QED BY <1>1, <1>2, Zenon

\* A partial write() splits bytes in two without losing one.
LEMMA Split ==
  ASSUME NEW s \in Seq(Byte), NEW n \in 0 .. Len(s)
  PROVE  /\ Take(s, n) \in Seq(Byte) /\ Drop(s, n) \in Seq(Byte)
         /\ Take(s, n) \o Drop(s, n) = s
         /\ n = 0 => Take(s, n) = <<>>
<1>1. Take(s, n) \in Seq(Byte) /\ Drop(s, n) \in Seq(Byte)
  BY DEF Take, Drop
<1>2. n = 0 => Take(s, n) = <<>>
  BY DEF Take
<1>3. SubSeq(s, 1, n) \o SubSeq(s, n + 1, Len(s)) = SubSeq(s, 1, Len(s))
  <2>1. Len(s) \in Nat /\ 1 \in 1 .. Len(s) + 1 /\ n \in 1 - 1 .. Len(s) /\ Len(s) \in n .. Len(s)
    BY LenProperties
  <2> QED BY <2>1, ConcatAdjacentSubSeq, Zenon
<1>4. SubSeq(s, 1, Len(s)) = s
  OBVIOUS
<1> QED BY <1>1, <1>2, <1>3, <1>4, Zenon DEF Take, Drop

\* What the kernel has and what is waiting hold the messages taken.
BytesInv ==
  /\ wire \in Seq(Byte) /\ accepted \in Seq(Nat)
  /\ InOrder(wire \o outputBuffer_, accepted)

\* sendInLoop(): the direct write() happens only with nothing waiting.
LEMMA SendInOrder ==
  ASSUME IInv, BytesInv, NEW m \in Nat, NEW q, SendInLoop(m, q)
  PROVE  BytesInv'
<1>1. CASE UNCHANGED sendVars
  BY <1>1 DEF BytesInv, sendVars
<1>2. CASE ~UNCHANGED sendVars
  <2>1. PICK n \in 0 .. Size :
          /\ accepted' = Append(accepted, m)
          /\ wire' = wire \o Take(Bytes(m), n)
          /\ outputBuffer_' = outputBuffer_ \o Drop(Bytes(m), n)
          /\ n # 0 => outputBuffer_ = <<>>
    <3>1. PICK r \in IF WriteFirst THEN WriteResults(Size) ELSE {[n |-> 0, errno |-> "none"]} :
            /\ accepted' = Append(accepted, m)
            /\ wire' = wire \o Take(Bytes(m), r.n)
            /\ outputBuffer_' = outputBuffer_ \o Drop(Bytes(m), r.n)
      BY <1>2, Zenon DEF SendInLoop
    <3>2. r.n \in 0 .. Size /\ (r.n # 0 => outputBuffer_ = <<>>)
      BY <3>1, WriteResultsType, ConnectionAssumption DEF WriteFirst
    <3> QED BY <3>1, <3>2, Zenon
  <2>2. wire \in Seq(Byte) /\ outputBuffer_ \in Seq(Byte)
    BY DEF IInv, TypeOK, BytesInv
  <2>3. Bytes(m) \in Seq(Byte) /\ Len(Bytes(m)) = Size /\ accepted \in Seq(Nat)
    BY BytesType DEF BytesInv
  <2>4. PICK x \in Seq(Byte), y \in Seq(Byte) :
          /\ x = Take(Bytes(m), n) /\ y = Drop(Bytes(m), n)
          /\ x \o y = Bytes(m) /\ (n = 0 => x = <<>>)
    BY <2>3, Split, SMTT(30)
  <2>5. wire' \o outputBuffer_' = (wire \o outputBuffer_) \o Bytes(m)
    <3>1. wire' = wire \o x /\ outputBuffer_' = outputBuffer_ \o y /\ (x = <<>> \/ outputBuffer_ = <<>>)
      BY <2>1, <2>4
    <3>2. (wire \o x) \o (outputBuffer_ \o y) = (wire \o outputBuffer_) \o Bytes(m)
      <4>1. CASE x = <<>>
        <5>1. (wire \o <<>>) \o (outputBuffer_ \o y) = (wire \o outputBuffer_) \o (<<>> \o y)
          BY <2>2, AllBuffered, SMTT(60)
        <5> QED BY <2>4, <4>1, <5>1, Zenon
      <4>2. CASE outputBuffer_ = <<>>
        <5>1. (wire \o x) \o (<<>> \o y) = (wire \o <<>>) \o (x \o y)
          BY <2>2, WrittenFirst, SMTT(60)
        <5> QED BY <2>4, <4>2, <5>1, Zenon
      <4> QED BY <3>1, <4>1, <4>2, Zenon
    <3> QED BY <3>1, <3>2
  <2>6. wire' \in Seq(Byte) /\ accepted' \in Seq(Nat) /\ wire \o outputBuffer_ \in Seq(Byte)
    BY <2>1, <2>2, <2>3, <2>4
  <2>7. InOrder((wire \o outputBuffer_) \o Bytes(m), Append(accepted, m))
    BY <2>3, <2>6, MessageAdded, Zenon DEF BytesInv
  <2> QED BY <2>1, <2>4, <2>5, <2>6, <2>7 DEF BytesInv
<1> QED BY <1>1, <1>2

\* handleWrite(): the kernel takes bytes from the front of the buffer.
LEMMA WriteInOrder == ASSUME IInv, BytesInv, HandleWrite PROVE BytesInv'
<1>1. CASE UNCHANGED sendVars
  BY <1>1 DEF BytesInv, sendVars
<1>2. CASE ~UNCHANGED sendVars
  <2>1. PICK r \in WriteResults(Len(outputBuffer_)) :
          /\ wire' = wire \o Take(outputBuffer_, r.n)
          /\ outputBuffer_' = Drop(outputBuffer_, r.n)
          /\ accepted' = accepted
    BY <1>2, SMTT(30) DEF HandleWrite
  <2>2. wire \in Seq(Byte) /\ outputBuffer_ \in Seq(Byte)
    BY DEF IInv, TypeOK, BytesInv
  <2>3. r.n \in 0 .. Len(outputBuffer_)
    BY <2>2, WriteResultsType
  <2>4. PICK x \in Seq(Byte), y \in Seq(Byte) :
          x = Take(outputBuffer_, r.n) /\ y = Drop(outputBuffer_, r.n) /\ x \o y = outputBuffer_
    BY <2>2, <2>3, Split, Zenon
  <2>5. wire' = wire \o x /\ outputBuffer_' = y /\ wire' \in Seq(Byte)
    BY <2>1, <2>2, <2>4
  <2>6. wire' \o outputBuffer_' = wire \o outputBuffer_
    <3>1. (wire \o x) \o y = wire \o (x \o y)
      BY <2>2, ThreeParts, SMTT(60)
    <3> QED BY <2>4, <2>5, <3>1
  <2> QED BY <2>1, <2>5, <2>6 DEF BytesInv
<1> QED BY <1>1, <1>2

\* Nothing else touches the bytes.
LEMMA NextInOrder == IInv /\ BytesInv /\ [Next]_vars => BytesInv'
<1> SUFFICES ASSUME IInv, BytesInv, [Next]_vars PROVE BytesInv'
  OBVIOUS
<1>1. CASE UNCHANGED sendVars
  BY <1>1 DEF BytesInv, sendVars
<1>2. CASE HandleWrite
  BY <1>2, WriteInOrder
<1>3. CASE LoopSend
  BY <1>3, SendInOrder DEF LoopSend, IInv, TypeOK
<1>4. CASE RunFunctor
  <2>1. CASE Head(queue).fn = "send"
    <3>1. Head(queue).msg \in Nat
      <4>1. queue \in Seq(Functor) /\ queue # <<>>
        BY <1>4 DEF RunFunctor, IInv, TypeOK
      <4>2. Head(queue) \in Functor
        BY <4>1
      <4> QED BY <4>2 DEF Functor
    <3>2. SendInLoop(Head(queue).msg, Tail(queue))
      BY <1>4, <2>1 DEF RunFunctor
    <3> QED BY <3>1, <3>2, SendInOrder
  <2>2. CASE Head(queue).fn # "send"
    BY <1>1, <1>4, <2>2 DEF RunFunctor
  <2> QED BY <2>1, <2>2
<1>5. CASE Poll \/ PeerLeaves \/ UNCHANGED vars
  BY <1>1, <1>5 DEF Poll, PeerLeaves, vars
<1>6. CASE DispatchClose \/ HandleError \/ HandleRead \/ MessageReturns
  BY <1>1, <1>6 DEF DispatchClose, HandleError, HandleRead, MessageReturns
<1>7. CASE LoopShutdown \/ LoopForceClose
  BY <1>1, <1>7 DEF LoopShutdown, LoopForceClose
<1>8. ASSUME NEW t \in Threads, ThreadCall(t) \/ ThreadStep(t) PROVE BytesInv'
  BY <1>1, <1>8 DEF ThreadCall, ThreadStep, TestSend, TestShutdown, TestForceClose, SetDisconnecting,
                    QueueFunctor, loopVars
<1> QED BY <1>2, <1>3, <1>4, <1>5, <1>6, <1>7, <1>8 DEF Next, Dispatch, LoopCall

\* Every byte of every message sendInLoop() takes reaches the kernel or waits in
\* the output buffer, once and in order, for messages of any size, any split of
\* them by write() and any callers.
THEOREM BytesKeepOrder == Spec => []BytesInOrder
<1>1. Init => BytesInv
  <2>1. ASSUME Init PROVE wire \o outputBuffer_ = <<>> /\ accepted = <<>> /\ wire = <<>>
    BY <2>1 DEF Init
  <2>2. InOrder(<<>>, <<>>)
    BY ConnectionAssumption DEF InOrder
  <2> QED BY <2>1, <2>2 DEF BytesInv
<1>2. BytesInv => BytesInOrder
  BY Zenon DEF BytesInv, BytesInOrder, InOrder
<1> QED BY <1>1, <1>2, Invariance, NextInOrder, PTL DEF Spec
-----------------------------------------------------------------------------
(* What ShutdownCompletes rests on.                                          *)
Ends == {"shutdown", "forceClose"}
EndQueued(q) == \E i \in DOMAIN q : q[i].fn \in Ends
EndComing(t) == tpc[t].at = "queue" /\ tpc[t].call \in Ends

\* On an open connection in kDisconnecting the write side is shut, or output
\* waits and handleWrite() will shut it, or a functor that shuts it or closes
\* the connection is queued, or the thread that set state_ has still to queue it.
ShutdownOwed ==
  state_ = "kDisconnecting" /\ ~closed
    => shut \/ writing \/ EndQueued(queue) \/ \E t \in Threads : EndComing(t)

\* Only shutdown() and forceClose() set state_.
OwedInv == ShutdownOwed /\ \A t \in Threads : tpc[t].at = "set" => tpc[t].call \in Ends

\* A functor stays queued when others are queued behind it, ...
LEMMA StaysQueued ==
  ASSUME NEW q \in Seq(Functor), NEW x \in Seq(Functor), EndQueued(q)
  PROVE  EndQueued(q \o x)
<1>1. PICK i \in DOMAIN q : q[i].fn \in Ends
  BY DEF EndQueued
<1>2. i \in DOMAIN (q \o x) /\ (q \o x)[i] = q[i]
  BY ConcatProperties, LenProperties, SMTT(30)
<1> QED BY <1>1, <1>2, Zenon DEF EndQueued

\* ... or one in front of it is taken.
LEMMA StaysInTail ==
  ASSUME NEW q \in Seq(Functor), q # <<>>, EndQueued(q), Head(q).fn \notin Ends
  PROVE  EndQueued(Tail(q))
<1>1. PICK i \in DOMAIN q : q[i].fn \in Ends
  BY DEF EndQueued
<1>2. i \in 1 .. Len(q) /\ Len(q) \in Nat /\ i # 1
  <2>1. Head(q) = q[1]
    OBVIOUS
  <2> QED BY <1>1, <2>1, LenProperties
<1>3. i - 1 \in DOMAIN Tail(q) /\ Tail(q)[i - 1] = q[i]
  BY <1>2, HeadTailProperties, LenProperties, SMTT(30)
<1> QED BY <1>1, <1>3, Zenon DEF EndQueued

\* A functor queued by a thread, and the others before it.
LEMMA GetsQueued ==
  ASSUME NEW q \in Seq(Functor), NEW f \in Functor
  PROVE  /\ EndQueued(q) => EndQueued(Append(q, f))
         /\ f.fn \in Ends => EndQueued(Append(q, f))
<1>1. /\ \A i \in DOMAIN q : i \in DOMAIN Append(q, f) /\ Append(q, f)[i] = q[i]
      /\ Len(q) + 1 \in DOMAIN Append(q, f) /\ Append(q, f)[Len(q) + 1] = f
  BY AppendProperties, LenProperties, SMTT(30)
<1> QED BY <1>1, Zenon DEF EndQueued

\* sendInLoop() neither stops writing nor takes a functor out of the queue.
LEMMA SendLeaves ==
  ASSUME IInv, NEW m \in Nat, NEW q \in Seq(Functor), SendInLoop(m, q)
  PROVE  (writing => writing') /\ (EndQueued(q) => EndQueued(queue'))
<1>1. CASE queue' = q /\ UNCHANGED writing
  BY <1>1
<1>2. CASE \E k \in Nat, x \in Seq(Functor), y \in Seq(Functor) :
             writing' = (writing \/ Size - k > 0) /\ queue' = (q \o x) \o y
  <2>1. PICK x \in Seq(Functor), y \in Seq(Functor) : queue' = (q \o x) \o y
    BY <1>2, Zenon
  <2>2. q \o x \in Seq(Functor)
    BY ConcatProperties
  <2>3. EndQueued(q) => EndQueued(queue')
    BY <2>1, <2>2, StaysQueued, Zenon
  <2>4. writing => writing'
    BY <1>2, Zenon
  <2> QED BY <2>3, <2>4
<1>3. CASE state_ # "kDisconnected"
  <2>1. PICK r \in IF WriteFirst THEN WriteResults(Size) ELSE {[n |-> 0, errno |-> "none"]} :
          IF r.errno = "EPIPE"
          THEN queue' = q /\ UNCHANGED <<writing, sendVars>>
          ELSE LET oldLen == Len(outputBuffer_)
                   remaining == Size - r.n
               IN  /\ writing' = (writing \/ remaining > 0)
                   /\ queue' = q \o (IF remaining = 0 THEN WriteComplete ELSE <<>>)
                                 \o (IF /\ remaining > 0
                                        /\ oldLen + remaining >= highWaterMark_
                                        /\ oldLen < highWaterMark_
                                     THEN HighWater ELSE <<>>)
    BY <1>3, Zenon DEF SendInLoop
  <2>2. WriteComplete \in Seq(Functor) /\ HighWater \in Seq(Functor) /\ <<>> \in Seq(Functor)
    BY DEF WriteComplete, HighWater, Functor
  <2>3. r.n \in Nat
    BY <2>1, WriteResultsType, ConnectionAssumption, SMTT(30)
  <2>4. CASE r.errno = "EPIPE"
    BY <1>1, <2>1, <2>4
  <2>5. CASE r.errno # "EPIPE"
    <3>1. \E x \in Seq(Functor), y \in Seq(Functor) : queue' = (q \o x) \o y
      <4>1. (IF Size - r.n = 0 THEN WriteComplete ELSE <<>>) \in Seq(Functor)
        BY <2>2
      <4> QED BY <2>1, <2>2, <2>5, <4>1, Zenon
    <3>2. writing' = (writing \/ Size - r.n > 0)
      BY <2>1, <2>5, Zenon
    <3> QED BY <1>2, <2>3, <3>1, <3>2, Zenon
  <2> QED BY <2>4, <2>5
<1>4. CASE state_ = "kDisconnected"
  BY <1>1, <1>4 DEF SendInLoop
<1> QED BY <1>3, <1>4
\* What is owed stays owed while none of its parts goes away.
LEMMA OwedStays ==
  ASSUME OwedInv, UNCHANGED <<state_, tpc>>, closed => closed', shut => shut', writing => writing',
         EndQueued(queue) => EndQueued(queue')
  PROVE  OwedInv'
BY Zenon DEF OwedInv, ShutdownOwed, EndComing

\* handleWrite() disables writing when the buffer is drained, and then shuts the
\* write side if a shutdown() has been waiting for it.
LEMMA WriteOwes == ASSUME IInv, OwedInv, HandleWrite PROVE OwedInv'
<1>1. UNCHANGED tpc /\ queue \in Seq(Functor)
  BY DEF HandleWrite, IInv, TypeOK
<1>2. CASE ~writing
  <2>1. UNCHANGED <<state_, writing, closes, queue, shut>>
    BY <1>2 DEF HandleWrite, closeVars
  <2> QED BY <1>1, <2>1, OwedStays, Zenon DEF closed
<1>3. CASE writing
  <2>1. PICK r \in WriteResults(Len(outputBuffer_)) :
          /\ IF r.errno = "EPIPE" THEN HandleClose
             ELSE writing' = (r.n < Len(outputBuffer_)) /\ UNCHANGED <<state_, closes>>
          /\ IF r.n = Len(outputBuffer_)
             THEN queue' = queue \o WriteComplete /\ Drained
             ELSE UNCHANGED <<queue, shut>>
    BY <1>3 DEF HandleWrite
  <2>2. CASE r.errno = "EPIPE"
    <3>1. state_' = "kDisconnected"
      BY <2>1, <2>2, Zenon DEF HandleClose
    <3> QED BY <1>1, <3>1, Zenon DEF OwedInv, ShutdownOwed
  <2>3. CASE r.errno # "EPIPE" /\ r.n = Len(outputBuffer_)
    <3>1. state_' = state_ /\ Drained
      BY <2>1, <2>3, Zenon
    <3>2. state_' = "kDisconnecting" => shut'
      BY <3>1, Zenon DEF Drained
    <3> QED BY <1>1, <3>2, Zenon DEF OwedInv, ShutdownOwed
  <2>4. CASE r.errno # "EPIPE" /\ r.n # Len(outputBuffer_)
    <3>1. r.n < Len(outputBuffer_)
      <4>1. Len(outputBuffer_) \in Nat
        BY LenProperties DEF IInv, TypeOK
      <4>2. r.n \in 0 .. Len(outputBuffer_)
        BY <4>1, WriteResultsType
      <4> QED BY <2>4, <4>1, <4>2
    <3>2. writing' /\ UNCHANGED <<state_, closes, queue, shut>>
      BY <2>1, <2>4, <3>1, Zenon
    <3> QED BY <1>1, <3>2, OwedStays, Zenon DEF closed
  <2> QED BY <2>2, <2>3, <2>4
<1> QED BY <1>2, <1>3

\* shutdownInLoop() shuts the write side or leaves it to handleWrite(), and
\* forceCloseInLoop() closes a connection in kDisconnecting.
LEMMA FunctorOwes == ASSUME IInv, OwedInv, RunFunctor PROVE OwedInv'
<1>1. /\ queue \in Seq(Functor) /\ queue # <<>>
      /\ Head(queue) \in Functor /\ Tail(queue) \in Seq(Functor)
  BY DEF IInv, TypeOK, RunFunctor
<1>2. UNCHANGED tpc
  BY DEF RunFunctor
<1>3. CASE Head(queue).fn = "send"
  <2>1. Head(queue).msg \in Nat
    BY <1>1 DEF Functor
  <2>2. SendInLoop(Head(queue).msg, Tail(queue)) /\ UNCHANGED <<state_, closes, shut>>
    BY <1>3 DEF RunFunctor
  <2>3. (writing => writing') /\ (EndQueued(Tail(queue)) => EndQueued(queue'))
    BY <1>1, <2>1, <2>2, SendLeaves, Zenon
  <2>4. EndQueued(queue) => EndQueued(Tail(queue))
    BY <1>1, <1>3, StaysInTail DEF Ends
  <2> QED BY <1>2, <2>2, <2>3, <2>4, OwedStays, Zenon DEF closed
<1>4. CASE Head(queue).fn = "shutdown"
  <2>1. ShutdownInLoop /\ UNCHANGED closeVars
    BY <1>4 DEF RunFunctor
  <2>2. shut' \/ writing'
    BY <2>1, Zenon DEF ShutdownInLoop, closeVars, IInv, TypeOK
  <2> QED BY <1>2, <2>2, Zenon DEF OwedInv, ShutdownOwed
<1>5. CASE Head(queue).fn = "forceClose"
  <2>1. state_' # "kDisconnecting"
    BY <1>5, Zenon DEF RunFunctor, HandleClose, closeVars
  <2> QED BY <1>2, <2>1, Zenon DEF OwedInv, ShutdownOwed
<1>6. CASE Head(queue).fn \notin {"send", "shutdown", "forceClose"}
  <2>1. queue' = Tail(queue) /\ UNCHANGED <<shut, state_, writing, closes>>
    BY <1>6, Zenon DEF RunFunctor, closeVars
  <2>2. EndQueued(queue) => EndQueued(Tail(queue))
    BY <1>1, <1>6, StaysInTail DEF Ends
  <2> QED BY <1>2, <2>1, <2>2, OwedStays, Zenon DEF closed
<1> QED BY <1>3, <1>4, <1>5, <1>6

\* The steps of another thread: what it sets state_ for it then queues.
LEMMA ThreadOwes ==
  ASSUME IInv, OwedInv, NEW t \in Threads, ThreadCall(t) \/ ThreadStep(t)
  PROVE  OwedInv'
<1>1. UNCHANGED <<writing, closes, shut>>
  BY DEF ThreadCall, ThreadStep, TestSend, TestShutdown, TestForceClose, SetDisconnecting,
         QueueFunctor, loopVars
<1>2. /\ tpc \in [Threads -> [call : {"none", "send", "shutdown", "forceClose"},
                              at : {"idle", "set", "queue"}, msg : Nat]]
      /\ queue \in Seq(Functor)
  BY DEF IInv, TypeOK
<1>3. CASE ThreadCall(t)
  <2>1. PICK c, a, m : /\ tpc' = [tpc EXCEPT ![t] = [call |-> c, at |-> a, msg |-> m]]
                       /\ a = "set" => c \in Ends
    <3>1. "shutdown" \in Ends /\ "forceClose" \in Ends /\ "queue" # "set"
      BY DEF Ends
    <3> QED BY <1>3, <3>1, Zenon DEF ThreadCall, TestSend, TestShutdown, TestForceClose
  <2>2. tpc[t] = Idle /\ UNCHANGED <<state_, queue>>
    BY <1>3 DEF ThreadCall, TestSend, TestShutdown, TestForceClose
  <2>3. ~EndComing(t)
    BY <2>2 DEF EndComing, Idle
  <2>4. \A u \in Threads : u # t => tpc'[u] = tpc[u]
    BY <1>2, <2>1
  <2>5. tpc'[t].at = a /\ tpc'[t].call = c
    BY <1>2, <2>1
  <2>6. ShutdownOwed'
    BY <1>1, <2>2, <2>3, <2>4, Zenon DEF OwedInv, ShutdownOwed, EndComing, closed
  <2> QED BY <2>1, <2>4, <2>5, <2>6, Zenon DEF OwedInv
<1>4. CASE SetDisconnecting(t)
  <2>1. tpc' = [tpc EXCEPT ![t].at = "queue"] /\ tpc[t].at = "set"
    BY <1>4 DEF SetDisconnecting
  <2>2. /\ tpc'[t].at = "queue" /\ tpc'[t].call = tpc[t].call
        /\ \A u \in Threads : u # t => tpc'[u] = tpc[u]
    BY <1>2, <2>1
  <2>3. EndComing(t)'
    BY <2>1, <2>2, Zenon DEF EndComing, OwedInv
  <2>4. \A u \in Threads : tpc'[u].at = "set" => tpc'[u].call \in Ends
    BY <2>2, Zenon DEF OwedInv
  <2> QED BY <2>3, <2>4, Zenon DEF OwedInv, ShutdownOwed
<1>5. CASE QueueFunctor(t)
  <2>1. PICK f : f = [fn |-> tpc[t].call, msg |-> tpc[t].msg]
    BY Zenon
  <2>2. /\ tpc' = [tpc EXCEPT ![t] = Idle] /\ queue' = Append(queue, f) /\ UNCHANGED state_
        /\ tpc[t].at = "queue"
    BY <1>5, <2>1 DEF QueueFunctor
  <2>3. f \in Functor /\ f.fn = tpc[t].call
    BY <1>2, <2>1, <2>2 DEF Functor, IInv, TypeOK
  <2>4. /\ EndQueued(queue) => EndQueued(queue')
        /\ EndComing(t) => EndQueued(queue')
    BY <1>2, <2>2, <2>3, GetsQueued, Zenon DEF EndComing
  <2>5. /\ tpc'[t].at # "set"
        /\ \A u \in Threads : u # t => tpc'[u] = tpc[u]
    BY <1>2, <2>2 DEF Idle
  <2>6. ShutdownOwed'
    BY <1>1, <2>2, <2>4, <2>5, Zenon DEF OwedInv, ShutdownOwed, EndComing, closed
  <2> QED BY <2>5, <2>6, Zenon DEF OwedInv
<1> QED BY <1>3, <1>4, <1>5 DEF ThreadStep

\* Every step keeps what is owed to a shutdown.
LEMMA NextOwes == IInv /\ OwedInv /\ [Next]_vars => OwedInv'
<1> SUFFICES ASSUME IInv, OwedInv, [Next]_vars PROVE OwedInv'
  OBVIOUS
<1>1. CASE UNCHANGED <<state_, writing, closes, queue, tpc, shut>>
  BY <1>1, OwedStays, Zenon DEF closed
<1>2. CASE HandleClose /\ UNCHANGED tpc
  BY <1>2, Zenon DEF HandleClose, OwedInv, ShutdownOwed
<1>3. CASE Poll \/ PeerLeaves \/ HandleError \/ MessageReturns \/ UNCHANGED vars
  BY <1>1, <1>3, Zenon DEF Poll, PeerLeaves, HandleError, MessageReturns, vars, closeVars
<1>4. CASE DispatchClose
  BY <1>1, <1>2, <1>4, Zenon DEF DispatchClose, closeVars
<1>5. CASE HandleRead
  BY <1>1, <1>2, <1>5, Zenon DEF HandleRead, ReadEnd, closeVars
<1>6. CASE LoopSend
  <2>1. used \in Nat /\ queue \in Seq(Functor) /\ SendInLoop(used, queue)
    BY <1>6 DEF LoopSend, IInv, TypeOK
  <2>2. (writing => writing') /\ (EndQueued(queue) => EndQueued(queue'))
    BY <2>1, SendLeaves, Zenon
  <2> QED BY <1>6, <2>2, OwedStays, Zenon DEF LoopSend, closed
<1>7. CASE LoopShutdown
  <2>1. shut' \/ writing'
    BY <1>7, Zenon DEF LoopShutdown, ShutdownInLoop, IInv, TypeOK
  <2> QED BY <1>7, <2>1, Zenon DEF LoopShutdown, OwedInv, ShutdownOwed
<1>8. CASE LoopForceClose
  BY <1>2, <1>8, Zenon DEF LoopForceClose
<1> QED BY <1>3, <1>4, <1>5, <1>6, <1>7, <1>8, WriteOwes, FunctorOwes, ThreadOwes
        DEF Next, Dispatch, LoopCall

\* A shutdown() or forceClose() is never forgotten: until the write side is shut
\* or the connection closed something is left that does it, whichever of the
\* threads and the loop gets there first and however the output drains.
THEOREM ShutdownNotForgotten == Spec => []ShutdownOwed
<1>1. Init => OwedInv
  BY DEF Init, OwedInv, ShutdownOwed, Idle
<1>2. OwedInv => ShutdownOwed
  BY DEF OwedInv
<1> QED BY <1>1, <1>2, Invariance, NextOwes, PTL DEF Spec
=============================================================================
