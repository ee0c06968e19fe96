---------------------------- MODULE AsyncLogging ----------------------------
(***************************************************************************)
(* AsyncLogging (include/AsyncLogging.h, src/base/AsyncLogging.cpp) with   *)
(* FixedBuffer (include/LogStream.h), the LogFile it writes to, and the    *)
(* functions that put it behind Logger (src/base/AsyncLoggingInit.cpp):    *)
(* callers append lines to the current buffer under mutex_, the logging    *)
(* thread takes all full buffers and the current one and writes them to    *)
(* the file outside the lock.                                              *)
(*                                                                         *)
(* A buffer is the sequence of lines in it and the number of their bytes;  *)
(* a BufferPtr is <<>> when null and <<buffer>> otherwise.  Each critical  *)
(* section is one step; the section of threadFunc() that waits on cond_ is *)
(* split where it releases mutex_.                                         *)
(***************************************************************************)
EXTENDS LogFile, Functions

CONSTANTS
  Lengths,   \* the lengths of log lines
  kSize,     \* capacity of a FixedBuffer
  MaxLines,  \* bound: lines logged
  MaxClock,  \* bound: the last clock step
  MaxInits   \* bound: calls of initAsyncLogging()

ASSUME LoggingAssumption ==
  /\ Lengths \subseteq Nat \ {0} /\ kSize \in Nat
  /\ MaxLines \in Nat /\ MaxClock \in Nat /\ MaxInits \in Nat

VARIABLES
  currentBuffer_, nextBuffer_, buffers_, running_,
  pc,              \* where the logging thread is
  signalled,       \* a notify() has woken the logging thread's wait
  newBuffer1, newBuffer2, buffersToWrite, written, output,   \* threadFunc()'s locals
  clock,
  owner,           \* g_asyncLog: "null", "started", "notifying", "joining"
  inits,           \* calls of initAsyncLogging() that made a logger
  async,           \* Logger::output_ is setAsyncOutput()'s lambda
  appended,        \* history: lines passed to append()
  dropped          \* history: lines in the buffers of a logger that was stopped

sharedVars == <<currentBuffer_, nextBuffer_, buffers_>>
threadVars == <<newBuffer1, newBuffer2, buffersToWrite, written, output>>
ownerVars == <<owner, inits, async>>
vars == <<sharedVars, running_, pc, signalled, threadVars, clock, ownerVars, appended, dropped>>

null == <<>>
EmptyBuffer == [data_ |-> <<>>, cur_ |-> 0]

avail(buffer) == kSize - buffer.cur_

\* FixedBuffer::append(): a line that does not fit is dropped.
FixedAppend(buffer, line) ==
  IF avail(buffer) > line.len
  THEN [data_ |-> Append(buffer.data_, line), cur_ |-> buffer.cur_ + line.len]
  ELSE buffer

\* The lines of buffers, one sequence for each, and the set of them.
DataOf(buffers) == [i \in DOMAIN buffers |-> buffers[i].data_]
Lines(stages) == UNION {Range(stages[i]) : i \in DOMAIN stages}

\* AsyncLogging(), for the first time and again after a reset.
Construct ==
  /\ currentBuffer_' = <<EmptyBuffer>> /\ nextBuffer_' = <<EmptyBuffer>> /\ buffers_' = <<>>
  /\ newBuffer1' = null /\ newBuffer2' = null /\ buffersToWrite' = <<>> /\ written' = 0

Init ==
  /\ currentBuffer_ = <<EmptyBuffer>> /\ nextBuffer_ = <<EmptyBuffer>> /\ buffers_ = <<>>
  /\ newBuffer1 = null /\ newBuffer2 = null /\ buffersToWrite = <<>> /\ written = 0
  /\ running_ = FALSE /\ pc = "unborn" /\ signalled = FALSE
  /\ output = NoFile /\ clock = 0
  /\ owner = "null" /\ inits = 0 /\ async = FALSE
  /\ appended = <<>> /\ dropped = {}

-----------------------------------------------------------------------------
MutNotify == signalled

\* cond_.notify() is seen by a thread that waits.
Notify == signalled \/ pc = "waiting"

\* append(), called by any thread.
AppendLine(line) ==
  LET room == avail(Head(currentBuffer_)) > line.len
      fresh == IF nextBuffer_ # null THEN Head(nextBuffer_) ELSE EmptyBuffer
  IN  /\ buffers_' = IF room THEN buffers_ ELSE buffers_ \o currentBuffer_
      /\ nextBuffer_' = IF room THEN nextBuffer_ ELSE null
      /\ currentBuffer_' = <<FixedAppend(IF room THEN Head(currentBuffer_) ELSE fresh, line)>>
      /\ signalled' = IF room THEN signalled ELSE Notify

\* Logger::log() through the lambda, which uses g_asyncLog as it finds it: there
\* is no logger after a reset, and the process ends.  A reset between the read of
\* g_asyncLog and the end of append() is left out, and so are the lines logged to
\* stdout before setAsyncOutput().
LogLine ==
  /\ async /\ Len(appended) < MaxLines
  /\ IF owner = "null"
     THEN /\ pc' = "aborted"
          /\ UNCHANGED <<sharedVars, signalled, appended>>
     ELSE /\ \E n \in Lengths :
               LET line == [id |-> Len(appended) + 1, len |-> n]
               IN  AppendLine(line) /\ appended' = Append(appended, line)
          /\ UNCHANGED pc
  /\ UNCHANGED <<running_, threadVars, clock, ownerVars, dropped>>

\* start(), in the initAsyncLogging() that makes the logger.
InitAsyncLogging ==
  /\ owner = "null" /\ inits < MaxInits
  /\ owner' = "started" /\ inits' = inits + 1
  /\ Construct
  /\ running_' = TRUE /\ pc' = "entry" /\ signalled' = FALSE
  /\ UNCHANGED <<output, clock, async, appended, dropped>>

SetAsyncOutput ==
  /\ owner = "started" /\ ~async
  /\ async' = TRUE
  /\ UNCHANGED <<sharedVars, running_, pc, signalled, threadVars, clock, owner, inits, appended,
                 dropped>>

\* resetAsyncLogging(): stop() clears running_, then notifies without holding
\* mutex_, then joins; then the logger is destroyed.  output_ is left as it is.
Stop ==
  /\ owner = "started"
  /\ owner' = "notifying"
  /\ running_' = FALSE
  /\ UNCHANGED <<sharedVars, pc, signalled, threadVars, clock, inits, async, appended, dropped>>

StopNotify ==
  /\ owner = "notifying"
  /\ owner' = "joining"
  /\ signalled' = Notify
  /\ UNCHANGED <<sharedVars, running_, pc, threadVars, clock, inits, async, appended, dropped>>

Join ==
  /\ owner = "joining" /\ pc = "done"
  /\ owner' = "null" /\ pc' = "unborn"
  /\ dropped' = dropped \cup Lines(DataOf(buffers_ \o currentBuffer_))
  /\ currentBuffer_' = <<EmptyBuffer>> /\ buffers_' = <<>>
  /\ UNCHANGED <<nextBuffer_, running_, signalled, threadVars, clock, inits, async, appended>>

Tick ==
  /\ clock < MaxClock
  /\ clock' = clock + 1
  /\ UNCHANGED <<sharedVars, running_, pc, signalled, threadVars, ownerVars, appended, dropped>>

-----------------------------------------------------------------------------
(* threadFunc().                                                             *)
otherVars == <<running_, ownerVars, appended, dropped>>

\* While a new file is made the clock may turn.
LaterClocks == clock .. (IF clock < MaxClock THEN clock + 1 ELSE clock)

\* assert(running_ == true), then the LogFile's constructor.
Enter ==
  /\ pc = "entry"
  /\ pc' = IF running_ THEN "while" ELSE "aborted"
  /\ newBuffer1' = <<EmptyBuffer>> /\ newBuffer2' = <<EmptyBuffer>>
  /\ clock' \in LaterClocks
  /\ output' \in Rolled([NoFile EXCEPT !.disk = output.disk, !.lost = output.lost],
                        clock, clock')
  /\ UNCHANGED <<sharedVars, signalled, buffersToWrite, written, otherVars>>

\* At the end the file is flushed and closed.
While ==
  /\ pc = "while"
  /\ pc' = IF running_ THEN "lock" ELSE "done"
  /\ output' = IF running_ THEN output ELSE flush(output)
  /\ UNCHANGED <<sharedVars, signalled, newBuffer1, newBuffer2, buffersToWrite, written, clock,
                 otherVars>>

Wait ==
  /\ pc = "lock" /\ buffers_ = <<>>
  /\ pc' = "waiting"
  /\ signalled' = FALSE
  /\ UNCHANGED <<sharedVars, threadVars, clock, otherVars>>

MutWaitOver == pc = "waiting" /\ signalled

\* The wait ends by a notify(), the timeout or spuriously.
WaitOver == pc = "waiting"

MutRefillNext == nextBuffer_' = newBuffer2 /\ newBuffer2' = null

RefillNext ==
  /\ nextBuffer_' = IF nextBuffer_ = null THEN newBuffer2 ELSE nextBuffer_
  /\ newBuffer2' = IF nextBuffer_ = null THEN null ELSE newBuffer2

\* The rest of the critical section.
Take ==
  /\ WaitOver \/ (pc = "lock" /\ buffers_ # <<>>)
  /\ pc' = "write" /\ signalled' = FALSE /\ written' = 0
  /\ buffersToWrite' = buffers_ \o currentBuffer_
  /\ buffers_' = <<>>
  /\ currentBuffer_' = newBuffer1 /\ newBuffer1' = null
  /\ RefillNext
  /\ UNCHANGED <<output, clock, otherVars>>

WriteBuffer ==
  /\ pc = "write" /\ written < Len(buffersToWrite)
  /\ written' = written + 1
  /\ clock' \in LaterClocks
  /\ LET buffer == buffersToWrite[written + 1]
     IN  output' \in append(output, buffer.data_, buffer.cur_, clock, clock')
  /\ UNCHANGED <<sharedVars, pc, signalled, newBuffer1, newBuffer2, buffersToWrite, otherVars>>

\* What resize(2) keeps, and the spare buffers to be refilled from it.
Kept == SubSeq(buffersToWrite, 1, IF Len(buffersToWrite) > 2 THEN 2 ELSE Len(buffersToWrite))
Missing == 2 - Len(newBuffer1 \o newBuffer2)

MutEndFlush == output
EndFlush == flush(output)

\* The null ones of newBuffer1 and newBuffer2 become written buffers, emptied
\* by reset(); each asserts that one is left.  Then output.flush().
Recycle ==
  /\ pc = "write" /\ written = Len(buffersToWrite)
  /\ pc' = IF Missing > Len(Kept) THEN "aborted" ELSE "while"
  /\ newBuffer1' = <<EmptyBuffer>> /\ newBuffer2' = <<EmptyBuffer>>
  /\ buffersToWrite' = <<>> /\ written' = 0
  /\ output' = EndFlush
  /\ UNCHANGED <<sharedVars, signalled, clock, otherVars>>

-----------------------------------------------------------------------------
ThreadStep == Enter \/ While \/ Wait \/ Take \/ WriteBuffer \/ Recycle
OwnerStep == InitAsyncLogging \/ SetAsyncOutput \/ Stop \/ StopNotify \/ Join

Next == pc # "aborted" /\ (ThreadStep \/ OwnerStep \/ LogLine \/ Tick)

Spec == Init /\ [][Next]_vars

(* The logging thread is scheduled and its wait times out after              *)
(* flushInterval_; stop() is not blocked before the join.                    *)
Fairness == WF_vars(ThreadStep) /\ WF_vars(pc # "aborted" /\ (StopNotify \/ Join))
FairSpec == Spec /\ Fairness

-----------------------------------------------------------------------------
OnDisk == [i \in DOMAIN output.disk |-> output.disk[i].line]

\* Where lines are, from the file to the current buffer.
Unwritten ==
  SubSeq(buffersToWrite, written + 1, Len(buffersToWrite)) \o buffers_ \o currentBuffer_
Stages == <<OnDisk \o output.buffer_>> \o DataOf(Unwritten)

\* Lines are numbered as they are logged.  Each of the stages holds them in this
\* order, and a stage only lines that come before those of the next.
Ordered(stages) ==
  /\ \A s \in DOMAIN stages : \A i, j \in DOMAIN stages[s] :
       i < j => stages[s][i].id < stages[s][j].id
  /\ \A s, t \in DOMAIN stages :
       s < t => \A x \in Range(stages[s]), y \in Range(stages[t]) : x.id < y.id

\* threadFunc()'s assertions that a written buffer is left to refill
\* newBuffer1 and newBuffer2 from never fail (AsyncLogging.cpp:74 and :81), and
\* append() and threadFunc() never find currentBuffer_ null.
SparesRefilled ==
  /\ Len(currentBuffer_) = 1
  /\ pc = "write" => Missing <= Len(Kept)

\* What the kernel has, then stdio's buffer, the buffers still to be written and
\* the current one hold every line passed to append() that is shorter than a
\* buffer, once and in order, over all files: none goes missing or out of order
\* at a hand-over or when a file is replaced, also by one of the same name.  A
\* process that dies at any moment leaves a prefix of its log.  Excepted are
\* lines written while no file could be opened and those a stop() left behind.
LogInOrder ==
  /\ Ordered(Stages)
  /\ Lines(Stages) = {line \in Range(appended) :
                        line.len < kSize /\ line \notin dropped \cup output.lost}

\* A crash between two batches loses nothing that was taken for writing: each
\* batch ends with a flush, and the thread never waits over unflushed lines.
FlushedBetweenBatches == pc # "write" => output.buffer_ = <<>>

\* A file is replaced by the write that takes it past rollSize_ and takes fewer
\* than checkEveryN_ writes once its period is over.  Counted are the bytes since
\* it was opened (writtenBytes_): a file whose name repeats is opened again with
\* what it has, and may get longer than rollSize_.  After an fopen() that failed
\* writtenBytes_ stays 0, so the logger is without a file, and its lines are
\* lost, until the period is over and fewer than checkEveryN_ writes more.
RolledInTime == output.writtenBytes_ <= rollSize_ /\ output.late < checkEveryN_

\* The logging thread does not sleep on full buffers: append()'s notify() has
\* reached it, so they are written without waiting for the flush interval.
NoSleepOnBacklog == pc = "waiting" /\ buffers_ # <<>> => signalled

\* stop() returns, whether or not its notify() found the thread waiting.
StopReturns == owner = "notifying" ~> owner = "null" \/ pc = "aborted"

\* While the logger is not stopped, an appended line reaches the kernel, unless
\* no file could be opened.
LineWritten ==
  \A i \in 1 .. MaxLines :
    (running_ /\ i <= Len(appended) /\ appended[i].len < kSize)
      ~> (~running_ \/ \E line \in Range(OnDisk) \cup output.lost \cup dropped : line.id = i)
=============================================================================
