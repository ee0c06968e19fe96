-------------------------- MODULE AsyncLoggingProofs --------------------------
(***************************************************************************)
(* Proofs about AsyncLogging and the LogFile it writes to, for any size of *)
(* a buffer, any lines and any number of them, however often the logger is *)
(* stopped and made again: its buffers suffice, its file is flushed and    *)
(* rolled, and the lines reach the file in their order.                    *)
(***************************************************************************)
EXTENDS AsyncLogging, SequenceTheorems, TLAPS

\* Most leaves are about sets and functions only; the others name their prover.
USE Zenon

\* Between a Take and the Recycle after it the spare buffers are lent out.
AtWork == {"while", "lock", "waiting"}

Line == [id : Nat, len : Lengths]
Buffer == [data_ : Seq(Line), cur_ : Nat]
Buffers == Seq(Buffer)

\* The BufferPtrs and the vectors of them.
TypeOK ==
  /\ appended \in Seq(Line)
  /\ currentBuffer_ \in Buffers /\ Len(currentBuffer_) = 1
  /\ nextBuffer_ \in Buffers /\ (nextBuffer_ = null \/ Len(nextBuffer_) = 1)
  /\ buffers_ \in Buffers /\ buffersToWrite \in Buffers
  /\ written \in 0 .. Len(buffersToWrite)
  /\ newBuffer1 \in Buffers /\ newBuffer2 \in Buffers

\* Where threadFunc()'s two spare buffers are.  newBuffer2 is given away only in
\* place of a nextBuffer_ that append() has used, and then there is a full buffer.
SparesInv ==
  /\ pc \in AtWork => Len(newBuffer1) = 1 /\ Len(newBuffer2) = 1
  /\ pc = "write" => /\ newBuffer1 = null /\ Len(buffersToWrite) >= 1
                     /\ \/ Len(newBuffer2) = 1
                        \/ newBuffer2 = null /\ Len(buffersToWrite) >= 2
  /\ pc \in AtWork \cup {"entry", "write"} /\ nextBuffer_ = null => Len(buffers_) >= 1

\* The inductive invariant.
IInv == TypeOK /\ SparesInv /\ NoSleepOnBacklog

-----------------------------------------------------------------------------
\* Vectors of buffers: one after the other, and the first of one.
LEMMA Vectors ==
  ASSUME NEW s \in Buffers, NEW t \in Buffers
  PROVE  /\ s \o t \in Buffers /\ Len(s \o t) = Len(s) + Len(t)
         /\ Len(s) \in Nat /\ (Len(s) = 1 => Head(s) \in Buffer)
<1> DEFINE S == Buffer
<1> HIDE DEF S
<1>1. s \in Seq(S) /\ t \in Seq(S)
  BY DEF Buffers, S
<1>2. s \o t \in Seq(S) /\ Len(s \o t) = Len(s) + Len(t) /\ Len(s) \in Nat
  BY <1>1, ConcatProperties, LenProperties
<1>3. Len(s) = 1 => Head(s) \in S
  BY <1>1, SMTT(60)
<1> QED
  BY <1>2, <1>3 DEF Buffers, S

\* The vector that append() and threadFunc() make of the full buffers and the
\* current one.
LEMMA Joined ==
  ASSUME IInv
  PROVE  /\ buffers_ \o currentBuffer_ \in Buffers /\ Len(buffers_) \in Nat
         /\ Len(buffers_ \o currentBuffer_) = Len(buffers_) + 1
<1>1. buffers_ \in Buffers /\ currentBuffer_ \in Buffers /\ Len(currentBuffer_) = 1
  BY DEF IInv, TypeOK
<1> QED
  BY <1>1, Vectors

\* A buffer that is new or was reset().
LEMMA EmptyType == EmptyBuffer \in Buffer
  BY SMT DEF EmptyBuffer, Buffer

\* FixedBuffer::append() makes a buffer of a buffer.
LEMMA FixedAppendType ==
  ASSUME NEW b \in Buffer, NEW line \in Line
  PROVE  FixedAppend(b, line) \in Buffer
<1>1. b.data_ \in Seq(Line) /\ b.cur_ \in Nat /\ line.len \in Nat
  BY LoggingAssumption DEF Buffer, Line
<1>2. Append(b.data_, line) \in Seq(Line) /\ b.cur_ + line.len \in Nat
  BY <1>1, SMT
<1> QED
  BY <1>2 DEF FixedAppend, Buffer

\* No logger exists yet.
LEMMA InitHolds == Init => IInv
  BY EmptyType, SMT DEF Init, IInv, TypeOK, SparesInv, NoSleepOnBacklog, AtWork, null, Buffers, Line

\* append() uses up nextBuffer_ only when it adds a full buffer, and then notifies.
LEMMA LogKeeps == ASSUME IInv, LogLine PROVE IInv'
<1> USE DEF AtWork, null
<1>1. CASE owner = "null"
  BY <1>1 DEF LogLine, IInv, TypeOK, SparesInv, NoSleepOnBacklog, sharedVars, threadVars
<1>2. CASE owner # "null"
  <2>1. PICK line \in Line : AppendLine(line) /\ appended' = Append(appended, line)
    <3>1. PICK n \in Lengths : LET line == [id |-> Len(appended) + 1, len |-> n]
                               IN  AppendLine(line) /\ appended' = Append(appended, line)
      BY <1>2 DEF LogLine
    <3>2. Len(appended) + 1 \in Nat
      BY SMT DEF IInv, TypeOK
    <3>3. [id |-> Len(appended) + 1, len |-> n] \in Line
      BY <3>2 DEF Line
    <3> QED
      BY <3>1, <3>3
  <2>2. UNCHANGED <<pc, newBuffer1, newBuffer2, buffersToWrite, written>>
    BY <1>2 DEF LogLine, threadVars
  <2> DEFINE current == Head(currentBuffer_)
             fresh == IF nextBuffer_ # null THEN Head(nextBuffer_) ELSE EmptyBuffer
  <2>3. current \in Buffer /\ fresh \in Buffer
    BY EmptyType, Vectors DEF IInv, TypeOK
  <2>4. FixedAppend(current, line) \in Buffer /\ FixedAppend(fresh, line) \in Buffer
    BY <2>3, FixedAppendType
  <2>5. appended' \in Seq(Line)
    BY <2>1, SMT DEF IInv, TypeOK
  <2> HIDE DEF current, fresh
  <2>6. CASE avail(Head(currentBuffer_)) > line.len
    <3>1. /\ UNCHANGED <<buffers_, nextBuffer_, signalled>>
          /\ currentBuffer_' = <<FixedAppend(current, line)>>
      BY <2>1, <2>6 DEF AppendLine, current
    <3>2. currentBuffer_' \in Buffers /\ Len(currentBuffer_') = 1
      BY <2>4, <3>1, SMT DEF Buffers
    <3> QED
      BY <2>2, <2>5, <3>1, <3>2 DEF IInv, TypeOK, SparesInv, NoSleepOnBacklog
  <2>7. CASE ~(avail(Head(currentBuffer_)) > line.len)
    <3>1. /\ buffers_' = buffers_ \o currentBuffer_ /\ nextBuffer_' = null
          /\ currentBuffer_' = <<FixedAppend(fresh, line)>>
      BY <2>1, <2>7 DEF AppendLine, fresh
    <3>2. currentBuffer_' \in Buffers /\ Len(currentBuffer_') = 1
      BY <2>4, <3>1, SMT DEF Buffers
    <3>3. buffers_' \in Buffers /\ Len(buffers_') = Len(buffers_) + 1 /\ Len(buffers_) \in Nat
      BY <3>1, Joined
    <3>4. nextBuffer_' \in Buffers
      BY <3>1, SMT DEF Buffers
    <3>5. pc = "waiting" => signalled'
      BY <2>1, <2>7 DEF AppendLine, Notify
    <3> QED
      BY <2>2, <2>5, <3>1, <3>2, <3>3, <3>4, <3>5, SMT DEF IInv, TypeOK, SparesInv, NoSleepOnBacklog
  <2> QED
    BY <2>6, <2>7
<1> QED
  BY <1>1, <1>2

\* threadFunc() lends out its spare buffers and gets them back.
LEMMA ThreadKeeps == ASSUME IInv, ThreadStep PROVE IInv'
<1> USE EmptyType DEF AtWork, null, Buffers, otherVars, sharedVars, threadVars
<1>1. CASE Enter
  BY <1>1, SMT DEF Enter, IInv, TypeOK, SparesInv, NoSleepOnBacklog
<1>2. CASE While
  BY <1>2 DEF While, IInv, TypeOK, SparesInv, NoSleepOnBacklog
<1>3. CASE Wait
  BY <1>3 DEF Wait, IInv, TypeOK, SparesInv, NoSleepOnBacklog
<1>4. CASE Take
  <2>1. /\ pc \in {"lock", "waiting"} /\ pc' = "write"
        /\ buffersToWrite' = buffers_ \o currentBuffer_ /\ buffers_' = <<>>
        /\ currentBuffer_' = newBuffer1 /\ newBuffer1' = null
    BY <1>4 DEF Take, WaitOver
  <2>2. /\ buffersToWrite' \in Buffers
        /\ Len(buffersToWrite') = Len(buffers_) + 1 /\ Len(buffers_) \in Nat
    BY <2>1, Joined
  <2>3. CASE nextBuffer_ = null
    BY <1>4, <2>1, <2>2, <2>3, SMT
    DEF Take, RefillNext, IInv, TypeOK, SparesInv, NoSleepOnBacklog
  <2>4. CASE nextBuffer_ # null
    BY <1>4, <2>1, <2>2, <2>4, SMT
    DEF Take, RefillNext, IInv, TypeOK, SparesInv, NoSleepOnBacklog
  <2> QED
    BY <2>3, <2>4
<1>5. CASE WriteBuffer
  BY <1>5, SMT DEF WriteBuffer, IInv, TypeOK, SparesInv, NoSleepOnBacklog
<1>6. CASE Recycle
  BY <1>6, SMT DEF Recycle, IInv, TypeOK, SparesInv, NoSleepOnBacklog
<1> QED
  BY <1>1, <1>2, <1>3, <1>4, <1>5, <1>6 DEF ThreadStep

\* initAsyncLogging(), setAsyncOutput() and resetAsyncLogging().
LEMMA OwnerKeeps == ASSUME IInv, OwnerStep PROVE IInv'
<1> USE EmptyType DEF AtWork, null, Buffers, sharedVars, threadVars
<1>1. CASE InitAsyncLogging
  BY <1>1, SMT DEF InitAsyncLogging, Construct, IInv, TypeOK, SparesInv, NoSleepOnBacklog
<1>2. CASE SetAsyncOutput \/ Stop
  BY <1>2 DEF SetAsyncOutput, Stop, IInv, TypeOK, SparesInv, NoSleepOnBacklog
<1>3. CASE StopNotify
  BY <1>3 DEF StopNotify, Notify, IInv, TypeOK, SparesInv, NoSleepOnBacklog
<1>4. CASE Join
  BY <1>4, SMT DEF Join, IInv, TypeOK, SparesInv, NoSleepOnBacklog
<1> QED
  BY <1>1, <1>2, <1>3, <1>4 DEF OwnerStep

\* Every step keeps the invariant.
LEMMA NextKeeps == IInv /\ [Next]_vars => IInv'
<1> SUFFICES ASSUME IInv, [Next]_vars PROVE IInv'
  OBVIOUS
<1>1. CASE Tick \/ UNCHANGED vars
  BY <1>1
  DEF Tick, vars, sharedVars, threadVars, IInv, TypeOK, SparesInv, NoSleepOnBacklog
<1> QED
  BY <1>1, LogKeeps, ThreadKeeps, OwnerKeeps DEF Next

-----------------------------------------------------------------------------
\* The invariant holds throughout.
THEOREM Invariance == Spec => []IInv
  BY InitHolds, NextKeeps, PTL DEF Spec

\* However many buffers append() fills meanwhile, and however few: after a batch
\* enough written buffers are left to refill both spare ones, so the assertions of
\* AsyncLogging.cpp:74 and :81 hold and currentBuffer_ is never null.
THEOREM SparesSuffice == Spec => []SparesRefilled
<1>1. ASSUME IInv, pc = "write" PROVE Missing <= Len(Kept)
  <2>1. Len(Kept) = IF Len(buffersToWrite) > 2 THEN 2 ELSE Len(buffersToWrite)
    BY SMT DEF IInv, TypeOK, Kept, Buffers
  <2>2. Missing = 2 - Len(newBuffer2)
    BY <1>1, SMT DEF IInv, TypeOK, SparesInv, Missing, null
  <2>3. /\ Len(buffersToWrite) \in Nat /\ Len(buffersToWrite) >= 1
        /\ Len(newBuffer2) = 1 \/ (newBuffer2 = <<>> /\ Len(buffersToWrite) >= 2)
    BY <1>1, Vectors DEF IInv, TypeOK, SparesInv, null
  <2>4. Len(<<>>) = 0
    BY SMT
  <2>5. Len(newBuffer2) = 1 \/ (Len(newBuffer2) = 0 /\ Len(buffersToWrite) >= 2)
    BY <2>3, <2>4
  <2> QED
    BY <2>1, <2>2, <2>3, <2>5, SMT
<1>2. IInv => SparesRefilled
  BY <1>1 DEF IInv, TypeOK, SparesRefilled
<1> QED
  BY <1>2, Invariance, PTL

\* The logging thread never waits out the flush interval over full buffers.
THEOREM BacklogWakes == Spec => []NoSleepOnBacklog
<1>1. IInv => NoSleepOnBacklog
  BY DEF IInv
<1> QED
  BY <1>1, Invariance, PTL
-----------------------------------------------------------------------------
(* The file.                                                                 *)

Name == Seq(Int)
Entry == [name : Name, line : Line]
File ==
  [name : Name, fp_ : BOOLEAN, writtenBytes_ : Nat, buffer_ : Seq(Line), count_ : Nat,
   startOfPeriod_ : Int, lastRoll_ : Int, disk : Seq(Entry), lost : SUBSET Line, late : Nat]

\* What was written to a file and its predecessors, be it in stdio's buffer.
LinesOf(entries) == [i \in DOMAIN entries |-> entries[i].line]
InFile(f) == LinesOf(f.disk) \o f.buffer_

\* A file in use at time t: writes are counted from the last check on, and one
\* that is late has found its period over, which it stays.
InTime(f, t) ==
  /\ f.writtenBytes_ <= rollSize_
  /\ f.count_ < checkEveryN_ /\ f.late <= f.count_
  /\ f.startOfPeriod_ <= Period(t)
  /\ f.late > 0 => f.startOfPeriod_ < Period(t)

\* What flushing and rolling leave as it is.
SameLog(f, g) == InFile(g) = InFile(f) /\ g.lost = f.lost

\* Clocks: periods are whole numbers and follow each other.
LEMMA Periods ==
  ASSUME NEW t \in Nat, NEW u \in Nat, t <= u
  PROVE  /\ Time(t) \in Int /\ Period(t) \in Int /\ Period(u) \in Int /\ Period(t) <= Period(u)
         /\ getLogFileName(t, u) \in Name
<1>1. Micros \in Nat \ {0} /\ kRollPerSeconds \in Nat \ {0}
  BY LogFileAssumption
<1>2. PICK m \in Nat \ {0}, k \in Nat \ {0} : m = Micros /\ k = kRollPerSeconds
  BY <1>1
<1>3. t \div m \in Nat /\ u \div m \in Nat /\ t \div m <= u \div m /\ u % m \in Int
  BY SMT
<1>4. PICK a \in Nat, b \in Nat : a = t \div m /\ b = u \div m /\ a <= b
  BY <1>3
<1>5. a \div k \in Int /\ b \div k \in Int /\ a \div k <= b \div k
  BY <1>4, SMT
<1>6. <<a, u % m>> \in Seq(Int)
  BY <1>3, <1>4, SMT
<1> QED
  BY <1>2, <1>4, <1>5, <1>6, SMT DEF Time, Period, getLogFileName, Name

\* The lines of what the kernel has.
LEMMA LinesOfType ==
  ASSUME NEW d \in Seq(Entry)
  PROVE  /\ LinesOf(d) \in Seq(Line) /\ Len(LinesOf(d)) = Len(d)
         /\ \A i \in 1 .. Len(d) : LinesOf(d)[i] = d[i].line
<1>1. Len(d) \in Nat /\ DOMAIN d = 1 .. Len(d)
  BY LenProperties
<1>2. \A i \in 1 .. Len(d) : d[i].line \in Line
  <2>1. ASSUME NEW i \in 1 .. Len(d) PROVE d[i] \in Entry
    BY ElementOfSeq
  <2> QED
    BY <2>1 DEF Entry
<1> QED
  BY <1>1, <1>2, SMT DEF LinesOf

\* Their lines follow each other as the entries do.
LEMMA LinesOfConcat ==
  ASSUME NEW d \in Seq(Entry), NEW e \in Seq(Entry)
  PROVE  LinesOf(d \o e) = LinesOf(d) \o LinesOf(e)
<1>1. /\ d \o e \in Seq(Entry) /\ Len(d \o e) = Len(d) + Len(e)
      /\ \A i \in 1 .. Len(d) + Len(e) : (d \o e)[i] = IF i <= Len(d) THEN d[i] ELSE e[i - Len(d)]
  BY ConcatProperties
<1>2. PICK p \in Seq(Line), q \in Seq(Line), r \in Seq(Line) :
        /\ p = LinesOf(d \o e) /\ Len(p) = Len(d) + Len(e)
        /\ \A i \in 1 .. Len(d) + Len(e) : p[i] = (d \o e)[i].line
        /\ q = LinesOf(d) /\ Len(q) = Len(d) /\ \A i \in 1 .. Len(d) : q[i] = d[i].line
        /\ r = LinesOf(e) /\ Len(r) = Len(e) /\ \A i \in 1 .. Len(e) : r[i] = e[i].line
  <2>1. /\ LinesOf(d \o e) \in Seq(Line) /\ Len(LinesOf(d \o e)) = Len(d \o e)
        /\ \A i \in 1 .. Len(d \o e) : LinesOf(d \o e)[i] = (d \o e)[i].line
    BY <1>1, LinesOfType
  <2> QED
    BY <1>1, <2>1, LinesOfType, SMT
<1>3. /\ q \o r \in Seq(Line) /\ Len(q \o r) = Len(q) + Len(r)
      /\ \A i \in 1 .. Len(q) + Len(r) : (q \o r)[i] = IF i <= Len(q) THEN q[i] ELSE r[i - Len(q)]
  BY ConcatProperties
<1>4. Len(d) \in Nat /\ Len(e) \in Nat
  BY LenProperties
<1>5. ASSUME NEW i \in 1 .. Len(p) PROVE p[i] = (q \o r)[i]
  <2>1. i \in 1 .. Len(d) + Len(e) /\ i \in 1 .. Len(q) + Len(r)
    BY <1>2
  <2>2. CASE i <= Len(d)
    BY <1>1, <1>2, <1>3, <1>4, <2>1, <2>2, SMTT(30)
  <2>3. CASE i > Len(d)
    <3>1. i - Len(d) \in 1 .. Len(e)
      BY <1>4, <2>1, <2>3, SMT
    <3>2. p[i] = e[i - Len(d)].line
      BY <1>1, <1>2, <1>4, <2>1, <2>3, SMT
    <3>3. (q \o r)[i] = r[i - Len(d)]
      BY <1>2, <1>3, <1>4, <2>1, <2>3, SMT
    <3> QED
      BY <1>2, <3>1, <3>2, <3>3
  <2> QED
    BY <1>4, <2>1, <2>2, <2>3, SMT
<1>6. p = q \o r
  BY <1>2, <1>3, <1>5, SeqEqual, SMT
<1> QED
  BY <1>2, <1>6

\* Naming lines keeps them.
LEMMA NamedIs ==
  ASSUME NEW x \in Seq(Line), NEW name \in Name
  PROVE  Named(x, name) \in Seq(Entry) /\ LinesOf(Named(x, name)) = x
<1>1. Len(x) \in Nat /\ DOMAIN x = 1 .. Len(x) /\ x \in [1 .. Len(x) -> Line]
  BY LenProperties
<1>2. \A i \in 1 .. Len(x) : [name |-> name, line |-> x[i]] \in Entry
  BY <1>1 DEF Entry
<1>3. Named(x, name) = [i \in 1 .. Len(x) |-> [name |-> name, line |-> x[i]]]
  BY <1>1 DEF Named
<1>4. Named(x, name) \in Seq(Entry)
  BY <1>1, <1>2, <1>3, SMT
<1>5. LinesOf(Named(x, name)) = [i \in 1 .. Len(x) |-> x[i]]
  BY <1>3, SMT DEF LinesOf
<1> QED
  BY <1>1, <1>4, <1>5

\* Lines in three parts.
LEMMA ThreeParts ==
  ASSUME NEW x \in Seq(Line), NEW y \in Seq(Line), NEW z \in Seq(Line)
  PROVE  (x \o y) \o z = x \o (y \o z)
  BY ConcatAssociative, SMT

\* stdio passes lines on: only where they are changes.
LEMMA FlushedIs ==
  ASSUME NEW f \in File, NEW k \in 0 .. Len(f.buffer_)
  PROVE  /\ Flushed(f, k) \in File /\ SameLog(f, Flushed(f, k))
         /\ Flushed(f, k).buffer_ = SubSeq(f.buffer_, k + 1, Len(f.buffer_))
         /\ Flushed(f, k).writtenBytes_ = f.writtenBytes_ /\ Flushed(f, k).count_ = f.count_
         /\ Flushed(f, k).startOfPeriod_ = f.startOfPeriod_ /\ Flushed(f, k).late = f.late
         /\ Flushed(f, k).fp_ = f.fp_
<1>1. PICK disk \in Seq(Entry), buf \in Seq(Line), name \in Name :
        disk = f.disk /\ buf = f.buffer_ /\ name = f.name
  BY DEF File
<1>2. PICK x \in Seq(Line), y \in Seq(Line) :
        x = SubSeq(buf, 1, k) /\ y = SubSeq(buf, k + 1, Len(buf)) /\ x \o y = buf
  <2>1. Len(buf) \in Nat /\ 1 \in 1 .. Len(buf) + 1 /\ k \in 1 - 1 .. Len(buf) /\ Len(buf) \in k .. Len(buf)
    BY <1>1, LenProperties, SMT
  <2>2. SubSeq(buf, 1, k) \o SubSeq(buf, k + 1, Len(buf)) = SubSeq(buf, 1, Len(buf))
    BY <2>1, ConcatAdjacentSubSeq
  <2>3. SubSeq(buf, 1, Len(buf)) = buf
    BY SMT
  <2>4. SubSeq(buf, 1, k) \in Seq(Line) /\ SubSeq(buf, k + 1, Len(buf)) \in Seq(Line)
    BY <2>1, SMT
  <2> QED
    BY <2>2, <2>3, <2>4
<1>3. PICK more \in Seq(Entry) : more = Named(x, name) /\ LinesOf(more) = x
  BY NamedIs
<1>4. Flushed(f, k) = [f EXCEPT !.disk = disk \o more, !.buffer_ = y]
  BY <1>1, <1>2, <1>3 DEF Flushed
<1>5. disk \o more \in Seq(Entry) /\ LinesOf(disk \o more) = LinesOf(disk) \o x
  <2>1. disk \o more \in Seq(Entry)
    BY ConcatProperties
  <2>2. LinesOf(disk \o more) = LinesOf(disk) \o LinesOf(more)
    BY LinesOfConcat
  <2> QED
    BY <1>3, <2>1, <2>2
<1>6. /\ Flushed(f, k) \in File
      /\ Flushed(f, k).disk = disk \o more /\ Flushed(f, k).buffer_ = y /\ Flushed(f, k).lost = f.lost
      /\ Flushed(f, k).writtenBytes_ = f.writtenBytes_ /\ Flushed(f, k).count_ = f.count_
      /\ Flushed(f, k).startOfPeriod_ = f.startOfPeriod_ /\ Flushed(f, k).late = f.late
      /\ Flushed(f, k).fp_ = f.fp_
  BY <1>4, <1>5 DEF File
<1>7. (LinesOf(disk) \o x) \o y = LinesOf(disk) \o (x \o y)
  <2>1. PICK d \in Seq(Line) : d = LinesOf(disk)
    BY LinesOfType
  <2>2. (d \o x) \o y = d \o (x \o y)
    BY ThreeParts
  <2> QED
    BY <2>1, <2>2
<1>8. SameLog(f, Flushed(f, k))
  BY <1>1, <1>2, <1>5, <1>6, <1>7, Zenon DEF SameLog, InFile
<1> QED
  BY <1>1, <1>2, <1>6, <1>8

\* flush() empties stdio's buffer.
LEMMA FlushIs ==
  ASSUME NEW f \in File
  PROVE  /\ flush(f) \in File /\ SameLog(f, flush(f)) /\ flush(f).buffer_ = <<>>
         /\ \A t \in Nat : InTime(f, t) => InTime(flush(f), t)
<1>1. f.buffer_ \in Seq(Line) /\ Len(f.buffer_) \in 0 .. Len(f.buffer_)
  BY LenProperties, SMT DEF File
<1>2. SubSeq(f.buffer_, Len(f.buffer_) + 1, Len(f.buffer_)) = <<>>
  BY <1>1, SMT
<1>3. PICK g \in File : g = flush(f) /\ SameLog(f, g) /\ g.buffer_ = <<>>
         /\ g.writtenBytes_ = f.writtenBytes_ /\ g.count_ = f.count_
         /\ g.startOfPeriod_ = f.startOfPeriod_ /\ g.late = f.late
  BY <1>1, <1>2, FlushedIs DEF flush
<1> QED
  BY <1>3 DEF InTime

\* rollFile() flushes the old file; the new one is in time.
LEMMA RolledIs ==
  ASSUME NEW f \in File, NEW t \in Nat, NEW u \in Nat, t <= u, f.count_ < checkEveryN_,
         NEW g \in Rolled(f, t, u)
  PROVE  g \in File /\ SameLog(f, g) /\ InTime(g, u) /\ g.buffer_ = <<>>
<1>1. PICK ok \in BOOLEAN : g = rollFile(f, t, u, ok)
  BY DEF Rolled
<1>2. PICK h \in File : h = flush(f) /\ SameLog(f, h) /\ h.buffer_ = <<>> /\ h.count_ = f.count_
  <2>1. f.buffer_ \in Seq(Line) /\ Len(f.buffer_) \in 0 .. Len(f.buffer_)
    BY LenProperties, SMT DEF File
  <2> QED
    BY <2>1, FlushIs, FlushedIs DEF flush
<1>3. PICK name \in Name, s \in Int, p \in Int, q \in Int :
        /\ name = getLogFileName(t, u) /\ s = Time(t) /\ p = Period(t) /\ q = Period(u) /\ p <= q
  BY Periods
<1>4. g = [h EXCEPT !.name = name, !.fp_ = ok, !.writtenBytes_ = 0,
                    !.lastRoll_ = s, !.startOfPeriod_ = p, !.late = 0]
  BY <1>1, <1>2, <1>3 DEF rollFile
<1>5. g \in File
  BY <1>4 DEF File
<1>6. /\ g.disk = h.disk /\ g.buffer_ = h.buffer_ /\ g.lost = h.lost /\ g.count_ = h.count_
      /\ g.writtenBytes_ = 0 /\ g.late = 0 /\ g.startOfPeriod_ = p
  BY <1>4 DEF File
<1>7. SameLog(f, g)
  BY <1>2, <1>6 DEF SameLog, InFile
<1>8. InTime(g, u)
  BY <1>2, <1>3, <1>6, LogFileAssumption, SMT DEF InTime, File
<1> QED
  BY <1>2, <1>5, <1>6, <1>7, <1>8

\* AppendFile::append(): the lines are behind the others, or lost.
Added(f, lines, g) ==
  \/ InFile(g) = InFile(f) \o lines /\ g.lost = f.lost
  \/ InFile(g) = InFile(f) /\ g.lost = f.lost \cup Range(lines)

\* A write does not touch what decides when the file is replaced, but for its
\* length.
LEMMA AppendedIs ==
  ASSUME NEW f \in File, NEW lines \in Seq(Line), NEW len \in Nat,
         NEW g \in Appended(f, lines, len)
  PROVE  /\ g \in File /\ Added(f, lines, g)
         /\ g.count_ = f.count_ /\ g.startOfPeriod_ = f.startOfPeriod_ /\ g.late = f.late
<1>1. CASE ~f.fp_
  <2>1. PICK new \in SUBSET Line : new = Range(lines) /\ new = {lines[i] : i \in DOMAIN lines}
    <3>1. \A i \in DOMAIN lines : lines[i] \in Line
      BY LenProperties
    <3> QED
      BY <3>1 DEF Range
  <2>2. g = [f EXCEPT !.lost = @ \cup new]
    BY <1>1, <2>1 DEF Appended
  <2>3. /\ g \in File /\ g.disk = f.disk /\ g.buffer_ = f.buffer_ /\ g.lost = f.lost \cup new
        /\ g.count_ = f.count_ /\ g.startOfPeriod_ = f.startOfPeriod_ /\ g.late = f.late
    BY <2>2 DEF File
  <2> QED
    BY <2>1, <2>3 DEF Added, InFile
<1>2. CASE f.fp_
  <2>1. PICK buf \in Seq(Line), bytes \in Nat :
          buf = f.buffer_ \o lines /\ bytes = f.writtenBytes_ + len
    <3>1. f.buffer_ \in Seq(Line) /\ f.writtenBytes_ \in Nat
      BY DEF File
    <3>2. f.buffer_ \o lines \in Seq(Line) /\ f.writtenBytes_ + len \in Nat
      BY <3>1, SMT
    <3> QED
      BY <3>2
  <2>2. PICK h : h = [f EXCEPT !.buffer_ = buf, !.writtenBytes_ = bytes]
    OBVIOUS
  <2>3. /\ h \in File /\ h.disk = f.disk /\ h.buffer_ = buf /\ h.lost = f.lost
        /\ h.count_ = f.count_ /\ h.startOfPeriod_ = f.startOfPeriod_ /\ h.late = f.late
    BY <2>2 DEF File
  <2>4. PICK k \in 0 .. Len(h.buffer_) : g = Flushed(h, k)
    BY <1>2, <2>1, <2>2 DEF Appended
  <2>5. /\ g \in File /\ SameLog(h, g)
        /\ g.count_ = h.count_ /\ g.startOfPeriod_ = h.startOfPeriod_ /\ g.late = h.late
    BY <2>3, <2>4, FlushedIs
  <2>6. InFile(h) = InFile(f) \o lines
    <3>1. PICK d \in Seq(Line), b \in Seq(Line) : d = LinesOf(f.disk) /\ b = f.buffer_
      BY LinesOfType DEF File
    <3>2. (d \o b) \o lines = d \o (b \o lines)
      BY ThreeParts
    <3> QED
      BY <2>1, <2>3, <3>1, <3>2, Zenon DEF InFile
  <2> QED
    BY <2>3, <2>5, <2>6 DEF Added, SameLog
<1> QED
  BY <1>1, <1>2

\* The check after every checkEveryN_ writes, the one at time t counted.
LEMMA CheckIs ==
  ASSUME NEW f \in File, NEW t \in Nat, NEW u \in Nat, t <= u,
         f.writtenBytes_ <= rollSize_, f.count_ < checkEveryN_, f.late <= f.count_ + 1,
         f.startOfPeriod_ <= Period(t), f.late > 0 => f.startOfPeriod_ < Period(t),
         NEW g \in CheckEveryN(f, t, u)
  PROVE  g \in File /\ SameLog(f, g) /\ InTime(g, u)
<1>1. PICK s \in Int, p \in Int, q \in Int : s = Time(t) /\ p = Period(t) /\ q = Period(u) /\ p <= q
  BY Periods
<1>2. f.count_ \in Nat /\ f.late \in Nat /\ f.startOfPeriod_ \in Int /\ checkEveryN_ \in Nat \ {0}
  BY LogFileAssumption DEF File
<1>3. CASE f.count_ + 1 < checkEveryN_
  <2>1. PICK c \in Nat : c = f.count_ + 1 /\ g = [f EXCEPT !.count_ = c]
    <3>1. g = [f EXCEPT !.count_ = f.count_ + 1]
      BY <1>3 DEF CheckEveryN
    <3> QED
      BY <1>2, <3>1, SMT
  <2>2. /\ g \in File /\ g.disk = f.disk /\ g.buffer_ = f.buffer_ /\ g.lost = f.lost
        /\ g.count_ = f.count_ + 1 /\ g.late = f.late /\ g.startOfPeriod_ = f.startOfPeriod_
        /\ g.writtenBytes_ = f.writtenBytes_
    BY <2>1 DEF File
  <2>3. SameLog(f, g)
    BY <2>2 DEF SameLog, InFile
  <2>4. InTime(g, u)
    BY <1>1, <1>2, <1>3, <2>2, SMT DEF InTime
  <2> QED
    BY <2>2, <2>3, <2>4
<1>4. CASE ~(f.count_ + 1 < checkEveryN_)
  <2>1. PICK h : h = [f EXCEPT !.count_ = 0]
    OBVIOUS
  <2>2. /\ h \in File /\ h.disk = f.disk /\ h.buffer_ = f.buffer_ /\ h.lost = f.lost
        /\ h.count_ = 0 /\ h.late = f.late /\ h.startOfPeriod_ = f.startOfPeriod_
        /\ h.writtenBytes_ = f.writtenBytes_
    BY <2>1 DEF File
  <2>3. SameLog(f, h)
    BY <2>2 DEF SameLog, InFile
  <2>4. CASE p # f.startOfPeriod_
    <3>1. g \in Rolled(h, t, u)
      BY <1>1, <1>4, <2>1, <2>4 DEF CheckEveryN
    <3>2. h.count_ < checkEveryN_
      BY <1>2, <2>2, SMT
    <3>3. g \in File /\ SameLog(h, g) /\ InTime(g, u)
      BY <2>2, <3>1, <3>2, RolledIs
    <3> QED
      BY <2>3, <3>3 DEF SameLog
  <2>5. CASE p = f.startOfPeriod_
    <3>1. f.late = 0
      BY <1>1, <1>2, <2>5, SMT
    <3>2. InTime(h, u)
      BY <1>1, <1>2, <2>2, <3>1, SMT DEF InTime
    <3>3. CASE s - f.lastRoll_ > flushInterval_
      <4>1. PICK k : k = [h EXCEPT !.lastRoll_ = s]
        OBVIOUS
      <4>2. g = flush(k)
        BY <1>1, <1>4, <2>1, <2>5, <3>3, <4>1 DEF CheckEveryN
      <4>3. /\ k \in File /\ k.disk = h.disk /\ k.buffer_ = h.buffer_ /\ k.lost = h.lost
            /\ k.count_ = h.count_ /\ k.late = h.late /\ k.startOfPeriod_ = h.startOfPeriod_
            /\ k.writtenBytes_ = h.writtenBytes_
        BY <2>2, <4>1 DEF File
      <4>4. SameLog(f, k) /\ InTime(k, u)
        BY <2>3, <3>2, <4>3 DEF SameLog, InFile, InTime
      <4>5. g \in File /\ SameLog(k, g) /\ InTime(g, u)
        BY <4>2, <4>3, <4>4, FlushIs
      <4> QED
        BY <4>4, <4>5 DEF SameLog
    <3>4. CASE ~(s - f.lastRoll_ > flushInterval_)
      <4>1. g = h
        BY <1>1, <1>4, <2>1, <2>5, <3>4 DEF CheckEveryN
      <4> QED
        BY <2>2, <2>3, <3>2, <4>1
    <3> QED
      BY <3>3, <3>4
  <2> QED
    BY <2>4, <2>5
<1> QED
  BY <1>3, <1>4

\* append_unlocked(): whatever it does to the file, the lines are added and the
\* file is in time.
LEMMA AppendIs ==
  ASSUME NEW f \in File, NEW lines \in Seq(Line), NEW len \in Nat,
         NEW t \in Nat, NEW u \in Nat, t <= u, InTime(f, t),
         NEW g \in append(f, lines, len, t, u)
  PROVE  g \in File /\ Added(f, lines, g) /\ InTime(g, u)
<1>1. PICK a \in Appended(f, lines, len) :
        LET h == [a EXCEPT !.late = IF Period(t) # f.startOfPeriod_ THEN @ + 1 ELSE @]
        IN  g \in IF h.writtenBytes_ > rollSize_ THEN Rolled(h, t, u) ELSE CheckEveryN(h, t, u)
  BY DEF append
<1>2. PICK p \in Int : p = Period(t)
  BY Periods
<1>3. /\ a \in File /\ Added(f, lines, a)
      /\ a.count_ = f.count_ /\ a.startOfPeriod_ = f.startOfPeriod_ /\ a.late = f.late
  BY AppendedIs, SMT
<1>4. PICK late \in Nat : late = IF p # f.startOfPeriod_ THEN f.late + 1 ELSE f.late
  BY SMT DEF File
<1> DEFINE h == [a EXCEPT !.late = late]
<1>5. /\ h \in File /\ h.disk = a.disk /\ h.buffer_ = a.buffer_ /\ h.lost = a.lost
      /\ h.count_ = f.count_ /\ h.startOfPeriod_ = f.startOfPeriod_
      /\ h.late = late
  BY <1>3 DEF File
<1> HIDE DEF h
<1>6. Added(f, lines, h)
  BY <1>3, <1>5 DEF Added, InFile
<1>7. /\ f.count_ \in Nat /\ f.late \in Nat /\ f.startOfPeriod_ \in Int /\ h.writtenBytes_ \in Nat
      /\ checkEveryN_ \in Nat /\ rollSize_ \in Nat
  BY <1>5, LogFileAssumption DEF File
<1>8. g \in File /\ SameLog(h, g) /\ InTime(g, u)
  <2>1. CASE h.writtenBytes_ > rollSize_
    <3>1. g \in Rolled(h, t, u)
      BY <1>1, <1>2, <1>3, <1>4, <2>1 DEF h
    <3>2. h.count_ < checkEveryN_
      BY <1>5 DEF InTime
    <3> QED
      BY <1>5, <3>1, <3>2, RolledIs
  <2>2. CASE ~(h.writtenBytes_ > rollSize_)
    <3>1. g \in CheckEveryN(h, t, u)
      BY <1>1, <1>2, <1>3, <1>4, <2>2 DEF h
    <3>2. /\ h.writtenBytes_ <= rollSize_ /\ h.count_ < checkEveryN_ /\ h.late <= h.count_ + 1
          /\ h.startOfPeriod_ <= p /\ (h.late > 0 => h.startOfPeriod_ < p)
      <4>1. f.count_ < checkEveryN_ /\ f.late <= f.count_ /\ f.startOfPeriod_ <= p
        BY <1>2 DEF InTime
      <4>2. late <= f.count_ + 1 /\ (late > 0 => f.startOfPeriod_ < p)
        <5>1. CASE p # f.startOfPeriod_
          <6>1. late = f.late + 1
            BY <1>4, <5>1
          <6>2. PICK i \in Nat, j \in Nat, k \in Int :
                  i = f.late /\ j = f.count_ /\ k = f.startOfPeriod_
            BY <1>7
          <6>3. i <= j /\ k <= p /\ p # k
            BY <4>1, <5>1, <6>2
          <6>4. i + 1 <= j + 1 /\ k < p
            BY <6>3, SMT
          <6> QED
            BY <6>1, <6>2, <6>4
        <5>2. CASE p = f.startOfPeriod_
          <6>1. late = f.late /\ (f.late > 0 => f.startOfPeriod_ < p)
            BY <1>2, <1>4, <5>2 DEF InTime
          <6> QED
            BY <1>7, <4>1, <6>1, SMT
        <5> QED
          BY <5>1, <5>2
      <4>3. h.writtenBytes_ <= rollSize_
        BY <1>7, <2>2, SMT
      <4> QED
        BY <1>5, <4>1, <4>2, <4>3
    <3> QED
      BY <1>2, <1>5, <3>1, <3>2, CheckIs
  <2> QED
    BY <2>1, <2>2
<1> QED
  BY <1>6, <1>8 DEF Added, SameLog

\* The file is in time whenever it is looked at, and empty handed between batches.
FileInv ==
  /\ clock \in Nat /\ output \in File /\ InTime(output, clock) /\ FlushedBetweenBatches
  /\ owner = "null" => pc \in {"unborn", "aborted"}

\* A file that is in time stays so until it is written to.
LEMMA StaysInTime ==
  ASSUME NEW f \in File, NEW t \in Nat, NEW u \in Nat, t <= u, InTime(f, t)
  PROVE  InTime(f, u)
<1>1. PICK p \in Int, q \in Int : p = Period(t) /\ q = Period(u) /\ p <= q
  BY Periods
<1>2. f.startOfPeriod_ \in Int
  BY DEF File
<1> QED
  BY <1>1, <1>2, SMT DEF InTime

\* No file has been made, by this logger; others were there before it.
Blank(disk, lost) == [NoFile EXCEPT !.disk = disk, !.lost = lost]

\* What a new LogFile starts from.
LEMMA BlankType ==
  ASSUME NEW d \in Seq(Entry), NEW l \in SUBSET Line
  PROVE  /\ NoFile \in File /\ Blank(d, l) \in File
         /\ Blank(d, l).disk = d /\ Blank(d, l).lost = l
         /\ Blank(d, l).buffer_ = <<>> /\ Blank(d, l).count_ = 0
<1>1. <<>> \in Name /\ <<>> \in Seq(Line) /\ <<>> \in Seq(Entry)
  BY SMT DEF Name
<1>2. NoFile \in File /\ NoFile.buffer_ = <<>> /\ NoFile.count_ = 0
  BY <1>1, SMT DEF NoFile, File
<1>3. PICK n \in File : n = NoFile /\ n.buffer_ = <<>> /\ n.count_ = 0
  BY <1>2
<1>4. Blank(d, l) = [n EXCEPT !.disk = d, !.lost = l]
  BY <1>3 DEF Blank
<1>5. /\ Blank(d, l) \in File /\ Blank(d, l).disk = d /\ Blank(d, l).lost = l
      /\ Blank(d, l).buffer_ = n.buffer_ /\ Blank(d, l).count_ = n.count_
  BY <1>4 DEF File
<1> QED
  BY <1>2, <1>3, <1>5

\* Time that passes while a file is made.
LEMMA LaterClocksType ==
  ASSUME clock \in Nat, NEW u \in LaterClocks
  PROVE  u \in Nat /\ clock <= u
BY SMT DEF LaterClocks

\* Every step keeps the file in time.
LEMMA FileKept == IInv /\ FileInv /\ [Next]_vars => FileInv'
<1> SUFFICES ASSUME IInv, FileInv, [Next]_vars PROVE FileInv'
  OBVIOUS
<1>1. CASE UNCHANGED <<clock, output, pc, owner>>
  BY <1>1 DEF FileInv, FlushedBetweenBatches
<1>2. CASE Enter
  <2>1. PICK d \in Seq(Entry), l \in SUBSET Line : d = output.disk /\ l = output.lost
    BY DEF FileInv, File
  <2>2. PICK f \in File : f = Blank(d, l) /\ f.count_ = 0
    BY BlankType, SMT
  <2>3. clock \in Nat /\ clock' \in Nat /\ clock <= clock'
    BY <1>2, LaterClocksType DEF Enter, FileInv
  <2>4. output' \in Rolled(f, clock, clock') /\ f.count_ < checkEveryN_
    BY <1>2, <2>1, <2>2, LogFileAssumption, SMT DEF Enter, Blank
  <2>5. PICK u \in Nat : u = clock'
    BY <2>3
  <2>6. PICK g \in Rolled(f, clock, u) : g = output'
    BY <2>4, <2>5
  <2>7. g \in File /\ InTime(g, u) /\ g.buffer_ = <<>>
    BY <2>3, <2>4, <2>5, RolledIs
  <2>8. pc = "entry" /\ UNCHANGED owner
    BY <1>2 DEF Enter, otherVars, ownerVars
  <2> QED
    BY <2>5, <2>6, <2>7, <2>8 DEF FileInv, FlushedBetweenBatches
<1>3. CASE While
  <2>1. output.buffer_ = <<>> /\ pc = "while" /\ UNCHANGED <<clock, owner>>
    BY <1>3 DEF While, FileInv, FlushedBetweenBatches, otherVars, ownerVars
  <2>2. output' \in File /\ InTime(output', clock) /\ output'.buffer_ = <<>>
    BY <1>3, <2>1, FlushIs DEF While, FileInv
  <2> QED
    BY <2>1, <2>2 DEF FileInv, FlushedBetweenBatches
<1>4. CASE Wait
  BY <1>4 DEF Wait, FileInv, FlushedBetweenBatches, threadVars, otherVars, ownerVars
<1>5. CASE Take
  BY <1>5 DEF Take, WaitOver, FileInv, FlushedBetweenBatches, otherVars, ownerVars
<1>6. CASE WriteBuffer
  <2>1. PICK b : b = buffersToWrite[written + 1]
    OBVIOUS
  <2>2. b \in Buffer
    <3>1. buffersToWrite \in Seq(Buffer) /\ written + 1 \in 1 .. Len(buffersToWrite)
      BY <1>6, SMT DEF WriteBuffer, IInv, TypeOK, Buffers
    <3> QED
      BY <2>1, <3>1, ElementOfSeq
  <2>3. clock \in Nat /\ clock' \in Nat /\ clock <= clock'
    BY <1>6, LaterClocksType DEF WriteBuffer, FileInv
  <2>4. PICK u \in Nat : u = clock'
    BY <2>3
  <2>5. PICK g \in append(output, b.data_, b.cur_, clock, u) : g = output'
    BY <1>6, <2>1, <2>4 DEF WriteBuffer
  <2>6. b.data_ \in Seq(Line) /\ b.cur_ \in Nat /\ output \in File /\ InTime(output, clock)
    BY <2>2 DEF Buffer, FileInv
  <2>7. g \in File /\ InTime(g, u)
    BY <2>3, <2>4, <2>5, <2>6, AppendIs
  <2> QED
    BY <1>6, <2>4, <2>5, <2>7 DEF WriteBuffer, FileInv, FlushedBetweenBatches, otherVars, ownerVars
<1>7. CASE Recycle
  <2>1. output' = flush(output) /\ UNCHANGED <<clock, owner>> /\ pc = "write"
    BY <1>7 DEF Recycle, EndFlush, otherVars, ownerVars
  <2>2. output' \in File /\ InTime(output', clock) /\ output'.buffer_ = <<>>
    BY <2>1, FlushIs DEF FileInv
  <2> QED
    BY <2>1, <2>2 DEF FileInv, FlushedBetweenBatches
<1>8. CASE Tick
  <2>1. clock \in Nat /\ clock' \in Nat /\ clock <= clock' /\ output \in File /\ InTime(output, clock)
    BY <1>8, SMT DEF Tick, FileInv
  <2>2. PICK u \in Nat : u = clock'
    BY <2>1
  <2>3. InTime(output, u)
    BY <2>1, <2>2, StaysInTime
  <2> QED
    BY <1>8, <2>1, <2>2, <2>3 DEF Tick, FileInv, FlushedBetweenBatches, threadVars, ownerVars
<1>9. CASE LogLine
  BY <1>9 DEF LogLine, FileInv, FlushedBetweenBatches, threadVars, ownerVars
<1>10. CASE InitAsyncLogging
  BY <1>10 DEF InitAsyncLogging, FileInv, FlushedBetweenBatches
<1>11. CASE SetAsyncOutput \/ Stop \/ StopNotify
  BY <1>11 DEF SetAsyncOutput, Stop, StopNotify, FileInv, FlushedBetweenBatches, threadVars
<1>12. CASE Join
  BY <1>12 DEF Join, FileInv, FlushedBetweenBatches, threadVars
<1>13. CASE UNCHANGED vars
  BY <1>1, <1>13 DEF vars, threadVars, ownerVars
<1> QED
  BY <1>2, <1>3, <1>4, <1>5, <1>6, <1>7, <1>8, <1>9, <1>10, <1>11, <1>12, <1>13
  DEF Next, ThreadStep, OwnerStep

\* The file is in time throughout.
THEOREM FileInvariance == Spec => []FileInv
<1>1. Init => FileInv
  <2> SUFFICES ASSUME Init PROVE FileInv
    OBVIOUS
  <2>1. NoFile \in File
    <3>1. <<>> \in Seq(Entry) /\ {} \in SUBSET Line
      BY SMT
    <3> QED
      BY <3>1, BlankType
  <2>2. Period(0) = 0
    BY LogFileAssumption, SMT DEF Period, Time
  <2> QED
    BY <2>1, <2>2, LogFileAssumption, SMT DEF Init, FileInv, InTime, NoFile, FlushedBetweenBatches
<1> QED
  BY <1>1, Invariance, FileKept, PTL DEF Spec

\* No line stays in stdio's buffer between two batches, whatever file they are
\* written to and whether or not one could be opened.
THEOREM BatchesAreFlushed == Spec => []FlushedBetweenBatches
<1>1. FileInv => FlushedBetweenBatches
  BY DEF FileInv
<1> QED
  BY <1>1, FileInvariance, PTL

\* The file is replaced in time, by the bytes written since it was opened and by
\* its period, for any rollSize_, checkEveryN_ and length of a period and whenever
\* the clock turns.
THEOREM FileIsRolled == Spec => []RolledInTime
<1>1. FileInv => RolledInTime
  BY LogFileAssumption, SMT DEF FileInv, InTime, File, RolledInTime
<1> QED
  BY <1>1, FileInvariance, PTL

-----------------------------------------------------------------------------
(* The stages a line goes through.                                           *)

\* The stages with f written and the buffers of u to be written.
Staged(f, u) == <<f>> \o DataOf(u)

\* Lines of a sequence, once more: the set of them.
LEMMA RangeIs ==
  ASSUME NEW s \in Seq(Line)
  PROVE  /\ Range(s) \subseteq Line /\ (s = <<>> => Range(s) = {})
         /\ \A x : x \in Range(s) <=> \E i \in 1 .. Len(s) : x = s[i]
         /\ \A i \in 1 .. Len(s) : s[i] \in Line /\ s[i].id \in Nat
<1>1. Len(s) \in Nat /\ DOMAIN s = 1 .. Len(s) /\ s \in [1 .. Len(s) -> Line]
  BY LenProperties
<1>2. Range(s) = {s[i] : i \in 1 .. Len(s)}
  BY <1>1 DEF Range
<1>3. \A x \in Line : x.id \in Nat
  BY DEF Line
<1>4. \A i \in 1 .. Len(s) : s[i] \in Line
  BY <1>1
<1>5. Range(s) \subseteq Line
  BY <1>2, <1>4
<1>6. s = <<>> => Range(s) = {}
  BY <1>2, SMT
<1> QED
  BY <1>2, <1>3, <1>4, <1>5, <1>6

\* Stages by number: the file is the first.
LEMMA StagedIs ==
  ASSUME NEW f \in Seq(Line), NEW u \in Buffers
  PROVE  /\ Len(Staged(f, u)) = Len(u) + 1 /\ DOMAIN Staged(f, u) = 1 .. Len(u) + 1 /\ Len(u) \in Nat
         /\ Staged(f, u)[1] = f
         /\ \A i \in 1 .. Len(u) : Staged(f, u)[i + 1] = u[i].data_
         /\ \A i \in 1 .. Len(u) : u[i].data_ \in Seq(Line)
         /\ \A i \in 1 .. Len(u) + 1 : Staged(f, u)[i] \in Seq(Line)
<1> DEFINE S == Seq(Line)
<1> HIDE DEF S
<1>1. u \in Seq(Buffer) /\ Len(u) \in Nat /\ DOMAIN u = 1 .. Len(u) /\ f \in S
  BY LenProperties DEF Buffers, S
<1>2. \A i \in 1 .. Len(u) : u[i].data_ \in S
  <2>1. ASSUME NEW i \in 1 .. Len(u) PROVE u[i] \in Buffer
    BY <1>1, ElementOfSeq
  <2> QED
    BY <2>1 DEF Buffer, S
<1>3. /\ DataOf(u) \in Seq(S) /\ Len(DataOf(u)) = Len(u)
      /\ \A i \in 1 .. Len(u) : DataOf(u)[i] = u[i].data_
  BY <1>1, <1>2, SMT DEF DataOf
<1>4. <<f>> \in Seq(S) /\ Len(<<f>>) = 1 /\ <<f>>[1] = f
  BY <1>1, SMT
<1>5. PICK a \in Seq(S), d \in Seq(S) : a = <<f>> /\ d = DataOf(u)
  BY <1>3, <1>4
<1>6. /\ a \o d \in Seq(S) /\ Len(a \o d) = Len(a) + Len(d)
      /\ \A i \in 1 .. Len(a) + Len(d) : (a \o d)[i] = IF i <= Len(a) THEN a[i] ELSE d[i - Len(a)]
  BY ConcatProperties
<1>7. Len(a) = 1 /\ Len(d) = Len(u) /\ a[1] = f
  BY <1>3, <1>4, <1>5
<1>8. PICK st \in Seq(S) :
        /\ st = Staged(f, u) /\ Len(st) = Len(u) + 1
        /\ \A i \in 1 .. Len(u) + 1 : st[i] = IF i <= 1 THEN f ELSE d[i - 1]
  <2>1. Staged(f, u) = a \o d /\ Len(a) + Len(d) = Len(u) + 1
    BY <1>1, <1>5, <1>7, SMT DEF Staged
  <2>2. \A i \in 1 .. Len(u) + 1 : (a \o d)[i] = IF i <= 1 THEN f ELSE d[i - 1]
    <3> SUFFICES ASSUME NEW i \in 1 .. Len(u) + 1 PROVE (a \o d)[i] = IF i <= 1 THEN f ELSE d[i - 1]
      OBVIOUS
    <3>1. (a \o d)[i] = IF i <= 1 THEN a[i] ELSE d[i - 1]
      BY <1>6, <1>7, <2>1
    <3>2. i <= 1 => i = 1
      BY <1>1, SMT
    <3> QED
      BY <1>7, <3>1, <3>2
  <2> QED
    BY <1>6, <2>1, <2>2
<1>9. \A i \in 1 .. Len(u) : st[i + 1] = u[i].data_
  <2> SUFFICES ASSUME NEW i \in 1 .. Len(u) PROVE st[i + 1] = u[i].data_
    OBVIOUS
  <2>1. i + 1 \in 1 .. Len(u) + 1 /\ ~(i + 1 <= 1) /\ (i + 1) - 1 = i
    BY <1>1, SMT
  <2> QED
    BY <1>3, <1>5, <1>8, <2>1
<1>10. st[1] = f /\ DOMAIN st = 1 .. Len(u) + 1
  BY <1>1, <1>8, LenProperties, SMT
<1>11. \A i \in 1 .. Len(u) + 1 : st[i] \in S
  BY <1>8, ElementOfSeq
<1> QED
  BY <1>1, <1>2, <1>8, <1>9, <1>10, <1>11 DEF S

\* The order of the stages, by number of the buffer.
Increasing(s) == \A i, j \in 1 .. Len(s) : i < j => s[i].id < s[j].id
Before(s, t) == \A x \in Range(s), y \in Range(t) : x.id < y.id
InOrder(f, u) ==
  /\ Increasing(f)
  /\ \A b \in 1 .. Len(u) :
       /\ Increasing(u[b].data_) /\ Before(f, u[b].data_)
       /\ \A c \in 1 .. Len(u) : b < c => Before(u[b].data_, u[c].data_)

\* It is what Ordered() says.
LEMMA OrderedIs ==
  ASSUME NEW f \in Seq(Line), NEW u \in Buffers
  PROVE  Ordered(Staged(f, u)) <=> InOrder(f, u)
<1>1. PICK st : st = Staged(f, u)
  OBVIOUS
<1>2. /\ DOMAIN st = 1 .. Len(u) + 1 /\ Len(u) \in Nat /\ st[1] = f
      /\ \A i \in 1 .. Len(u) : st[i + 1] = u[i].data_
      /\ \A i \in 1 .. Len(u) : u[i].data_ \in Seq(Line)
  BY <1>1, StagedIs
<1>3. DOMAIN f = 1 .. Len(f) /\ \A b \in 1 .. Len(u) : DOMAIN u[b].data_ = 1 .. Len(u[b].data_)
  BY <1>2, LenProperties
<1>4. ASSUME Ordered(st)
      PROVE  InOrder(f, u)
  <2>1. \A i, j \in 1 .. Len(f) : i < j => f[i].id < f[j].id
    <3>1. 1 \in DOMAIN st
      BY <1>2, SMT
    <3> QED
      BY <1>2, <1>3, <1>4, <3>1 DEF Ordered
  <2>2. ASSUME NEW b \in 1 .. Len(u)
        PROVE  /\ \A i, j \in 1 .. Len(u[b].data_) : i < j => u[b].data_[i].id < u[b].data_[j].id
               /\ \A x \in Range(f), y \in Range(u[b].data_) : x.id < y.id
    <3>1. b + 1 \in DOMAIN st /\ 1 \in DOMAIN st /\ 1 < b + 1 /\ st[b + 1] = u[b].data_
      BY <1>2, SMT
    <3> QED
      BY <1>2, <1>3, <1>4, <3>1 DEF Ordered
  <2>3. ASSUME NEW b \in 1 .. Len(u), NEW c \in 1 .. Len(u), b < c
        PROVE  \A x \in Range(u[b].data_), y \in Range(u[c].data_) : x.id < y.id
    <3>1. b + 1 \in DOMAIN st /\ c + 1 \in DOMAIN st /\ b + 1 < c + 1
      BY <1>2, <2>3, SMT
    <3>2. st[b + 1] = u[b].data_ /\ st[c + 1] = u[c].data_
      BY <1>2
    <3> QED
      BY <1>4, <3>1, <3>2 DEF Ordered
  <2> QED
    BY <2>1, <2>2, <2>3 DEF InOrder, Increasing, Before
<1>5. ASSUME InOrder(f, u) PROVE Ordered(st)
  <2>0. /\ \A i, j \in 1 .. Len(f) : i < j => f[i].id < f[j].id
        /\ \A b \in 1 .. Len(u) : \A i, j \in 1 .. Len(u[b].data_) :
             i < j => u[b].data_[i].id < u[b].data_[j].id
        /\ \A b \in 1 .. Len(u) : \A x \in Range(f), y \in Range(u[b].data_) : x.id < y.id
        /\ \A b, c \in 1 .. Len(u) :
             b < c => \A x \in Range(u[b].data_), y \in Range(u[c].data_) : x.id < y.id
    BY <1>5 DEF InOrder, Increasing, Before
  <2>1. ASSUME NEW s \in DOMAIN st, s # 1
        PROVE  \E b \in 1 .. Len(u) : s = b + 1 /\ st[s] = u[b].data_
    <3>1. s - 1 \in 1 .. Len(u) /\ s = (s - 1) + 1
      BY <1>2, <2>1, SMT
    <3> QED
      BY <1>2, <3>1
  <2>2. ASSUME NEW s \in DOMAIN st, NEW i \in DOMAIN st[s], NEW j \in DOMAIN st[s], i < j
        PROVE  st[s][i].id < st[s][j].id
    <3>1. CASE s = 1
      BY <1>2, <1>3, <2>0, <2>2, <3>1
    <3>2. CASE s # 1
      <4>1. PICK b \in 1 .. Len(u) : s = b + 1 /\ st[s] = u[b].data_
        BY <2>1, <3>2
      <4> QED
        BY <1>3, <2>0, <2>2, <4>1
    <3> QED
      BY <3>1, <3>2
  <2>3. ASSUME NEW s \in DOMAIN st, NEW t \in DOMAIN st, s < t,
               NEW x \in Range(st[s]), NEW y \in Range(st[t])
        PROVE  x.id < y.id
    <3>1. t # 1
      BY <1>2, <2>3, SMT
    <3>2. PICK c \in 1 .. Len(u) : t = c + 1 /\ st[t] = u[c].data_
      BY <2>1, <3>1
    <3>3. CASE s = 1
      BY <1>2, <2>0, <3>2, <3>3
    <3>4. CASE s # 1
      <4>1. PICK b \in 1 .. Len(u) : s = b + 1 /\ st[s] = u[b].data_
        BY <2>1, <3>4
      <4>2. b < c
        BY <2>3, <3>2, <4>1, SMT
      <4> QED
        BY <2>0, <3>2, <4>1, <4>2
    <3> QED
      BY <3>3, <3>4
  <2> QED
    BY <2>2, <2>3 DEF Ordered
<1> QED
  BY <1>1, <1>4, <1>5

\* Where a line may be.
LEMMA LinesIs ==
  ASSUME NEW f \in Seq(Line), NEW u \in Buffers
  PROVE  \A x : x \in Lines(Staged(f, u)) <=>
                  x \in Range(f) \/ \E b \in 1 .. Len(u) : x \in Range(u[b].data_)
<1>1. PICK st : st = Staged(f, u)
  OBVIOUS
<1>2. /\ DOMAIN st = 1 .. Len(u) + 1 /\ Len(u) \in Nat /\ st[1] = f
      /\ \A i \in 1 .. Len(u) : st[i + 1] = u[i].data_
  BY <1>1, StagedIs
<1> SUFFICES ASSUME NEW x
             PROVE  x \in Lines(st) <=> x \in Range(f) \/ \E b \in 1 .. Len(u) : x \in Range(u[b].data_)
  BY <1>1
<1>3. x \in Lines(st) <=> \E s \in 1 .. Len(u) + 1 : x \in Range(st[s])
  BY <1>2 DEF Lines
<1>4. ASSUME NEW s \in 1 .. Len(u) + 1, x \in Range(st[s])
      PROVE  x \in Range(f) \/ \E b \in 1 .. Len(u) : x \in Range(u[b].data_)
  <2>1. CASE s = 1
    BY <1>2, <1>4, <2>1
  <2>2. CASE s # 1
    <3>1. s - 1 \in 1 .. Len(u) /\ s = (s - 1) + 1
      BY <1>2, <2>2, SMT
    <3> QED
      BY <1>2, <1>4, <3>1
  <2> QED
    BY <2>1, <2>2
<1>5. ASSUME x \in Range(f) PROVE \E s \in 1 .. Len(u) + 1 : x \in Range(st[s])
  <2>1. 1 \in 1 .. Len(u) + 1
    BY <1>2, SMT
  <2> QED
    BY <1>2, <1>5, <2>1
<1>6. ASSUME NEW b \in 1 .. Len(u), x \in Range(u[b].data_)
      PROVE  \E s \in 1 .. Len(u) + 1 : x \in Range(st[s])
  <2>1. b + 1 \in 1 .. Len(u) + 1
    BY <1>2, SMT
  <2> QED
    BY <1>2, <1>6, <2>1
<1> QED
  BY <1>3, <1>4, <1>5, <1>6

\* v is u with one more buffer of lines new; with one more line in its last buffer;
\* without its first buffer.
Extended(u, v, new) ==
  /\ Len(v) = Len(u) + 1 /\ \A i \in 1 .. Len(u) : v[i] = u[i]
  /\ v[Len(u) + 1].data_ = new
Grown(u, v, line) ==
  /\ Len(u) >= 1 /\ Len(v) = Len(u) /\ \A i \in 1 .. Len(u) - 1 : v[i] = u[i]
  /\ v[Len(u)].data_ = Append(u[Len(u)].data_, line)
Shortened(u, v) == Len(u) = Len(v) + 1 /\ \A i \in 1 .. Len(v) : v[i] = u[i + 1]

\* A buffer is added, with the newest line or none in it.
LEMMA BufferAdded ==
  ASSUME NEW f \in Seq(Line), NEW u \in Buffers, NEW v \in Buffers, InOrder(f, u),
         NEW new \in Seq(Line), Len(new) <= 1, Extended(u, v, new),
         \A x \in Lines(Staged(f, u)), y \in Range(new) : x.id < y.id
  PROVE  InOrder(f, v) /\ Lines(Staged(f, v)) = Lines(Staged(f, u)) \cup Range(new)
<1> USE DEF Extended
<1>1. Len(u) \in Nat /\ Len(new) \in Nat
  BY LenProperties DEF Buffers
<1>2. Increasing(new)
  BY <1>1, SMT DEF Increasing
<1>3. ASSUME NEW b \in 1 .. Len(v), b # Len(u) + 1 PROVE b \in 1 .. Len(u) /\ v[b] = u[b]
  BY <1>1, <1>3, SMT
<1>4. Before(f, new) /\ \A b \in 1 .. Len(u) : Before(u[b].data_, new)
  BY LinesIs DEF Before
<1>5. ASSUME NEW b \in 1 .. Len(v) PROVE Increasing(v[b].data_) /\ Before(f, v[b].data_)
  <2>1. CASE b = Len(u) + 1
    BY <1>2, <1>4, <2>1
  <2>2. CASE b # Len(u) + 1
    BY <1>3, <2>2 DEF InOrder
  <2> QED
    BY <2>1, <2>2
<1>6. ASSUME NEW b \in 1 .. Len(v), NEW c \in 1 .. Len(v), b < c
      PROVE  Before(v[b].data_, v[c].data_)
  <2>1. b # Len(u) + 1
    BY <1>1, <1>6, SMT
  <2>2. b \in 1 .. Len(u) /\ v[b] = u[b]
    BY <1>3, <2>1
  <2>3. CASE c = Len(u) + 1
    BY <1>4, <2>2, <2>3
  <2>4. CASE c # Len(u) + 1
    <3>1. c \in 1 .. Len(u) /\ v[c] = u[c]
      BY <1>3, <2>4
    <3> QED
      BY <1>6, <2>2, <3>1 DEF InOrder
  <2> QED
    BY <2>3, <2>4
<1>7. InOrder(f, v)
  BY <1>5, <1>6 DEF InOrder
<1>8. ASSUME NEW x PROVE x \in Lines(Staged(f, v)) <=> x \in Lines(Staged(f, u)) \cup Range(new)
  <2>1. x \in Lines(Staged(f, v)) <=> x \in Range(f) \/ \E b \in 1 .. Len(v) : x \in Range(v[b].data_)
    BY LinesIs
  <2>2. x \in Lines(Staged(f, u)) <=> x \in Range(f) \/ \E b \in 1 .. Len(u) : x \in Range(u[b].data_)
    BY LinesIs
  <2>3. Len(u) + 1 \in 1 .. Len(v) /\ \A b \in 1 .. Len(u) : b \in 1 .. Len(v)
    BY <1>1, SMT
  <2>4. (\E b \in 1 .. Len(v) : x \in Range(v[b].data_))
          <=> x \in Range(new) \/ \E b \in 1 .. Len(u) : x \in Range(u[b].data_)
    BY <1>3, <2>3
  <2> QED
    BY <2>1, <2>2, <2>4
<1> QED
  BY <1>7, <1>8

\* The last buffer gets the newest line.
LEMMA BufferGrown ==
  ASSUME NEW f \in Seq(Line), NEW u \in Buffers, NEW v \in Buffers, InOrder(f, u),
         NEW line \in Line, Grown(u, v, line),
         \A x \in Lines(Staged(f, u)) : x.id < line.id
  PROVE  InOrder(f, v) /\ Lines(Staged(f, v)) = Lines(Staged(f, u)) \cup {line}
<1> USE DEF Grown
<1>1. PICK n \in Nat : n = Len(u) /\ n \in 1 .. Len(u) /\ n \in 1 .. Len(v)
  BY LenProperties, SMT DEF Buffers
<1>2. PICK old \in Seq(Line), new \in Seq(Line) :
        /\ old = u[n].data_ /\ new = v[n].data_ /\ new = Append(old, line)
  <2>1. u[n].data_ \in Seq(Line)
    BY <1>1, StagedIs
  <2> QED
    BY <1>1, <2>1, AppendProperties
<1>3. /\ Len(new) = Len(old) + 1 /\ Len(old) \in Nat
      /\ (\A i \in 1 .. Len(old) : new[i] = old[i]) /\ new[Len(old) + 1] = line
  BY <1>2, AppendProperties, LenProperties, SMT
<1>4. \A x : x \in Range(new) <=> x \in Range(old) \/ x = line
  <2>1. \A x : x \in Range(new) <=> \E i \in 1 .. Len(new) : x = new[i]
    BY RangeIs
  <2>2. \A x : x \in Range(old) <=> \E i \in 1 .. Len(old) : x = old[i]
    BY RangeIs
  <2>3. Len(old) + 1 \in 1 .. Len(new) /\ \A i \in 1 .. Len(old) : i \in 1 .. Len(new)
    BY <1>3, SMT
  <2>4. \A i \in 1 .. Len(new) : i = Len(old) + 1 \/ i \in 1 .. Len(old)
    BY <1>3, SMT
  <2>5. ASSUME NEW x, x \in Range(new) PROVE x \in Range(old) \/ x = line
    <3>1. PICK i \in 1 .. Len(new) : x = new[i]
      BY <2>1, <2>5
    <3> QED
      BY <1>3, <2>2, <2>4, <3>1
  <2>6. ASSUME NEW x, x \in Range(old) PROVE x \in Range(new)
    <3>1. PICK i \in 1 .. Len(old) : x = old[i]
      BY <2>2, <2>6
    <3> QED
      BY <1>3, <2>1, <2>3, <3>1
  <2>7. line \in Range(new)
    BY <1>3, <2>1, <2>3
  <2> QED
    BY <2>5, <2>6, <2>7
<1>5. \A x : x \in Lines(Staged(f, u)) <=>
               x \in Range(f) \/ \E b \in 1 .. Len(u) : x \in Range(u[b].data_)
  BY LinesIs
<1>6. Increasing(new)
  <2> SUFFICES ASSUME NEW i \in 1 .. Len(new), NEW j \in 1 .. Len(new), i < j
               PROVE  new[i].id < new[j].id
    BY DEF Increasing
  <2>1. i \in 1 .. Len(old)
    BY <1>3, SMT
  <2>2. CASE j = Len(old) + 1
    <3>1. old[i] \in Range(old)
      BY <2>1, RangeIs, SMT
    <3>2. old[i].id < line.id
      BY <1>1, <1>2, <1>5, <3>1
    <3> QED
      BY <1>3, <2>1, <2>2, <3>2
  <2>3. CASE j # Len(old) + 1
    <3>1. j \in 1 .. Len(old)
      <4>1. PICK n2 \in Nat : n2 = Len(old) /\ j \in 1 .. n2 + 1 /\ j # n2 + 1
        BY <1>3, <2>3
      <4>2. j \in 1 .. n2
        BY <4>1, SMT
      <4> QED
        BY <4>1, <4>2
    <3>2. Increasing(old)
      BY <1>1, <1>2 DEF InOrder
    <3>3. old[i].id < old[j].id
      BY <2>1, <3>1, <3>2 DEF Increasing
    <3> QED
      BY <1>3, <2>1, <3>1, <3>3
  <2> QED
    BY <2>2, <2>3
<1>7. ASSUME NEW b \in 1 .. Len(v), b # n PROVE b \in 1 .. Len(u) /\ v[b] = u[b] /\ b < n
  <2>1. b \in 1 .. Len(u) - 1
    BY <1>1, <1>7, SMT
  <2> QED
    BY <1>1, <2>1, SMT
<1>8. ASSUME NEW s \in Seq(Line), Before(s, old), \A x \in Range(s) : x \in Lines(Staged(f, u))
      PROVE  Before(s, new)
  BY <1>4, <1>8 DEF Before
<1>9. Before(f, new) /\ \A b \in 1 .. Len(u) : b < n => Before(u[b].data_, new)
  <2>1. Before(f, old) /\ \A b \in 1 .. Len(u) : b < n => Before(u[b].data_, old)
    BY <1>1, <1>2 DEF InOrder
  <2>2. \A b \in 1 .. Len(u) : u[b].data_ \in Seq(Line)
    BY StagedIs
  <2> QED
    BY <1>5, <1>8, <2>1, <2>2
<1>10. ASSUME NEW b \in 1 .. Len(v)
       PROVE  /\ Increasing(v[b].data_) /\ Before(f, v[b].data_)
              /\ \A c \in 1 .. Len(v) : b < c => Before(v[b].data_, v[c].data_)
  <2>1. CASE b = n
    <3>1. \A c \in 1 .. Len(v) : ~(b < c)
      BY <1>1, <2>1, SMT
    <3> QED
      BY <1>2, <1>6, <1>9, <2>1, <3>1
  <2>2. CASE b # n
    <3>1. b \in 1 .. Len(u) /\ v[b] = u[b] /\ b < n
      BY <1>7, <2>2
    <3>2. Increasing(v[b].data_) /\ Before(f, v[b].data_)
      BY <3>1 DEF InOrder
    <3>3. ASSUME NEW c \in 1 .. Len(v), b < c PROVE Before(v[b].data_, v[c].data_)
      <4>1. CASE c = n
        BY <1>2, <1>9, <3>1, <4>1
      <4>2. CASE c # n
        <5>1. c \in 1 .. Len(u) /\ v[c] = u[c]
          BY <1>7, <4>2
        <5> QED
          BY <3>1, <3>3, <5>1 DEF InOrder
      <4> QED
        BY <4>1, <4>2
    <3> QED
      BY <3>2, <3>3
  <2> QED
    BY <2>1, <2>2
<1>11. InOrder(f, v)
  BY <1>10 DEF InOrder
<1>12. ASSUME NEW x PROVE x \in Lines(Staged(f, v)) <=> x \in Lines(Staged(f, u)) \cup {line}
  <2>1. x \in Lines(Staged(f, v)) <=> x \in Range(f) \/ \E b \in 1 .. Len(v) : x \in Range(v[b].data_)
    BY LinesIs
  <2>2. (\E b \in 1 .. Len(v) : x \in Range(v[b].data_))
          <=> x = line \/ \E b \in 1 .. Len(u) : x \in Range(u[b].data_)
    BY <1>1, <1>2, <1>4, <1>7
  <2> QED
    BY <1>5, <2>1, <2>2
<1> QED
  BY <1>11, <1>12

\* The numbers of the buffers that are left.
LEMMA FirstIs ==
  ASSUME NEW u \in Buffers, NEW v \in Buffers, Shortened(u, v)
  PROVE  /\ 1 \in 1 .. Len(u)
         /\ \A i \in 1 .. Len(v) : i + 1 \in 1 .. Len(u) /\ 1 < i + 1 /\ v[i] = u[i + 1]
<1>1. Len(v) \in Nat /\ Len(u) = Len(v) + 1
  BY LenProperties DEF Buffers, Shortened
<1>2. 1 \in 1 .. Len(u) /\ \A i \in 1 .. Len(v) : i + 1 \in 1 .. Len(u) /\ 1 < i + 1
  BY <1>1, SMT
<1> QED
  BY <1>2 DEF Shortened

\* Their lines are those of u without the first one's.
LEMMA FirstLines ==
  ASSUME NEW u \in Buffers, NEW v \in Buffers, Shortened(u, v), NEW x
  PROVE  (\E b \in 1 .. Len(u) : x \in Range(u[b].data_)) <=>
            x \in Range(u[1].data_) \/ \E b \in 1 .. Len(v) : x \in Range(v[b].data_)
<1>1. Len(v) \in Nat /\ Len(u) = Len(v) + 1
  BY LenProperties DEF Buffers, Shortened
<1>2. /\ 1 \in 1 .. Len(u)
      /\ \A i \in 1 .. Len(v) : i + 1 \in 1 .. Len(u) /\ v[i] = u[i + 1]
  BY FirstIs
<1>3. ASSUME NEW b \in 1 .. Len(u), b # 1 PROVE \E i \in 1 .. Len(v) : b = i + 1 /\ u[b] = v[i]
  <2>1. b - 1 \in 1 .. Len(v) /\ b = (b - 1) + 1
    BY <1>1, <1>3, SMT
  <2> QED
    BY <1>2, <2>1
<1>4. ASSUME NEW b \in 1 .. Len(u), x \in Range(u[b].data_)
      PROVE  x \in Range(u[1].data_) \/ \E c \in 1 .. Len(v) : x \in Range(v[c].data_)
  <2>1. CASE b = 1
    BY <1>4, <2>1
  <2>2. CASE b # 1
    BY <1>3, <1>4, <2>2
  <2> QED
    BY <2>1, <2>2
<1> QED
  BY <1>2, <1>4

\* The first buffer leaves, and its lines with it.
LEMMA FirstLost ==
  ASSUME NEW f \in Seq(Line), NEW u \in Buffers, NEW v \in Buffers, InOrder(f, u), Shortened(u, v)
  PROVE  InOrder(f, v) /\ Lines(Staged(f, v)) = Lines(Staged(f, u)) \ Range(u[1].data_)
<1>1. /\ 1 \in 1 .. Len(u)
      /\ \A i \in 1 .. Len(v) : i + 1 \in 1 .. Len(u) /\ 1 < i + 1 /\ v[i] = u[i + 1]
  BY FirstIs
<1>2. ASSUME NEW x
      PROVE  (\E b \in 1 .. Len(u) : x \in Range(u[b].data_)) <=>
                x \in Range(u[1].data_) \/ \E b \in 1 .. Len(v) : x \in Range(v[b].data_)
  BY FirstLines
<1>3. Len(v) \in Nat
  BY LenProperties DEF Buffers
<1>4. ASSUME NEW b \in 1 .. Len(v) PROVE Increasing(v[b].data_) /\ Before(f, v[b].data_)
  BY <1>1 DEF InOrder
<1>5. ASSUME NEW b \in 1 .. Len(v), NEW c \in 1 .. Len(v), b < c
      PROVE  Before(v[b].data_, v[c].data_)
  <2>1. b + 1 \in 1 .. Len(u) /\ c + 1 \in 1 .. Len(u) /\ b + 1 < c + 1
    BY <1>1, <1>3, <1>5, SMT
  <2>2. Before(u[b + 1].data_, u[c + 1].data_)
    BY <2>1 DEF InOrder
  <2> QED
    BY <1>1, <2>2
<1>6. InOrder(f, v)
  BY <1>4, <1>5 DEF InOrder
<1>7. ASSUME NEW x PROVE x \in Lines(Staged(f, v)) <=> x \in Lines(Staged(f, u)) \ Range(u[1].data_)
  <2>1. x \in Lines(Staged(f, v)) <=> x \in Range(f) \/ \E b \in 1 .. Len(v) : x \in Range(v[b].data_)
    BY LinesIs
  <2>2. x \in Lines(Staged(f, u)) <=> x \in Range(f) \/ \E b \in 1 .. Len(u) : x \in Range(u[b].data_)
    BY LinesIs
  <2>3. ASSUME x \in Range(u[1].data_)
        PROVE  x \notin Range(f) /\ \A b \in 1 .. Len(v) : x \notin Range(v[b].data_)
    <3>1. u[1].data_ \in Seq(Line)
      BY <1>1, StagedIs
    <3>2. x \in Line
      BY <2>3, <3>1, RangeIs
    <3>3. ~(x.id < x.id)
      BY <3>2, SMT DEF Line
    <3>4. x \notin Range(f)
      BY <1>1, <2>3, <3>3 DEF InOrder, Before
    <3>5. ASSUME NEW b \in 1 .. Len(v), x \in Range(v[b].data_) PROVE FALSE
      <4>1. Before(u[1].data_, u[b + 1].data_)
        BY <1>1 DEF InOrder
      <4> QED
        BY <1>1, <2>3, <3>3, <3>5, <4>1 DEF Before
    <3> QED
      BY <3>4, <3>5
  <2> QED
    BY <1>2, <2>1, <2>2, <2>3
<1> QED
  BY <1>6, <1>7

\* The first buffer is written: its lines are behind those of the file.
LEMMA FirstWritten ==
  ASSUME NEW f \in Seq(Line), NEW u \in Buffers, NEW v \in Buffers, InOrder(f, u), Shortened(u, v)
  PROVE  /\ InOrder(f \o u[1].data_, v)
         /\ Lines(Staged(f \o u[1].data_, v)) = Lines(Staged(f, u))
<1>1. /\ 1 \in 1 .. Len(u)
      /\ \A i \in 1 .. Len(v) : i + 1 \in 1 .. Len(u) /\ 1 < i + 1 /\ v[i] = u[i + 1]
  BY FirstIs
<1>2. ASSUME NEW x
      PROVE  (\E b \in 1 .. Len(u) : x \in Range(u[b].data_)) <=>
                x \in Range(u[1].data_) \/ \E b \in 1 .. Len(v) : x \in Range(v[b].data_)
  BY FirstLines
<1>3. PICK new \in Seq(Line) : new = u[1].data_
  <2>1. u[1].data_ \in Seq(Line)
    BY <1>1, StagedIs
  <2> QED
    BY <2>1
<1>3a. PICK all \in Seq(Line), m \in Nat, n \in Nat :
        /\ all = f \o new /\ m = Len(f) /\ n = Len(new) /\ Len(all) = m + n
        /\ \A i \in 1 .. m + n : all[i] = IF i <= m THEN f[i] ELSE new[i - m]
  <2>1. /\ f \o new \in Seq(Line) /\ Len(f \o new) = Len(f) + Len(new)
        /\ \A i \in 1 .. Len(f) + Len(new) : (f \o new)[i] = IF i <= Len(f) THEN f[i] ELSE new[i - Len(f)]
    BY ConcatProperties
  <2>2. Len(f) \in Nat /\ Len(new) \in Nat
    BY LenProperties
  <2> QED
    BY <2>1, <2>2
<1>4. \A x : x \in Range(all) <=> x \in Range(f) \/ x \in Range(new)
  <2>1. Range(f \o new) = Range(f) \cup Range(new)
    BY RangeConcatenation, SMT
  <2> QED
    BY <1>3, <1>3a, <2>1
<1>5. Increasing(f) /\ Increasing(new) /\ Before(f, new)
  BY <1>1, <1>3, <1>3a DEF InOrder
<1>6. Increasing(all)
  <2> SUFFICES ASSUME NEW i \in 1 .. m + n, NEW j \in 1 .. m + n, i < j
               PROVE  all[i].id < all[j].id
    BY <1>3, <1>3a, SMTT(30) DEF Increasing
  <2>1. CASE j <= m
    <3>1. i \in 1 .. Len(f) /\ j \in 1 .. Len(f) /\ i <= m
      BY <1>3, <1>3a, <2>1, SMT
    <3>2. f[i].id < f[j].id
      BY <1>5, <3>1 DEF Increasing
    <3> QED
      BY <1>3, <1>3a, <2>1, <3>1, <3>2
  <2>2. CASE i <= m /\ ~(j <= m)
    <3>1. i \in 1 .. Len(f) /\ j - m \in 1 .. Len(new)
      BY <1>3, <1>3a, <2>2, SMT
    <3>2. f[i] \in Range(f) /\ new[j - m] \in Range(new)
      BY <3>1, RangeIs
    <3>3. f[i].id < new[j - m].id
      BY <1>5, <3>2 DEF Before
    <3> QED
      BY <1>3, <1>3a, <2>2, <3>3
  <2>3. CASE ~(i <= m)
    <3>1. i - m \in 1 .. Len(new) /\ j - m \in 1 .. Len(new) /\ i - m < j - m /\ ~(j <= m)
      BY <1>3, <1>3a, <2>3, SMT
    <3>2. new[i - m].id < new[j - m].id
      BY <1>5, <3>1 DEF Increasing
    <3> QED
      BY <1>3, <1>3a, <2>3, <3>1, <3>2
  <2> QED
    BY <2>1, <2>2, <2>3
<1>7. InOrder(f, v)
  BY FirstLost
<1>8. ASSUME NEW b \in 1 .. Len(v) PROVE Before(all, v[b].data_)
  <2>1. Before(f, v[b].data_)
    BY <1>7 DEF InOrder
  <2>2. Before(new, v[b].data_)
    BY <1>1, <1>3, <1>3a DEF InOrder
  <2> QED
    BY <1>4, <2>1, <2>2 DEF Before
<1>9. InOrder(all, v)
  BY <1>6, <1>7, <1>8 DEF InOrder
<1>10. ASSUME NEW x PROVE x \in Lines(Staged(all, v)) <=> x \in Lines(Staged(f, u))
  <2>1. x \in Lines(Staged(all, v)) <=> x \in Range(all) \/ \E b \in 1 .. Len(v) : x \in Range(v[b].data_)
    BY LinesIs
  <2>2. x \in Lines(Staged(f, u)) <=> x \in Range(f) \/ \E b \in 1 .. Len(u) : x \in Range(u[b].data_)
    BY LinesIs
  <2> QED
    BY <1>2, <1>3, <1>3a, <1>4, <2>1, <2>2
<1> QED
  BY <1>3, <1>3a, <1>9, <1>10

\* The elements of two sequences of buffers put together.
LEMMA JoinedIs ==
  ASSUME NEW s \in Buffers, NEW b \in Buffers
  PROVE  /\ s \o b \in Buffers /\ Len(s \o b) = Len(s) + Len(b)
         /\ \A i \in 1 .. Len(s) : (s \o b)[i] = s[i]
         /\ \A i \in 1 .. Len(b) : (s \o b)[Len(s) + i] = b[i]
<1>1. s \in Seq(Buffer) /\ b \in Seq(Buffer)
  BY DEF Buffers
<1>2. /\ s \o b \in Seq(Buffer) /\ Len(s \o b) = Len(s) + Len(b)
      /\ \A i \in 1 .. Len(s) + Len(b) : (s \o b)[i] = IF i <= Len(s) THEN s[i] ELSE b[i - Len(s)]
  BY <1>1, ConcatProperties
<1>3. PICK d \in Nat, m \in Nat : d = Len(s) /\ m = Len(b)
  BY <1>1, LenProperties
<1>4. PICK t : t = s \o b
  OBVIOUS
<1>5. \A i \in 1 .. d + m : t[i] = IF i <= d THEN s[i] ELSE b[i - d]
  BY <1>2, <1>3, <1>4, Zenon
<1>6. ASSUME NEW i \in 1 .. d PROVE t[i] = s[i]
  <2>1. i \in 1 .. d + m /\ i <= d
    BY SMT
  <2> QED
    BY <1>5, <2>1, Zenon
<1>7. ASSUME NEW i \in 1 .. m PROVE t[d + i] = b[i]
  <2>1. d + i \in 1 .. d + m /\ ~(d + i <= d) /\ d + i - d = i
    BY SMT
  <2>2. PICK j \in 1 .. d + m : j = d + i /\ ~(j <= d) /\ j - d = i
    BY <2>1, SMT
  <2>3. t[j] = b[j - d]
    BY <1>5, <2>2, Zenon
  <2> QED
    BY <2>2, <2>3
<1> QED
  BY <1>2, <1>3, <1>4, <1>6, <1>7, Zenon DEF Buffers

\* The buffers to be written: those of w from number k + 1 on, those of b and c.
Pending(w, k, b, c) == SubSeq(w, k + 1, Len(w)) \o b \o c

\* p is d buffers of w, those after the first k, then m of b and n of c.
Parts(p, w, k, b, c, d, m, n) ==
  /\ p \in Buffers /\ Len(p) = d + m + n
  /\ \A i \in 1 .. d : p[i] = w[k + i]
  /\ \A i \in 1 .. m : p[d + i] = b[i]
  /\ \A i \in 1 .. n : p[d + m + i] = c[i]

\* The buffers to be written by number.
LEMMA PendingIs ==
  ASSUME NEW w \in Buffers, NEW b \in Buffers, NEW c \in Buffers, NEW k \in Nat,
         NEW d \in Nat, NEW m \in Nat, NEW n \in Nat,
         Len(w) = k + d, Len(b) = m, Len(c) = n
  PROVE  Parts(Pending(w, k, b, c), w, k, b, c, d, m, n)
<1>1. w \in Seq(Buffer) /\ b \in Seq(Buffer) /\ c \in Seq(Buffer)
  BY DEF Buffers
<1>3. PICK s \in Buffers :
        s = SubSeq(w, k + 1, Len(w)) /\ Len(s) = d /\ \A i \in 1 .. d : s[i] = w[k + i]
  <2>1. Len(w) \in Nat /\ k \in Nat /\ k <= Len(w)
    BY SMT
  <2>2. \A i \in k + 1 .. Len(w) : w[i] \in Buffer
    <3> SUFFICES ASSUME NEW i \in k + 1 .. Len(w) PROVE w[i] \in Buffer
      OBVIOUS
    <3>1. i \in 1 .. Len(w)
      BY <2>1, SMT
    <3> QED
      BY <1>1, <3>1, ElementOfSeq
  <2>3. k + 1 \in Int /\ Len(w) \in Int
    BY <2>1, SMT
  <2>4. /\ SubSeq(w, k + 1, Len(w)) \in Seq(Buffer)
        /\ Len(SubSeq(w, k + 1, Len(w))) = IF k + 1 <= Len(w) THEN Len(w) - (k + 1) + 1 ELSE 0
        /\ \A i \in 1 .. Len(w) - (k + 1) + 1 : SubSeq(w, k + 1, Len(w))[i] = w[k + 1 + i - 1]
    BY <2>2, <2>3, SubSeqProperties, SMT
  <2>5. Len(SubSeq(w, k + 1, Len(w))) = d
    BY <2>1, <2>4, SMT
  <2>6. ASSUME NEW i \in 1 .. d PROVE SubSeq(w, k + 1, Len(w))[i] = w[k + i]
    <3>1. i \in 1 .. Len(w) - (k + 1) + 1 /\ k + 1 + i - 1 = k + i
      BY <2>1, SMT
    <3> QED
      BY <2>4, <3>1
  <2> QED
    BY <2>4, <2>5, <2>6 DEF Buffers
<1>4. PICK t : t = s \o b
  OBVIOUS
<1>5. /\ t \in Buffers /\ Len(t) = d + m
      /\ \A i \in 1 .. d : t[i] = s[i]
      /\ \A i \in 1 .. m : t[d + i] = b[i]
  <2>1. /\ s \o b \in Buffers /\ Len(s \o b) = Len(s) + Len(b)
        /\ \A i \in 1 .. Len(s) : (s \o b)[i] = s[i]
        /\ \A i \in 1 .. Len(b) : (s \o b)[Len(s) + i] = b[i]
    BY JoinedIs, Zenon
  <2> QED
    BY <1>3, <1>4, <2>1, Zenon
<1>6. PICK p : p = t \o c
  OBVIOUS
<1>7. d + m \in Nat
  BY SMT
<1>8. /\ p \in Buffers /\ Len(p) = (d + m) + n
      /\ \A i \in 1 .. (d + m) : p[i] = t[i]
      /\ \A i \in 1 .. n : p[(d + m) + i] = c[i]
  <2>1. /\ t \o c \in Buffers /\ Len(t \o c) = Len(t) + Len(c)
        /\ \A i \in 1 .. Len(t) : (t \o c)[i] = t[i]
        /\ \A i \in 1 .. Len(c) : (t \o c)[Len(t) + i] = c[i]
    BY <1>5, JoinedIs, Zenon
  <2> QED
    BY <1>5, <1>6, <2>1, Zenon
<1>9. ASSUME NEW i \in 1 .. d PROVE p[i] = w[k + i]
  <2>1. i \in 1 .. (d + m)
    BY SMT
  <2> QED
    BY <1>3, <1>5, <1>8, <2>1, Zenon
<1>10. ASSUME NEW i \in 1 .. m PROVE p[d + i] = b[i]
  <2>1. d + i \in 1 .. (d + m)
    BY SMT
  <2> QED
    BY <1>5, <1>8, <2>1, Zenon
<1>11. p = Pending(w, k, b, c)
  BY <1>3, <1>4, <1>6, Zenon DEF Pending
<1> QED
  BY <1>8, <1>9, <1>10, <1>11, Zenon DEF Parts

\* Writing the next buffer of w.
LEMMA PendingNext ==
  ASSUME NEW w \in Buffers, NEW b \in Buffers, NEW c \in Buffers, NEW k \in Nat, k < Len(w)
  PROVE  /\ Pending(w, k, b, c)[1] = w[k + 1]
         /\ Shortened(Pending(w, k, b, c), Pending(w, k + 1, b, c))
<1> DEFINE p == Pending(w, k, b, c)
           q == Pending(w, k + 1, b, c)
<1> HIDE DEF p, q
<1>0. Len(w) \in Nat /\ Len(b) \in Nat /\ Len(c) \in Nat
  BY LenProperties DEF Buffers
<1>1. PICK e \in Nat, m \in Nat, n \in Nat :
        Len(w) = (k + 1) + e /\ Len(b) = m /\ Len(c) = n
  <2>1. Len(w) - (k + 1) \in Nat /\ Len(w) = (k + 1) + (Len(w) - (k + 1))
    BY <1>0, SMT
  <2> QED
    BY <1>0, <2>1
<1>2. e + 1 \in Nat /\ k + 1 \in Nat /\ Len(w) = k + (e + 1)
  BY <1>1, SMT
<1>3. Parts(p, w, k, b, c, e + 1, m, n)
  BY <1>1, <1>2, PendingIs DEF p, q
<1>4. Parts(q, w, k + 1, b, c, e, m, n)
  BY <1>1, <1>2, PendingIs DEF p, q
<1>5. ASSUME NEW i \in 1 .. Len(q) PROVE q[i] = p[i + 1]
  <2>0. Len(q) = e + m + n
    BY <1>4 DEF Parts
  <2>1. CASE i <= e
    <3>1. i \in 1 .. e /\ i + 1 \in 1 .. e + 1 /\ k + 1 + i = k + (i + 1)
      BY <2>1, SMT
    <3>2. q[i] = w[k + 1 + i] /\ p[i + 1] = w[k + (i + 1)]
      BY <1>3, <1>4, <3>1, Zenon DEF Parts
    <3> QED
      BY <3>1, <3>2
  <2>2. CASE i > e /\ i <= e + m
    <3>1. PICK j \in 1 .. m : j = i - e /\ e + j = i /\ e + 1 + j = i + 1
      BY <2>2, SMT
    <3>2. q[e + j] = b[j] /\ p[e + 1 + j] = b[j]
      BY <1>3, <1>4, Zenon DEF Parts
    <3> QED
      BY <3>1, <3>2
  <2>3. CASE i > e + m
    <3>1. PICK j \in 1 .. n : j = i - (e + m) /\ e + m + j = i /\ e + 1 + m + j = i + 1
      BY <2>0, <2>3, SMT
    <3>2. q[e + m + j] = c[j] /\ p[e + 1 + m + j] = c[j]
      BY <1>3, <1>4, Zenon DEF Parts
    <3> QED
      BY <3>1, <3>2
  <2> QED
    BY <2>0, <2>1, <2>2, <2>3, SMT
<1>6. p \in Buffers /\ q \in Buffers /\ Len(p) = e + 1 + m + n /\ Len(q) = e + m + n
  BY <1>3, <1>4, Zenon DEF Parts
<1>7. Len(p) = Len(q) + 1 /\ 1 \in 1 .. e + 1
  BY <1>6, SMT
<1>8. p[1] = w[k + 1]
  BY <1>3, <1>7, Zenon DEF Parts
<1> QED
  BY <1>5, <1>6, <1>7, <1>8 DEF Shortened, p, q

\* Sequences of no line and of one.
LEMMA Few ==
  /\ <<>> \in Seq(Line) /\ Len(<<>>) <= 1 /\ Range(<<>>) = {}
  /\ \A line \in Line : <<line>> \in Seq(Line) /\ Len(<<line>>) <= 1 /\ Range(<<line>>) = {line}
<1>1. <<>> \in Seq(Line) /\ Len(<<>>) <= 1 /\ DOMAIN <<>> = {}
  BY SMT
<1>2. Range(<<>>) = {}
  BY <1>1 DEF Range
<1>3. ASSUME NEW line \in Line
      PROVE  <<line>> \in Seq(Line) /\ Len(<<line>>) <= 1 /\ Range(<<line>>) = {line}
  <2>1. <<line>> \in Seq(Line) /\ Len(<<line>>) = 1 /\ DOMAIN <<line>> = {1} /\ <<line>>[1] = line
    BY SMT
  <2> QED
    BY <2>1, SMT DEF Range
<1> QED
  BY <1>1, <1>2, <1>3

\* Lines a were logged, numbered one by one, and those of gone among them were lost.
Numbered(a, gone) ==
  /\ \A i \in 1 .. Len(a) : a[i].id = i
  /\ gone \subseteq Line /\ \A x \in gone : x.id <= Len(a)

\* They are where they should be: those written in f, the others in the buffers of u.
Holds(f, u, a, gone) ==
  /\ InOrder(f, u)
  /\ Lines(Staged(f, u)) = {x \in Range(a) : x.len < kSize /\ x \notin gone}

\* The lines that are somewhere have numbers up to the last one's.
LEMMA NumbersUpTo ==
  ASSUME NEW f \in Seq(Line), NEW u \in Buffers, NEW a \in Seq(Line), NEW gone,
         Numbered(a, gone), Holds(f, u, a, gone)
  PROVE  /\ Len(a) \in Nat /\ Lines(Staged(f, u)) \subseteq Line
         /\ \A x \in Range(a) : x \in Line /\ x.id \in Nat /\ x.id <= Len(a)
         /\ \A x \in Lines(Staged(f, u)) : x.id \in Nat /\ x.id <= Len(a)
<1>1. Len(a) \in Nat
  BY LenProperties
<1>2. ASSUME NEW x \in Range(a) PROVE x \in Line /\ x.id \in Nat /\ x.id <= Len(a)
  <2>1. PICK i \in 1 .. Len(a) : x = a[i]
    BY RangeIs
  <2>2. a[i] \in Line /\ a[i].id = i
    BY RangeIs DEF Numbered
  <2> QED
    BY <1>1, <2>1, <2>2, SMT
<1>3. Lines(Staged(f, u)) \subseteq Range(a)
  BY DEF Holds
<1> QED
  BY <1>1, <1>2, <1>3

\* One more line logged.
LEMMA OneMore ==
  ASSUME NEW f \in Seq(Line), NEW u \in Buffers, NEW a \in Seq(Line), NEW gone,
         Numbered(a, gone), Holds(f, u, a, gone), NEW line \in Line, line.id = Len(a) + 1
  PROVE  /\ Numbered(Append(a, line), gone) /\ line \notin gone
         /\ Range(Append(a, line)) = Range(a) \cup {line}
         /\ \A x \in Lines(Staged(f, u)) : x.id < line.id
<1>1. PICK n \in Nat : n = Len(a) /\ line.id = n + 1
  BY LenProperties
<1>2. PICK b \in Seq(Line) :
        b = Append(a, line) /\ Len(b) = n + 1 /\ b[n + 1] = line /\ \A i \in 1 .. n : b[i] = a[i]
  <2>1. /\ Append(a, line) \in Seq(Line) /\ Len(Append(a, line)) = Len(a) + 1
        /\ \A i \in 1 .. Len(a) : Append(a, line)[i] = a[i]
        /\ Append(a, line)[Len(a) + 1] = line
    BY AppendProperties, SMT
  <2> QED
    BY <1>1, <2>1, Zenon
<1>3. \A i \in 1 .. n + 1 : i \in 1 .. n \/ i = n + 1
  BY <1>1, SMT
<1>4. \A i \in 1 .. n + 1 : b[i].id = i
  BY <1>1, <1>2, <1>3 DEF Numbered
<1>5. \A x \in gone : x.id \in Nat /\ x.id <= n /\ x.id <= n + 1 /\ x.id # n + 1
  BY <1>1, SMT DEF Numbered, Line
<1>6. Numbered(b, gone)
  BY <1>2, <1>4, <1>5 DEF Numbered
<1>7. line \notin gone
  BY <1>1, <1>5
<1>8. ASSUME NEW x PROVE x \in Range(b) <=> x \in Range(a) \cup {line}
  <2>1. x \in Range(b) <=> \E i \in 1 .. n + 1 : x = b[i]
    <3>1. x \in Range(b) <=> \E i \in 1 .. Len(b) : x = b[i]
      BY RangeIs
    <3> QED
      BY <1>2, <3>1
  <2>2. x \in Range(a) <=> \E i \in 1 .. n : x = a[i]
    BY <1>1, RangeIs
  <2>3. n + 1 \in 1 .. n + 1 /\ \A i \in 1 .. n : i \in 1 .. n + 1
    BY SMT
  <2> QED
    BY <1>2, <1>3, <2>1, <2>2, <2>3
<1>9. \A x \in Lines(Staged(f, u)) : x.id < line.id
  <2>1. \A x \in Lines(Staged(f, u)) : x.id \in Nat /\ x.id <= n
    BY <1>1, NumbersUpTo
  <2> QED
    BY <1>1, <2>1, SMT
<1> QED
  BY <1>2, <1>6, <1>7, <1>8, <1>9

\* append() with room in the current buffer.
LEMMA LoggedWithRoom ==
  ASSUME NEW f \in Seq(Line), NEW u \in Buffers, NEW a \in Seq(Line), NEW gone,
         Numbered(a, gone), Holds(f, u, a, gone), NEW line \in Line, line.id = Len(a) + 1,
         line.len < kSize, NEW v \in Buffers, Grown(u, v, line)
  PROVE  Numbered(Append(a, line), gone) /\ Holds(f, v, Append(a, line), gone)
<1>1. /\ Numbered(Append(a, line), gone) /\ line \notin gone
      /\ Range(Append(a, line)) = Range(a) \cup {line}
      /\ \A x \in Lines(Staged(f, u)) : x.id < line.id
  BY OneMore
<1>2. InOrder(f, v) /\ Lines(Staged(f, v)) = Lines(Staged(f, u)) \cup {line}
  <2>1. InOrder(f, u)
    BY DEF Holds
  <2> QED
    BY <1>1, <2>1, BufferGrown, SMT
<1>3. Holds(f, v, Append(a, line), gone)
  BY <1>1, <1>2 DEF Holds
<1> QED
  BY <1>1, <1>3

\* append() without: the line begins a new buffer, if a buffer can take it.
LEMMA LoggedWithoutRoom ==
  ASSUME NEW f \in Seq(Line), NEW u \in Buffers, NEW a \in Seq(Line), NEW gone,
         Numbered(a, gone), Holds(f, u, a, gone), NEW line \in Line, line.id = Len(a) + 1,
         NEW v \in Buffers, Extended(u, v, IF line.len < kSize THEN <<line>> ELSE <<>>)
  PROVE  Numbered(Append(a, line), gone) /\ Holds(f, v, Append(a, line), gone)
<1>1. /\ Numbered(Append(a, line), gone) /\ line \notin gone
      /\ Range(Append(a, line)) = Range(a) \cup {line}
      /\ \A x \in Lines(Staged(f, u)) : x.id < line.id
  BY OneMore
<1>2. PICK new \in Seq(Line) :
        /\ Extended(u, v, new) /\ Len(new) <= 1
        /\ Range(new) = IF line.len < kSize THEN {line} ELSE {}
  <2>1. CASE line.len < kSize
    BY <2>1, Few, Zenon
  <2>2. CASE ~(line.len < kSize)
    BY <2>2, Few, Zenon
  <2> QED
    BY <2>1, <2>2
<1>3. \A x \in Lines(Staged(f, u)), y \in Range(new) : x.id < y.id
  BY <1>1, <1>2, SMT
<1>4. InOrder(f, v) /\ Lines(Staged(f, v)) = Lines(Staged(f, u)) \cup Range(new)
  <2>1. InOrder(f, u)
    BY DEF Holds
  <2> QED
    BY <1>2, <1>3, <2>1, BufferAdded, SMT
<1>5. Holds(f, v, Append(a, line), gone)
  BY <1>1, <1>2, <1>4 DEF Holds
<1> QED
  BY <1>1, <1>5

\* threadFunc() takes the buffers and leaves an empty one.
LEMMA TakenIs ==
  ASSUME NEW f \in Seq(Line), NEW u \in Buffers, NEW a, NEW gone, Holds(f, u, a, gone),
         NEW v \in Buffers, Extended(u, v, <<>>)
  PROVE  Holds(f, v, a, gone)
<1>1. PICK new \in Seq(Line) : Extended(u, v, new) /\ Len(new) <= 1 /\ Range(new) = {}
  BY Few, Zenon
<1>2. \A x \in Lines(Staged(f, u)), y \in Range(new) : x.id < y.id
  BY <1>1
<1>3. InOrder(f, v) /\ Lines(Staged(f, v)) = Lines(Staged(f, u)) \cup Range(new)
  <2>1. InOrder(f, u)
    BY DEF Holds
  <2>2. Extended(u, v, new) /\ Len(new) <= 1
    BY <1>1
  <2> QED
    BY <1>2, <2>1, <2>2, BufferAdded, SMT
<1> QED
  BY <1>1, <1>3 DEF Holds

\* A buffer is written to a file, or there is none to write it to.
LEMMA WrittenIs ==
  ASSUME NEW f \in Seq(Line), NEW u \in Buffers, NEW a \in Seq(Line), NEW gone,
         Numbered(a, gone), Holds(f, u, a, gone),
         NEW v \in Buffers, Shortened(u, v)
  PROVE  /\ Holds(f \o u[1].data_, v, a, gone)
         /\ Holds(f, v, a, gone \cup Range(u[1].data_))
         /\ Numbered(a, gone \cup Range(u[1].data_))
<1>1. /\ InOrder(f \o u[1].data_, v)
      /\ Lines(Staged(f \o u[1].data_, v)) = Lines(Staged(f, u))
  BY FirstWritten DEF Holds
<1>2. InOrder(f, v) /\ Lines(Staged(f, v)) = Lines(Staged(f, u)) \ Range(u[1].data_)
  BY FirstLost DEF Holds
<1>3. Range(u[1].data_) \subseteq Lines(Staged(f, u))
  <2>1. 1 \in 1 .. Len(u)
    BY FirstIs
  <2> QED
    BY <2>1, LinesIs
<1>4. /\ \A x \in Range(a) : x \in Line /\ x.id \in Nat /\ x.id <= Len(a)
      /\ Lines(Staged(f, u)) \subseteq Range(a)
  <2>1. \A x \in Range(a) : x \in Line /\ x.id \in Nat /\ x.id <= Len(a)
    BY NumbersUpTo
  <2> QED
    BY <2>1 DEF Holds
<1>5. Numbered(a, gone \cup Range(u[1].data_))
  BY <1>3, <1>4 DEF Numbered
<1> QED
  BY <1>1, <1>2, <1>5 DEF Holds

\* resetAsyncLogging(): what is in the buffers is dropped.
LEMMA DroppedIs ==
  ASSUME NEW f \in Seq(Line), NEW u \in Buffers, NEW a \in Seq(Line), NEW gone,
         Numbered(a, gone), Holds(f, u, a, gone), NEW v \in Buffers, Len(v) = 1, v[1].data_ = <<>>
  PROVE  Holds(f, v, a, gone \cup Lines(DataOf(u))) /\ Numbered(a, gone \cup Lines(DataOf(u)))
<1>1. ASSUME NEW x PROVE x \in Lines(DataOf(u)) <=> \E b \in 1 .. Len(u) : x \in Range(u[b].data_)
  <2>1. DOMAIN u = 1 .. Len(u)
    BY LenProperties DEF Buffers
  <2>2. DOMAIN DataOf(u) = 1 .. Len(u) /\ \A b \in 1 .. Len(u) : DataOf(u)[b] = u[b].data_
    BY <2>1 DEF DataOf
  <2> QED
    BY <2>2 DEF Lines
<1>2. ASSUME NEW x PROVE x \in Lines(Staged(f, u)) <=> x \in Range(f) \/ x \in Lines(DataOf(u))
  BY <1>1, LinesIs
<1>3. Range(v[1].data_) = {} /\ 1 \in 1 .. 1 /\ \A b \in 1 .. 1 : b = 1
  BY Few, SMT
<1>4. ASSUME NEW x PROVE x \in Lines(Staged(f, v)) <=> x \in Range(f)
  <2>1. x \in Lines(Staged(f, v)) <=> x \in Range(f) \/ \E b \in 1 .. Len(v) : x \in Range(v[b].data_)
    BY LinesIs
  <2> QED
    BY <1>3, <2>1
<1>5. ASSUME NEW x, x \in Range(f), x \in Lines(DataOf(u)) PROVE FALSE
  <2>1. PICK b \in 1 .. Len(u) : x \in Range(u[b].data_)
    BY <1>1, <1>5
  <2>2. Before(f, u[b].data_)
    BY DEF Holds, InOrder
  <2>3. x.id < x.id /\ x.id \in Nat
    BY <1>5, <2>1, <2>2, RangeIs DEF Before, Line
  <2> QED
    BY <2>3, SMT
<1>6. InOrder(f, v)
  <2>1. Increasing(v[1].data_)
    BY SMT DEF Increasing
  <2>2. Before(f, v[1].data_)
    BY <1>3 DEF Before
  <2> QED
    BY <1>3, <2>1, <2>2, SMT DEF Holds, InOrder
<1>7. Lines(Staged(f, v)) = Lines(Staged(f, u)) \ Lines(DataOf(u))
  BY <1>2, <1>4, <1>5
<1>8. /\ \A x \in Range(a) : x \in Line /\ x.id \in Nat /\ x.id <= Len(a)
      /\ Lines(Staged(f, u)) \subseteq Range(a)
  <2>1. \A x \in Range(a) : x \in Line /\ x.id \in Nat /\ x.id <= Len(a)
    BY NumbersUpTo
  <2> QED
    BY <2>1 DEF Holds
<1>9. Numbered(a, gone \cup Lines(DataOf(u)))
  BY <1>2, <1>8 DEF Numbered
<1> QED
  BY <1>6, <1>7, <1>9 DEF Holds

\* No buffer of w is left to be written.
LEMMA PendingDone ==
  ASSUME NEW w \in Buffers, NEW b \in Buffers, NEW c \in Buffers
  PROVE  Pending(w, Len(w), b, c) = b \o c
<1>1. w \in Seq(Buffer) /\ b \in Seq(Buffer) /\ Len(w) \in Nat
  BY LenProperties DEF Buffers
<1>2. SubSeq(w, Len(w) + 1, Len(w)) = <<>>
  BY <1>1, SMT
<1>3. <<>> \o b = b
  BY <1>1, ConcatEmptySeq
<1> QED
  BY <1>2, <1>3, Zenon DEF Pending

\* What is to be written is a sequence of buffers.
LEMMA PendingType ==
  ASSUME NEW w \in Buffers, NEW b \in Buffers, NEW c \in Buffers, NEW k \in 0 .. Len(w)
  PROVE  Pending(w, k, b, c) \in Buffers
<1>1. PICK d \in Nat, m \in Nat, n \in Nat : Len(w) = k + d /\ Len(b) = m /\ Len(c) = n /\ k \in Nat
  <2>1. Len(w) \in Nat /\ Len(b) \in Nat /\ Len(c) \in Nat
    BY LenProperties DEF Buffers
  <2>2. Len(w) - k \in Nat /\ Len(w) = k + (Len(w) - k) /\ k \in Nat
    BY <2>1, SMT
  <2> QED
    BY <2>1, <2>2
<1>2. Parts(Pending(w, k, b, c), w, k, b, c, d, m, n)
  BY <1>1, PendingIs
<1> QED
  BY <1>2 DEF Parts

\* threadFunc() takes the buffers of b and c, and puts an empty one in their place.
LEMMA PendingTaken ==
  ASSUME NEW b \in Buffers, NEW c \in Buffers
  PROVE  Extended(Pending(<<>>, 0, b, c), Pending(b \o c, 0, <<>>, <<EmptyBuffer>>), <<>>)
<1>1. <<>> \in Buffers /\ Len(<<>>) = 0 /\ <<EmptyBuffer>> \in Buffers /\ Len(<<EmptyBuffer>>) = 1
      /\ <<EmptyBuffer>>[1] = EmptyBuffer
  BY EmptyType, SMT DEF Buffers
<1>2. PICK p \in Buffers : p = b \o c
  BY Vectors
<1>3. Pending(<<>>, 0, b, c) = p
  <2>1. PICK z \in Buffers : z = <<>> /\ Len(z) = 0
    BY <1>1
  <2>2. Pending(z, Len(z), b, c) = b \o c
    BY PendingDone
  <2> QED
    BY <1>2, <2>1, <2>2
<1>4. PICK d \in Nat : Len(p) = 0 + d /\ d + 0 = d /\ d + 0 + 1 = d + 1 /\ Len(p) = d
  <2>1. Len(p) \in Nat
    BY LenProperties DEF Buffers
  <2> QED
    BY <2>1, SMT
<1>5. PICK e \in Buffers, n \in Buffers : e = <<>> /\ n = <<EmptyBuffer>> /\ Len(e) = 0 /\ Len(n) = 1
                                           /\ n[1] = EmptyBuffer
  BY <1>1
<1>6. Parts(Pending(p, 0, e, n), p, 0, e, n, d, 0, 1)
  <2>1. PICK k \in Nat, one \in Nat :
          k = 0 /\ one = 1 /\ Len(p) = k + d /\ Len(e) = k /\ Len(n) = one
    BY <1>4, <1>5
  <2>2. Parts(Pending(p, k, e, n), p, k, e, n, d, k, one)
    BY <2>1, PendingIs
  <2> QED
    BY <2>1, <2>2
<1>7. PICK q : q = Pending(p, 0, e, n)
  OBVIOUS
<1>8. /\ Len(q) = d + 0 + 1 /\ \A i \in 1 .. d : q[i] = p[0 + i]
      /\ \A i \in 1 .. 1 : q[d + 0 + i] = n[i]
  BY <1>6, <1>7, Zenon DEF Parts
<1>9. ASSUME NEW i \in 1 .. d PROVE q[i] = p[i]
  <2>1. 0 + i = i
    BY SMT
  <2> QED
    BY <1>8, <2>1
<1>10. q[d + 1] = EmptyBuffer
  <2>1. 1 \in 1 .. 1
    BY SMT
  <2>2. q[d + 0 + 1] = n[1]
    BY <1>8, <2>1, Zenon
  <2> QED
    BY <1>4, <1>5, <2>2
<1>11. Extended(p, q, <<>>)
  BY <1>4, <1>8, <1>9, <1>10, SMT DEF Extended, EmptyBuffer
<1> QED
  BY <1>2, <1>3, <1>5, <1>7, <1>11, Zenon

\* append() adds a line to the current buffer.
LEMMA PendingGrown ==
  ASSUME NEW w \in Buffers, NEW b \in Buffers, NEW c \in Buffers, NEW k \in 0 .. Len(w),
         NEW e \in Buffers, Len(c) = 1, Len(e) = 1, NEW line,
         e[1].data_ = Append(c[1].data_, line)
  PROVE  Grown(Pending(w, k, b, c), Pending(w, k, b, e), line)
<1>1. PICK d \in Nat, m \in Nat : Len(w) = k + d /\ Len(b) = m /\ k \in Nat
  <2>1. Len(w) \in Nat /\ Len(b) \in Nat
    BY LenProperties DEF Buffers
  <2>2. Len(w) - k \in Nat /\ Len(w) = k + (Len(w) - k) /\ k \in Nat
    BY <2>1, SMT
  <2> QED
    BY <2>1, <2>2
<1>2. Parts(Pending(w, k, b, c), w, k, b, c, d, m, 1)
  BY <1>1, PendingIs
<1>3. Parts(Pending(w, k, b, e), w, k, b, e, d, m, 1)
  BY <1>1, PendingIs
<1>4. PICK p \in Buffers, q \in Buffers : p = Pending(w, k, b, c) /\ q = Pending(w, k, b, e)
  BY <1>2, <1>3 DEF Parts
<1>5. /\ Len(p) = d + m + 1 /\ Len(q) = d + m + 1
      /\ \A i \in 1 .. d : p[i] = q[i]
      /\ \A i \in 1 .. m : p[d + i] = q[d + i]
      /\ \A i \in 1 .. 1 : p[d + m + i] = c[i] /\ q[d + m + i] = e[i]
  BY <1>2, <1>3, <1>4, Zenon DEF Parts
<1>6. p[d + m + 1] = c[1] /\ q[d + m + 1] = e[1]
  <2>1. 1 \in 1 .. 1
    BY SMT
  <2> QED
    BY <1>5, <2>1, Zenon
<1>7. ASSUME NEW i \in 1 .. d + m + 1 - 1 PROVE q[i] = p[i]
  <2>1. CASE i <= d
    BY <1>5, <2>1, SMT
  <2>2. CASE i > d
    <3>1. PICK j \in 1 .. m : i = d + j
      <4>1. i - d \in 1 .. m /\ i = d + (i - d)
        BY <2>2, SMT
      <4> QED
        BY <4>1
    <3> QED
      BY <1>5, <3>1, Zenon
  <2> QED
    BY <2>1, <2>2, SMT
<1>8. Grown(p, q, line)
  <2>1. Len(p) >= 1 /\ Len(q) = Len(p)
    BY <1>5, SMT
  <2>2. q[Len(p)].data_ = Append(p[Len(p)].data_, line)
    BY <1>5, <1>6
  <2>3. \A i \in 1 .. Len(p) - 1 : q[i] = p[i]
    BY <1>5, <1>7, SMT
  <2> QED
    BY <2>1, <2>2, <2>3 DEF Grown
<1> QED
  BY <1>4, <1>8

\* append() begins a new buffer, e.
LEMMA PendingFull ==
  ASSUME NEW w \in Buffers, NEW b \in Buffers, NEW c \in Buffers, NEW k \in 0 .. Len(w),
         NEW e \in Buffers, Len(c) = 1, Len(e) = 1
  PROVE  Extended(Pending(w, k, b, c), Pending(w, k, b \o c, e), e[1].data_)
<1>1. PICK d \in Nat, m \in Nat : Len(w) = k + d /\ Len(b) = m /\ k \in Nat /\ m + 1 \in Nat
  <2>1. Len(w) \in Nat /\ Len(b) \in Nat
    BY LenProperties DEF Buffers
  <2>2. Len(w) - k \in Nat /\ Len(w) = k + (Len(w) - k) /\ k \in Nat /\ Len(b) + 1 \in Nat
    BY <2>1, SMT
  <2> QED
    BY <2>1, <2>2
<1>2. PICK t \in Buffers :
        /\ t = b \o c /\ Len(t) = m + 1
        /\ \A i \in 1 .. m : t[i] = b[i]
        /\ \A i \in 1 .. 1 : t[m + i] = c[i]
  <2>1. /\ b \o c \in Buffers /\ Len(b \o c) = Len(b) + Len(c)
        /\ \A i \in 1 .. Len(b) : (b \o c)[i] = b[i]
        /\ \A i \in 1 .. Len(c) : (b \o c)[Len(b) + i] = c[i]
    BY JoinedIs, Zenon
  <2> QED
    BY <1>1, <2>1, Zenon
<1>3. Parts(Pending(w, k, b, c), w, k, b, c, d, m, 1)
  BY <1>1, PendingIs
<1>4. Parts(Pending(w, k, t, e), w, k, t, e, d, m + 1, 1)
  BY <1>1, <1>2, PendingIs
<1>5. PICK p \in Buffers, q \in Buffers : p = Pending(w, k, b, c) /\ q = Pending(w, k, t, e)
  BY <1>3, <1>4 DEF Parts
<1>6. /\ Len(p) = d + m + 1 /\ Len(q) = d + (m + 1) + 1
      /\ \A i \in 1 .. d : p[i] = q[i]
      /\ \A i \in 1 .. m : p[d + i] = b[i]
      /\ \A i \in 1 .. 1 : p[d + m + i] = c[i] /\ q[d + (m + 1) + i] = e[i]
      /\ \A i \in 1 .. m + 1 : q[d + i] = t[i]
  BY <1>3, <1>4, <1>5, Zenon DEF Parts
<1>7. ASSUME NEW i \in 1 .. m + 1 PROVE q[d + i] = p[d + i]
  <2>1. CASE i \in 1 .. m
    BY <1>2, <1>6, <2>1, Zenon
  <2>2. CASE i = m + 1
    <3>1. 1 \in 1 .. 1 /\ d + m + 1 = d + i
      BY <2>2, SMT
    <3>2. t[m + 1] = c[1] /\ p[d + m + 1] = c[1] /\ q[d + i] = t[i]
      BY <1>2, <1>6, <3>1, Zenon
    <3> QED
      BY <2>2, <3>1, <3>2
  <2> QED
    BY <2>1, <2>2, SMT
<1>8. ASSUME NEW i \in 1 .. Len(p) PROVE q[i] = p[i]
  <2>0. i \in 1 .. d + m + 1
    BY <1>6
  <2>1. CASE i <= d
    BY <1>6, <2>0, <2>1, SMT
  <2>2. CASE i > d
    <3>1. PICK j \in 1 .. m + 1 : i = d + j
      <4>1. i - d \in 1 .. m + 1 /\ i = d + (i - d)
        BY <2>0, <2>2, SMT
      <4> QED
        BY <4>1
    <3> QED
      BY <1>7, <3>1, Zenon
  <2> QED
    BY <2>0, <2>1, <2>2, SMT
<1>9. Len(q) = Len(p) + 1 /\ q[Len(p) + 1] = e[1]
  <2>1. 1 \in 1 .. 1 /\ Len(p) + 1 = d + (m + 1) + 1
    BY <1>6, SMT
  <2>2. q[d + (m + 1) + 1] = e[1]
    BY <1>6, <2>1, Zenon
  <2> QED
    BY <1>6, <2>1, <2>2
<1>10. Extended(p, q, e[1].data_)
  BY <1>8, <1>9 DEF Extended
<1> QED
  BY <1>2, <1>5, <1>10, Zenon

-----------------------------------------------------------------------------
\* Lines are where they should be; the spare buffers are empty; between batches
\* nothing is left to write; a logger that was stopped has left its buffers.
StageInv ==
  /\ Numbered(appended, dropped \cup output.lost)
  /\ Holds(InFile(output), Pending(buffersToWrite, written, buffers_, currentBuffer_),
           appended, dropped \cup output.lost)
  /\ \A p \in {nextBuffer_, newBuffer1, newBuffer2} : p = null \/ p = <<EmptyBuffer>>
  /\ pc # "write" => buffersToWrite = <<>>
  /\ owner = "null" => buffers_ = <<>> /\ currentBuffer_ = <<EmptyBuffer>>

\* What is written is a sequence of lines.
LEMMA InFileType == ASSUME NEW f \in File PROVE InFile(f) \in Seq(Line)
<1>1. PICK d \in Seq(Line), b \in Seq(Line) : d = LinesOf(f.disk) /\ b = f.buffer_
  BY LinesOfType DEF File
<1>2. d \o b \in Seq(Line)
  BY SMT
<1> QED
  BY <1>1, <1>2 DEF InFile

\* The state, named.
LEMMA StageIs ==
  ASSUME IInv, FileInv
  PROVE  /\ buffersToWrite \in Buffers /\ buffers_ \in Buffers /\ currentBuffer_ \in Buffers
         /\ written \in 0 .. Len(buffersToWrite) /\ Len(currentBuffer_) = 1
         /\ InFile(output) \in Seq(Line) /\ output \in File /\ appended \in Seq(Line)
         /\ Pending(buffersToWrite, written, buffers_, currentBuffer_) \in Buffers
  BY InFileType, PendingType DEF IInv, TypeOK, FileInv

\* Between batches the buffers to be written are the full ones and the current one.
LEMMA Between ==
  ASSUME IInv, StageInv, pc # "write"
  PROVE  buffersToWrite = <<>> /\ written = 0
<1>1. buffersToWrite = <<>> /\ written \in 0 .. Len(buffersToWrite)
  BY DEF IInv, TypeOK, StageInv
<1> QED
  BY <1>1, SMT

\* A BufferPtr that is not null.
LEMMA OneBuffer ==
  /\ \A x \in Buffer : <<x>> \in Buffers /\ Len(<<x>>) = 1 /\ <<x>>[1] = x
  /\ \A c \in Buffers : Len(c) = 1 => Head(c) = c[1] /\ c[1] \in Buffer
<1> DEFINE S == Buffer
<1> HIDE DEF S
<1>1. ASSUME NEW x \in S PROVE <<x>> \in Seq(S) /\ Len(<<x>>) = 1 /\ <<x>>[1] = x
  BY SMT
<1>2. ASSUME NEW c \in Seq(S), Len(c) = 1 PROVE Head(c) = c[1] /\ c[1] \in S
  <2>1. c # <<>> /\ 1 \in 1 .. Len(c)
    BY <1>2, SMT
  <2>2. Head(c) = c[1]
    BY <2>1, SMT
  <2>3. c[1] \in S
    BY <2>1, ElementOfSeq
  <2> QED
    BY <2>2, <2>3
<1> QED
  BY <1>1, <1>2 DEF S, Buffers

\* append(): the line goes behind all others.
LEMMA LogStages == ASSUME IInv, FileInv, StageInv, LogLine PROVE StageInv'
<1>1. CASE owner = "null"
  <2>1. pc # "write"
    BY <1>1 DEF FileInv
  <2>2. UNCHANGED <<sharedVars, threadVars, appended, dropped>>
    BY <1>1 DEF LogLine
  <2> QED
    BY <1>1, <2>1, <2>2 DEF StageInv, sharedVars, threadVars
<1>2. CASE owner # "null"
  <2>1. PICK line \in Line :
          AppendLine(line) /\ appended' = Append(appended, line) /\ line.id = Len(appended) + 1
    <3>1. PICK n \in Lengths : LET line == [id |-> Len(appended) + 1, len |-> n]
                               IN  AppendLine(line) /\ appended' = Append(appended, line)
      BY <1>2 DEF LogLine
    <3>2. Len(appended) + 1 \in Nat
      BY SMT DEF IInv, TypeOK
    <3>3. PICK line \in Line : line = [id |-> Len(appended) + 1, len |-> n]
      BY <3>2 DEF Line
    <3>4. line.id = Len(appended) + 1
      BY <3>3
    <3> QED
      BY <3>1, <3>3, <3>4
  <2>2. UNCHANGED <<pc, newBuffer1, newBuffer2, buffersToWrite, written, output, owner, dropped>>
    BY <1>2 DEF LogLine, threadVars, ownerVars
  <2>3. PICK w \in Buffers, b \in Buffers, c \in Buffers, k \in Nat :
          /\ w = buffersToWrite /\ b = buffers_ /\ c = currentBuffer_ /\ k = written
          /\ k \in 0 .. Len(w) /\ Len(c) = 1
    BY StageIs, SMT
  <2>4. PICK f \in Seq(Line), u \in Buffers, a \in Seq(Line) :
          f = InFile(output) /\ u = Pending(w, k, b, c) /\ a = appended
    BY <2>3, StageIs
  <2>5. PICK gone : gone = dropped \cup output.lost
    OBVIOUS
  <2>6. Numbered(a, gone) /\ Holds(f, u, a, gone) /\ line.id = Len(a) + 1
    BY <2>1, <2>3, <2>4, <2>5 DEF StageInv
  <2>7. PICK old \in Buffer : old = Head(currentBuffer_) /\ old = c[1]
    BY <2>3, OneBuffer
  <2>8. CASE avail(Head(currentBuffer_)) > line.len
    <3>1. buffers_' = b /\ nextBuffer_' = nextBuffer_ /\ currentBuffer_' = <<FixedAppend(old, line)>>
      BY <2>1, <2>3, <2>7, <2>8 DEF AppendLine
    <3>2. PICK new \in Buffer :
            new = FixedAppend(old, line) /\ new.data_ = Append(old.data_, line)
      <4>1. FixedAppend(old, line) \in Buffer
        BY FixedAppendType
      <4>2. FixedAppend(old, line).data_ = Append(old.data_, line)
        BY <2>7, <2>8 DEF FixedAppend
      <4> QED
        BY <4>1, <4>2
    <3>3. PICK e \in Buffers : e = <<new>> /\ Len(e) = 1 /\ e[1] = new /\ currentBuffer_' = e
      BY <3>1, <3>2, OneBuffer
    <3>4. PICK v \in Buffers : v = Pending(w, k, b, e)
      BY <2>3, PendingType
    <3>5. Grown(u, v, line)
      BY <2>3, <2>4, <2>7, <3>2, <3>3, <3>4, PendingGrown
    <3>6. line.len < kSize
      <4>1. line.len \in Nat /\ kSize \in Nat
        BY LoggingAssumption DEF Line
      <4>2. old.cur_ \in Nat
        BY DEF Buffer
      <4>3. kSize - old.cur_ > line.len
        BY <2>7, <2>8 DEF avail
      <4> QED
        BY <4>1, <4>2, <4>3, SMT
    <3>7. Numbered(Append(a, line), gone) /\ Holds(f, v, Append(a, line), gone)
      BY <2>6, <3>5, <3>6, LoggedWithRoom
    <3> QED
      BY <1>2, <2>1, <2>2, <2>3, <2>4, <2>5, <3>1, <3>3, <3>4, <3>7 DEF StageInv
  <2>9. CASE ~(avail(Head(currentBuffer_)) > line.len)
    <3>1. /\ buffers_' = b \o c /\ nextBuffer_' = null
          /\ currentBuffer_' = <<FixedAppend(EmptyBuffer, line)>>
      <4>1. (IF nextBuffer_ # null THEN Head(nextBuffer_) ELSE EmptyBuffer) = EmptyBuffer
        BY SMT DEF StageInv
      <4> QED
        BY <2>1, <2>3, <2>9, <4>1 DEF AppendLine
    <3>2. PICK new \in Buffer :
            /\ new = FixedAppend(EmptyBuffer, line)
            /\ new.data_ = IF line.len < kSize THEN <<line>> ELSE <<>>
      <4>1. FixedAppend(EmptyBuffer, line) \in Buffer
        BY EmptyType, FixedAppendType
      <4>2. avail(EmptyBuffer) = kSize /\ kSize \in Nat /\ line.len \in Nat
        <5>1. line.len \in Nat /\ kSize \in Nat
          BY LoggingAssumption DEF Line
        <5>2. EmptyBuffer.cur_ = 0
          BY DEF EmptyBuffer
        <5> QED
          BY <5>1, <5>2, SMT DEF avail
      <4>3. FixedAppend(EmptyBuffer, line).data_ = IF line.len < kSize THEN <<line>> ELSE <<>>
        BY <4>2, SMT DEF FixedAppend, EmptyBuffer
      <4> QED
        BY <4>1, <4>3
    <3>3. PICK e \in Buffers : e = <<new>> /\ Len(e) = 1 /\ e[1] = new /\ currentBuffer_' = e
      BY <3>1, <3>2, OneBuffer
    <3>4. PICK v \in Buffers : v = Pending(w, k, b \o c, e)
      BY <2>3, PendingType, Vectors
    <3>5. Extended(u, v, e[1].data_)
      BY <2>3, <2>4, <3>3, <3>4, PendingFull
    <3>6. Extended(u, v, IF line.len < kSize THEN <<line>> ELSE <<>>)
      BY <3>2, <3>3, <3>5
    <3>7. Numbered(Append(a, line), gone) /\ Holds(f, v, Append(a, line), gone)
      BY <2>6, <3>6, LoggedWithoutRoom
    <3> QED
      BY <1>2, <2>1, <2>2, <2>3, <2>4, <2>5, <3>1, <3>3, <3>4, <3>7 DEF StageInv
  <2> QED
    BY <2>8, <2>9
<1> QED
  BY <1>1, <1>2

\* A buffer is written: its lines are behind those written before, or lost.
LEMMA WriteStages == ASSUME IInv, FileInv, StageInv, WriteBuffer PROVE StageInv'
<1>1. PICK w \in Buffers, b \in Buffers, c \in Buffers, k \in Nat :
        /\ w = buffersToWrite /\ b = buffers_ /\ c = currentBuffer_ /\ k = written
        /\ k \in 0 .. Len(w) /\ k < Len(w) /\ k + 1 \in 0 .. Len(w) /\ k + 1 \in 1 .. Len(w)
  <2>1. written < Len(buffersToWrite) /\ Len(buffersToWrite) \in Nat
    BY StageIs, LenProperties DEF WriteBuffer, Buffers
  <2>2. written \in Nat /\ written + 1 \in 0 .. Len(buffersToWrite) /\ written + 1 \in 1 .. Len(buffersToWrite)
    BY <2>1, StageIs, SMT
  <2> QED
    BY <2>1, <2>2, StageIs
<1>2. PICK f \in Seq(Line), u \in Buffers, a \in Seq(Line) :
        f = InFile(output) /\ u = Pending(w, k, b, c) /\ a = appended
  BY <1>1, StageIs
<1>3. PICK v \in Buffers : v = Pending(w, k + 1, b, c)
  BY <1>1, PendingType
<1>4. PICK gone : gone = dropped \cup output.lost
  OBVIOUS
<1>5. Numbered(a, gone) /\ Holds(f, u, a, gone)
  BY <1>1, <1>2, <1>4 DEF StageInv
<1>6. Shortened(u, v) /\ u[1] = w[k + 1]
  <2>1. k < Len(w) /\ u = Pending(w, k, b, c) /\ v = Pending(w, k + 1, b, c)
    BY <1>1, <1>2, <1>3, Zenon
  <2> QED
    BY <2>1, PendingNext, SMT
<1>7. PICK x \in Buffer : x = buffersToWrite[written + 1] /\ x = u[1]
  <2>1. w \in Seq(Buffer)
    BY DEF Buffers
  <2>2. w[k + 1] \in Buffer
    BY <1>1, <2>1, ElementOfSeq
  <2> QED
    BY <1>1, <1>6, <2>2
<1>8. Added(output, x.data_, output')
  <2>1. clock \in Nat /\ clock' \in Nat /\ clock <= clock'
    BY LaterClocksType DEF WriteBuffer, FileInv
  <2>2. PICK t \in Nat : t = clock'
    BY <2>1
  <2>3. PICK g \in append(output, x.data_, x.cur_, clock, t) : g = output'
    BY <1>7, <2>2 DEF WriteBuffer
  <2>4. x.data_ \in Seq(Line) /\ x.cur_ \in Nat /\ output \in File /\ InTime(output, clock)
    BY DEF Buffer, FileInv
  <2>5. Added(output, x.data_, g)
    BY <2>1, <2>2, <2>4, AppendIs
  <2> QED
    BY <2>3, <2>5
<1>9. /\ Holds(f \o u[1].data_, v, a, gone)
      /\ Holds(f, v, a, gone \cup Range(u[1].data_))
      /\ Numbered(a, gone \cup Range(u[1].data_))
  BY <1>5, <1>6, WrittenIs
<1>10. /\ UNCHANGED <<pc, buffersToWrite, buffers_, currentBuffer_, nextBuffer_, newBuffer1,
                      newBuffer2, appended, dropped, owner>>
       /\ written' = k + 1
  BY <1>1 DEF WriteBuffer, sharedVars, otherVars, ownerVars
<1>11. Pending(buffersToWrite, written, buffers_, currentBuffer_)' = v
  BY <1>1, <1>3, <1>10
<1>12. /\ Numbered(a, (dropped \cup output.lost)')
       /\ Holds(InFile(output'), v, a, (dropped \cup output.lost)')
  <2>1. CASE InFile(output') = InFile(output) \o x.data_ /\ output'.lost = output.lost
    BY <1>2, <1>4, <1>5, <1>7, <1>9, <1>10, <2>1
  <2>2. CASE InFile(output') = InFile(output) /\ output'.lost = output.lost \cup Range(x.data_)
    <3>1. (dropped \cup output.lost)' = gone \cup Range(u[1].data_)
      BY <1>4, <1>7, <1>10, <2>2
    <3> QED
      BY <1>2, <1>9, <2>2, <3>1
  <2> QED
    BY <1>8, <2>1, <2>2 DEF Added
<1> QED
  BY <1>2, <1>10, <1>11, <1>12 DEF StageInv

\* The full buffers and the current one are taken, and an empty one is put there.
LEMMA TakeStages == ASSUME IInv, FileInv, StageInv, Take PROVE StageInv'
<1>1. PICK b \in Buffers, c \in Buffers : b = buffers_ /\ c = currentBuffer_
  BY StageIs
<1>2. pc \in {"lock", "waiting"} /\ newBuffer1 = <<EmptyBuffer>>
  <2>1. pc \in {"lock", "waiting"}
    BY DEF Take, WaitOver
  <2>2. Len(newBuffer1) = 1
    BY <2>1 DEF IInv, SparesInv, AtWork
  <2>3. newBuffer1 # null
    BY <2>2, SMT DEF null
  <2> QED
    BY <2>1, <2>3 DEF StageInv
<1>3. buffersToWrite = <<>> /\ written = 0
  BY <1>2, Between
<1>4. PICK f \in Seq(Line), u \in Buffers : f = InFile(output) /\ u = Pending(<<>>, 0, b, c)
  BY <1>1, <1>3, StageIs
<1>5. PICK gone : gone = dropped \cup output.lost
  OBVIOUS
<1>6. Holds(f, u, appended, gone)
  BY <1>1, <1>3, <1>4, <1>5 DEF StageInv
<1>7. /\ pc' = "write" /\ buffersToWrite' = b \o c /\ written' = 0 /\ buffers_' = <<>>
      /\ currentBuffer_' = <<EmptyBuffer>> /\ newBuffer1' = null
      /\ UNCHANGED <<output, appended, dropped, owner>>
  BY <1>1, <1>2 DEF Take, otherVars, ownerVars
<1>8. PICK v \in Buffers : v = Pending(b \o c, 0, <<>>, <<EmptyBuffer>>)
  <2>1. b \o c \in Buffers /\ 0 \in 0 .. Len(b \o c)
    BY Vectors, SMT
  <2>2. <<>> \in Buffers /\ <<EmptyBuffer>> \in Buffers
    BY EmptyType, OneBuffer, SMT DEF Buffers
  <2> QED
    BY <2>1, <2>2, PendingType
<1>9. Extended(u, v, <<>>)
  BY <1>4, <1>8, PendingTaken
<1>10. Holds(f, v, appended, gone)
  BY <1>6, <1>9, TakenIs
<1>11. \A p \in {nextBuffer_, newBuffer1, newBuffer2}' : p = null \/ p = <<EmptyBuffer>>
  BY <1>7 DEF Take, RefillNext, StageInv
<1>12. owner # "null"
  BY <1>2 DEF FileInv
<1> QED
  BY <1>4, <1>5, <1>7, <1>8, <1>10, <1>11, <1>12 DEF StageInv

\* All buffers are written, and the file is flushed.
LEMMA RecycleStages == ASSUME IInv, FileInv, StageInv, Recycle PROVE StageInv'
<1>1. /\ written = Len(buffersToWrite) /\ buffersToWrite' = <<>> /\ written' = 0
      /\ newBuffer1' = <<EmptyBuffer>> /\ newBuffer2' = <<EmptyBuffer>> /\ output' = flush(output)
      /\ UNCHANGED <<buffers_, currentBuffer_, nextBuffer_, appended, dropped, owner>>
  BY DEF Recycle, EndFlush, sharedVars, otherVars, ownerVars
<1>2. PICK w \in Buffers, b \in Buffers, c \in Buffers :
        w = buffersToWrite /\ b = buffers_ /\ c = currentBuffer_
  BY StageIs
<1>3. PICK z \in Buffers : z = <<>> /\ Len(z) = 0
  <2>1. <<>> \in Buffers
    BY SMT DEF Buffers
  <2>2. Len(<<>>) = 0
    OBVIOUS
  <2> QED
    BY <2>1, <2>2, Zenon
<1>4. Pending(w, Len(w), b, c) = b \o c /\ Pending(z, Len(z), b, c) = b \o c
  BY PendingDone
<1>5. Pending(buffersToWrite, written, buffers_, currentBuffer_)'
        = Pending(buffersToWrite, written, buffers_, currentBuffer_)
  BY <1>1, <1>2, <1>3, <1>4
<1>6. InFile(output') = InFile(output) /\ output'.lost = output.lost
  BY <1>1, FlushIs DEF FileInv, SameLog
<1> QED
  BY <1>1, <1>5, <1>6 DEF StageInv

\* What the other steps of threadFunc() leave as it is.
LEMMA ThreadStages == ASSUME IInv, FileInv, StageInv, Enter \/ While \/ Wait PROVE StageInv'
<1>1. CASE Enter
  <2>1. PICK d \in Seq(Entry), l \in SUBSET Line : d = output.disk /\ l = output.lost
    BY DEF FileInv, File
  <2>2. PICK f \in File : /\ f = Blank(d, l) /\ f.count_ = 0
                          /\ f.disk = d /\ f.lost = l /\ f.buffer_ = <<>>
    BY BlankType, SMT
  <2>3. clock \in Nat /\ clock' \in Nat /\ clock <= clock'
    BY <1>1, LaterClocksType DEF Enter, FileInv
  <2>4. PICK u \in Nat : u = clock' /\ clock <= u
    BY <2>3
  <2>5. PICK g \in Rolled(f, clock, u) : g = output'
    BY <1>1, <2>1, <2>2, <2>4 DEF Enter, Blank
  <2>6. f.count_ < checkEveryN_
    BY <2>2, LogFileAssumption, SMT
  <2>7. SameLog(f, g)
    BY <2>3, <2>4, <2>6, RolledIs
  <2>8. pc = "entry" /\ output.buffer_ = <<>>
    BY <1>1 DEF Enter, FileInv, FlushedBetweenBatches
  <2>9. InFile(output') = InFile(output) /\ output'.lost = output.lost
    BY <2>1, <2>2, <2>5, <2>7, <2>8 DEF SameLog, InFile
  <2>10. /\ newBuffer1' = <<EmptyBuffer>> /\ newBuffer2' = <<EmptyBuffer>>
         /\ UNCHANGED <<sharedVars, buffersToWrite, written, appended, dropped, owner>>
    BY <1>1 DEF Enter, otherVars, ownerVars
  <2> QED
    BY <2>8, <2>9, <2>10 DEF StageInv, sharedVars
<1>2. CASE While
  <2>1. InFile(output') = InFile(output) /\ output'.lost = output.lost
    BY <1>2, FlushIs DEF While, FileInv, SameLog
  <2>2. /\ pc = "while"
        /\ UNCHANGED <<sharedVars, newBuffer1, newBuffer2, buffersToWrite, written, appended,
                       dropped, owner>>
    BY <1>2 DEF While, otherVars, ownerVars
  <2> QED
    BY <2>1, <2>2 DEF StageInv, sharedVars
<1>3. CASE Wait
  BY <1>3 DEF Wait, StageInv, sharedVars, threadVars, otherVars, ownerVars
<1> QED
  BY <1>1, <1>2, <1>3

\* resetAsyncLogging() drops what is in the buffers, and the next logger starts
\* with empty ones.
LEMMA OwnerStages == ASSUME IInv, FileInv, StageInv, OwnerStep PROVE StageInv'
<1>1. CASE InitAsyncLogging
  <2>1. /\ pc # "write" /\ buffers_ = <<>> /\ currentBuffer_ = <<EmptyBuffer>>
    BY <1>1 DEF InitAsyncLogging, FileInv, StageInv
  <2>2. buffersToWrite = <<>> /\ written = 0
    BY <2>1, Between
  <2>3. /\ currentBuffer_' = <<EmptyBuffer>> /\ nextBuffer_' = <<EmptyBuffer>> /\ buffers_' = <<>>
        /\ newBuffer1' = null /\ newBuffer2' = null /\ buffersToWrite' = <<>> /\ written' = 0
        /\ owner' = "started" /\ UNCHANGED <<output, appended, dropped>>
    BY <1>1 DEF InitAsyncLogging, Construct
  <2> QED
    BY <2>1, <2>2, <2>3 DEF StageInv
<1>2. CASE SetAsyncOutput
  BY <1>2 DEF SetAsyncOutput, StageInv, sharedVars, threadVars
<1>3. CASE Stop
  BY <1>3 DEF Stop, StageInv, sharedVars, threadVars
<1>4. CASE StopNotify
  BY <1>4 DEF StopNotify, StageInv, sharedVars, threadVars
<1>5. CASE Join
  <2>1. pc # "write"
    BY <1>5 DEF Join
  <2>2. buffersToWrite = <<>> /\ written = 0
    BY <2>1, Between
  <2>3. /\ dropped' = dropped \cup Lines(DataOf(buffers_ \o currentBuffer_))
        /\ currentBuffer_' = <<EmptyBuffer>> /\ buffers_' = <<>>
        /\ UNCHANGED <<nextBuffer_, newBuffer1, newBuffer2, buffersToWrite, written, output, appended>>
    BY <1>5 DEF Join, threadVars
  <2>4. PICK z \in Buffers, e \in Buffers :
          z = <<>> /\ Len(z) = 0 /\ e = <<EmptyBuffer>> /\ Len(e) = 1 /\ e[1].data_ = <<>>
    <3>1. <<>> \in Buffers
      BY SMT DEF Buffers
    <3>2. Len(<<>>) = 0
      OBVIOUS
    <3>3. <<EmptyBuffer>> \in Buffers /\ Len(<<EmptyBuffer>>) = 1 /\ <<EmptyBuffer>>[1] = EmptyBuffer
      BY EmptyType, OneBuffer
    <3>4. EmptyBuffer.data_ = <<>>
      BY DEF EmptyBuffer
    <3> QED
      BY <3>1, <3>2, <3>3, <3>4, Zenon
  <2>5. PICK b \in Buffers, c \in Buffers, f \in Seq(Line), a \in Seq(Line) :
          b = buffers_ /\ c = currentBuffer_ /\ f = InFile(output) /\ a = appended
    BY StageIs
  <2>6. PICK u \in Buffers : u = b \o c
    BY Vectors
  <2>7. Pending(z, Len(z), b, c) = u /\ Pending(z, Len(z), z, e) = e
    <3>1. z \o e = e
      BY <2>4, ConcatEmptySeq DEF Buffers
    <3>2. Pending(z, Len(z), b, c) = b \o c
      BY PendingDone
    <3>3. Pending(z, Len(z), z, e) = z \o e
      BY PendingDone
    <3> QED
      BY <2>6, <3>1, <3>2, <3>3
  <2>8. PICK gone : gone = dropped \cup output.lost
    OBVIOUS
  <2>9. Numbered(a, gone) /\ Holds(f, u, a, gone)
    BY <2>2, <2>4, <2>5, <2>7, <2>8 DEF StageInv
  <2>10. Holds(f, e, a, gone \cup Lines(DataOf(u))) /\ Numbered(a, gone \cup Lines(DataOf(u)))
    BY <2>4, <2>9, DroppedIs
  <2>11. (dropped \cup output.lost)' = gone \cup Lines(DataOf(u))
    BY <2>3, <2>5, <2>6, <2>8
  <2>12. Pending(buffersToWrite, written, buffers_, currentBuffer_)' = e
    BY <2>2, <2>3, <2>4, <2>7
  <2> QED
    BY <2>2, <2>3, <2>5, <2>10, <2>11, <2>12 DEF StageInv
<1> QED
  BY <1>1, <1>2, <1>3, <1>4, <1>5 DEF OwnerStep

\* Every step keeps each line where it should be.
LEMMA NextStages == IInv /\ FileInv /\ StageInv /\ [Next]_vars => StageInv'
<1> SUFFICES ASSUME IInv, FileInv, StageInv, [Next]_vars PROVE StageInv'
  OBVIOUS
<1>1. CASE Tick
  BY <1>1 DEF Tick, StageInv, sharedVars, threadVars, ownerVars
<1>2. CASE UNCHANGED vars
  BY <1>2 DEF vars, StageInv, sharedVars, threadVars, ownerVars
<1> QED
  BY <1>1, <1>2, LogStages, WriteStages, TakeStages, RecycleStages, ThreadStages, OwnerStages
  DEF Next, ThreadStep

\* No line is lost, doubled or overtaken on its way from append() to the file, for any
\* size of a buffer, any lengths of the lines, any number of lines, files and loggers.
THEOREM LogKeepsOrder == Spec => []LogInOrder
<1>1. Init => StageInv
  <2> SUFFICES ASSUME Init PROVE StageInv
    OBVIOUS
  <2>1. PICK e \in Buffers, f \in Seq(Line) :
          e = <<EmptyBuffer>> /\ Len(e) = 1 /\ e[1] = EmptyBuffer /\ f = <<>> /\ Len(f) = 0 /\ Range(f) = {}
    <3>1. <<EmptyBuffer>> \in Buffers /\ Len(<<EmptyBuffer>>) = 1 /\ <<EmptyBuffer>>[1] = EmptyBuffer
      BY EmptyType, OneBuffer
    <3>2. Len(<<>>) = 0
      OBVIOUS
    <3> QED
      BY <3>1, <3>2, Few, Zenon
  <2>2. InFile(output) = f /\ output.lost = {}
    <3>1. output.disk = <<>> /\ output.buffer_ = <<>> /\ output.lost = {}
      BY DEF Init, NoFile
    <3>2. LinesOf(<<>>) = <<>> /\ <<>> \o <<>> = <<>>
      BY SMT DEF LinesOf
    <3> QED
      BY <2>1, <3>1, <3>2 DEF InFile
  <2>3. Pending(<<>>, 0, <<>>, e) = e
    <3>1. PICK z \in Buffers : z = <<>> /\ Len(z) = 0
      <4>1. <<>> \in Buffers
        BY SMT DEF Buffers
      <4>2. Len(<<>>) = 0
        OBVIOUS
      <4> QED
        BY <4>1, <4>2, Zenon
    <3>2. Pending(z, Len(z), z, e) = z \o e
      BY PendingDone
    <3>3. z \o e = e
      BY <3>1, ConcatEmptySeq DEF Buffers
    <3> QED
      BY <3>1, <3>2, <3>3
  <2>4. e[1].data_ = f
    BY <2>1 DEF EmptyBuffer
  <2>5. InOrder(f, e)
    <3>1. Increasing(f)
      BY <2>1, SMT DEF Increasing
    <3>2. Before(f, f)
      BY <2>1 DEF Before
    <3>3. \A b \in 1 .. Len(e) : b = 1
      BY <2>1, SMT
    <3> QED
      BY <2>4, <3>1, <3>2, <3>3 DEF InOrder
  <2>6. Lines(Staged(f, e)) = {}
    <3>1. \A b \in 1 .. Len(e) : b = 1
      BY <2>1, SMT
    <3>2. ASSUME NEW x
          PROVE  x \in Lines(Staged(f, e)) <=>
                   x \in Range(f) \/ \E b \in 1 .. Len(e) : x \in Range(e[b].data_)
      BY LinesIs
    <3> QED
      BY <2>1, <2>4, <3>1, <3>2
  <2>7. Numbered(f, {}) /\ Holds(f, e, f, {})
    BY <2>1, <2>5, <2>6, SMT DEF Numbered, Holds
  <2> QED
    BY <2>1, <2>2, <2>3, <2>7 DEF Init, StageInv
<1>2. IInv /\ FileInv /\ StageInv => LogInOrder
  <2> SUFFICES ASSUME IInv, FileInv, StageInv PROVE LogInOrder
    OBVIOUS
  <2>1. PICK f \in Seq(Line), u \in Buffers :
          f = InFile(output) /\ u = Pending(buffersToWrite, written, buffers_, currentBuffer_)
    BY StageIs
  <2>2. Stages = Staged(f, u)
    BY <2>1 DEF Stages, OnDisk, Unwritten, Staged, InFile, LinesOf, Pending
  <2>3. Holds(f, u, appended, dropped \cup output.lost)
    BY <2>1 DEF StageInv
  <2>4. Ordered(Staged(f, u))
    BY <2>3, OrderedIs DEF Holds
  <2>5. Lines(Staged(f, u)) = {line \in Range(appended) :
                                 line.len < kSize /\ line \notin dropped \cup output.lost}
    BY <2>3 DEF Holds
  <2> QED
    BY <2>2, <2>4, <2>5 DEF LogInOrder
<1> QED
  BY <1>1, <1>2, NextStages, Invariance, FileInvariance, PTL DEF Spec
=============================================================================
