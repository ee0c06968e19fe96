------------------------------- MODULE Buffer -------------------------------
(***************************************************************************)
(* Buffer (include/Buffer.h, src/base/Buffer.cpp): a vector with the       *)
(* readable bytes between readerIndex_ and writerIndex_ and room to        *)
(* prepend before them.  Indexes count from 0 as in the code; the vector   *)
(* is a sequence.  Operations are functions of the record b.               *)
(***************************************************************************)
EXTENDS Integers, Sequences

CONSTANTS
  Bytes,           \* byte values
  zero,            \* the byte a vector is filled with
  Data,            \* the byte strings that callers and the kernel give
  Lengths,         \* the lengths that callers ask for
  kCheapPrepend,
  kInitialSize,
  MaxReadable      \* bound: no bytes are added once this many are readable

ASSUME BufferAssumption ==
  /\ zero \in Bytes /\ Data \subseteq Seq(Bytes)
  /\ Lengths \subseteq Nat
  /\ kCheapPrepend \in Nat /\ kInitialSize \in Nat /\ MaxReadable \in Nat

VARIABLES
  b,      \* [buffer_, readerIndex_, writerIndex_]
  call    \* history: the last call, its argument or result

vars == <<b, call>>

Zeros(n) == [i \in 1..n |-> zero]

Make(buffer, reader, writer) ==
  [buffer_ |-> buffer, readerIndex_ |-> reader, writerIndex_ |-> writer]

Init ==
  /\ b = Make(Zeros(kCheapPrepend + kInitialSize), kCheapPrepend, kCheapPrepend)
  /\ call = [fn |-> "none", data |-> <<>>]

-----------------------------------------------------------------------------
size(x) == Len(x.buffer_)
readableBytes(x) == x.writerIndex_ - x.readerIndex_
writableBytes(x) == size(x) - x.writerIndex_
prependableBytes(x) == x.readerIndex_

\* The readable bytes: what peek() points to.
Readable(x) == SubSeq(x.buffer_, x.readerIndex_ + 1, x.writerIndex_)

\* std::copy of data to the offset at, and vector::resize() to n or more.
Copy(buffer, data, at) ==
  [i \in 1..Len(buffer) |-> IF at < i /\ i <= at + Len(data) THEN data[i - at] ELSE buffer[i]]
Resize(buffer, n) == IF Len(buffer) < n THEN buffer \o Zeros(n - Len(buffer)) ELSE buffer

\* retrieve() and, for n as large as what is there, retrieveAll().
retrieve(x, n) ==
  IF n < readableBytes(x)
  THEN [x EXCEPT !.readerIndex_ = @ + n]
  ELSE Make(x.buffer_, kCheapPrepend, kCheapPrepend)

MutFits(x, n) == writableBytes(x) + prependableBytes(x) >= n
Fits(x, n) == writableBytes(x) + prependableBytes(x) >= n + kCheapPrepend

\* Grow, or move the readable bytes to the front.
makeSpace(x, n) ==
  IF ~Fits(x, n)
  THEN [x EXCEPT !.buffer_ = Resize(@, x.writerIndex_ + n)]
  ELSE Make(Copy(x.buffer_, Readable(x), kCheapPrepend),
            kCheapPrepend, kCheapPrepend + readableBytes(x))

ensureWritableBytes(x, n) == IF writableBytes(x) < n THEN makeSpace(x, n) ELSE x

append(x, d) ==
  LET y == ensureWritableBytes(x, Len(d))
  IN  Make(Copy(y.buffer_, d, y.writerIndex_), y.readerIndex_, y.writerIndex_ + Len(d))

prepend(x, d) ==
  IF Len(d) < prependableBytes(x)
  THEN Make(Copy(x.buffer_, d, x.readerIndex_ - Len(d)), x.readerIndex_ - Len(d), x.writerIndex_)
  ELSE LET needed == kCheapPrepend + Len(d) + readableBytes(x)
           grown == Resize(x.buffer_, needed)
       IN  Make(Copy(Copy(grown, Readable(x), kCheapPrepend + Len(d)), d, kCheapPrepend),
                kCheapPrepend, needed)

shrink(x, reserve) ==
  Make(Copy(Zeros(kCheapPrepend + readableBytes(x) + reserve), Readable(x), kCheapPrepend),
       kCheapPrepend, kCheapPrepend + readableBytes(x))

MutReadFd(x, d) ==
  LET w == writableBytes(x)
      filled == Make(Copy(x.buffer_, d, x.writerIndex_), x.readerIndex_, x.writerIndex_ + Len(d))
  IN  IF Len(d) <= w THEN filled ELSE append(x, SubSeq(d, w + 1, Len(d)))

\* readv() fills the writable bytes first; what is left over went to extrabuf.
readFd(x, d) ==
  LET w == writableBytes(x)
      filled == Make(Copy(x.buffer_, d, x.writerIndex_), x.readerIndex_, x.writerIndex_ + Len(d))
      full == Make(Copy(x.buffer_, SubSeq(d, 1, w), x.writerIndex_), x.readerIndex_, size(x))
  IN  IF Len(d) <= w THEN filled ELSE append(full, SubSeq(d, w + 1, Len(d)))

\* write() took n bytes; the indexes are not reset when it took all.
writeFd(x, n) == [x EXCEPT !.readerIndex_ = @ + n]

-----------------------------------------------------------------------------
Room == readableBytes(b) < MaxReadable

Append_(d) == Room /\ b' = append(b, d) /\ call' = [fn |-> "append", data |-> d]

Prepend(d) == Room /\ b' = prepend(b, d) /\ call' = [fn |-> "prepend", data |-> d]

ReadFd(d) == Room /\ b' = readFd(b, d) /\ call' = [fn |-> "readFd", data |-> d]

Prefix(n) == SubSeq(Readable(b), 1, IF n < readableBytes(b) THEN n ELSE readableBytes(b))

Retrieve(n) == b' = retrieve(b, n) /\ call' = [fn |-> "retrieve", data |-> Prefix(n)]

\* Callers ask for no more than is readable.
RetrieveAsString(n) ==
  /\ n <= readableBytes(b)
  /\ b' = retrieve(b, n)
  /\ call' = [fn |-> "retrieveAsString",
              data |-> SubSeq(b.buffer_, b.readerIndex_ + 1, b.readerIndex_ + n)]

WriteFd(n) ==
  /\ n <= readableBytes(b)
  /\ b' = writeFd(b, n) /\ call' = [fn |-> "writeFd", data |-> Prefix(n)]

Shrink(n) == b' = shrink(b, n) /\ call' = [fn |-> "shrink", data |-> <<>>]

Next ==
  \/ \E d \in Data : Append_(d) \/ Prepend(d) \/ ReadFd(d)
  \/ \E n \in Lengths \cup {readableBytes(b)} :
       Retrieve(n) \/ RetrieveAsString(n) \/ WriteFd(n)
  \/ \E n \in Lengths : Shrink(n)

Spec == Init /\ [][Next]_vars

-----------------------------------------------------------------------------
\* The indexes stay in order and inside the vector in every sequence of calls,
\* so that no copy reads or writes outside it.
IndexesInRange ==
  /\ b.buffer_ \in Seq(Bytes)
  /\ b.readerIndex_ \in Nat /\ b.writerIndex_ \in Nat
  /\ b.readerIndex_ <= b.writerIndex_ /\ b.writerIndex_ <= size(b)

Queue == INSTANCE ByteQueue WITH bytes <- Readable(b)

\* Whatever is moved, grown or shrunk, the readable bytes are a queue: appended
\* bytes come out once, in order and unchanged.
ByteQueueSpec == Queue!Spec
=============================================================================
