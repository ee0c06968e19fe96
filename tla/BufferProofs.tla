---------------------------- MODULE BufferProofs ----------------------------
(***************************************************************************)
(* Proofs about Buffer, for any kCheapPrepend and kInitialSize and any byte *)
(* strings: the indexes stay in range, and Buffer implements ByteQueue.    *)
(***************************************************************************)
EXTENDS Buffer, SequenceTheorems, TLAPS

\* A buffer the operations may be called on.  That the vector is never shorter
\* than kCheapPrepend is what retrieveAll() needs.
Good(x) ==
  /\ x \in [buffer_ : Seq(Bytes), readerIndex_ : Nat, writerIndex_ : Nat]
  /\ x.readerIndex_ <= x.writerIndex_ /\ x.writerIndex_ <= size(x)
  /\ kCheapPrepend <= size(x)

\* The inductive invariant.
IInv == Good(b)

-----------------------------------------------------------------------------
(* Sequences.                                                              *)

\* What a stretch of a vector is, byte by byte.
LEMMA Stretch ==
  ASSUME NEW buf \in Seq(Bytes), NEW r \in Nat, NEW w \in Nat, r <= w, w <= Len(buf)
  PROVE  /\ SubSeq(buf, r + 1, w) \in Seq(Bytes)
         /\ Len(SubSeq(buf, r + 1, w)) = w - r
         /\ \A i \in 1 .. w - r : SubSeq(buf, r + 1, w)[i] = buf[r + i]
<1>1. Len(buf) \in Nat /\ \A i \in r + 1 .. w : buf[i] \in Bytes
  BY ElementOfSeq, LenProperties
<1>2. /\ SubSeq(buf, r + 1, w) \in Seq(Bytes)
      /\ Len(SubSeq(buf, r + 1, w)) = IF r + 1 <= w THEN w - (r + 1) + 1 ELSE 0
      /\ \A i \in 1 .. w - (r + 1) + 1 : SubSeq(buf, r + 1, w)[i] = buf[r + 1 + i - 1]
  BY <1>1, SubSeqProperties
<1> QED
  BY <1>2

\* A stretch of a vector is the byte string s if it has its length and its bytes.
LEMMA StretchIs ==
  ASSUME NEW buf \in Seq(Bytes), NEW r \in Nat, NEW w \in Nat, r <= w, w <= Len(buf),
         NEW s \in Seq(Bytes), Len(s) = w - r, \A i \in 1 .. w - r : buf[r + i] = s[i]
  PROVE  SubSeq(buf, r + 1, w) = s
<1> DEFINE t == SubSeq(buf, r + 1, w)
<1>1. t \in Seq(Bytes) /\ Len(t) = w - r /\ \A i \in 1 .. w - r : t[i] = buf[r + i]
  BY Stretch
<1> HIDE DEF t
<1>2. t = s
  BY <1>1, SeqEqual
<1> QED
  BY <1>2 DEF t

\* Concatenation of byte strings is associative.
LEMMA ConcatBytes ==
  ASSUME NEW s \in Seq(Bytes), NEW t \in Seq(Bytes), NEW u \in Seq(Bytes)
  PROVE  (s \o t) \o u = s \o (t \o u)
  BY ConcatAssociative

\* A copy that fits changes the bytes it is meant to change and no others.
LEMMA CopyIs ==
  ASSUME NEW buf \in Seq(Bytes), NEW d \in Seq(Bytes), NEW at \in Nat, at + Len(d) <= Len(buf)
  PROVE  /\ Copy(buf, d, at) \in Seq(Bytes)
         /\ Len(Copy(buf, d, at)) = Len(buf)
         /\ \A i \in 1 .. Len(buf) : at < i /\ i <= at + Len(d) => Copy(buf, d, at)[i] = d[i - at]
         /\ \A i \in 1 .. Len(buf) : i <= at \/ at + Len(d) < i => Copy(buf, d, at)[i] = buf[i]
<1>1. Len(buf) \in Nat /\ Len(d) \in Nat
  BY LenProperties
<1>2. ASSUME NEW i \in 1 .. Len(buf)
      PROVE  (IF at < i /\ i <= at + Len(d) THEN d[i - at] ELSE buf[i]) \in Bytes
  <2>1. CASE at < i /\ i <= at + Len(d)
    <3>1. i - at \in 1 .. Len(d)
      BY <1>1, <2>1
    <3> QED
      BY <2>1, <3>1, ElementOfSeq
  <2>2. CASE ~(at < i /\ i <= at + Len(d))
    BY <2>2, ElementOfSeq
  <2> QED
    BY <2>1, <2>2
<1>3. Copy(buf, d, at) \in [1 .. Len(buf) -> Bytes]
  BY <1>2 DEF Copy
<1>4. Copy(buf, d, at) \in Seq(Bytes) /\ Len(Copy(buf, d, at)) = Len(buf)
  BY <1>1, <1>3
<1> QED
  BY <1>1, <1>4 DEF Copy

\* resize() to n or more keeps the bytes that are there.
LEMMA ResizeIs ==
  ASSUME NEW buf \in Seq(Bytes), NEW n \in Nat
  PROVE  /\ Resize(buf, n) \in Seq(Bytes)
         /\ Len(Resize(buf, n)) = IF Len(buf) < n THEN n ELSE Len(buf)
         /\ \A i \in 1 .. Len(buf) : Resize(buf, n)[i] = buf[i]
<1>1. Len(buf) \in Nat
  BY LenProperties
<1>2. CASE Len(buf) < n
  <2> DEFINE m == n - Len(buf)
  <2>1. m \in Nat
    BY <1>1, <1>2
  <2>2. Zeros(m) \in Seq(Bytes) /\ Len(Zeros(m)) = m
    BY <2>1, BufferAssumption DEF Zeros
  <2>3. /\ buf \o Zeros(m) \in Seq(Bytes)
        /\ Len(buf \o Zeros(m)) = Len(buf) + m
        /\ \A i \in 1 .. Len(buf) + m :
             (buf \o Zeros(m))[i] = IF i <= Len(buf) THEN buf[i] ELSE Zeros(m)[i - Len(buf)]
    BY <2>2, ConcatProperties
  <2>4. Resize(buf, n) = buf \o Zeros(m)
    BY <1>2 DEF Resize
  <2> QED
    BY <1>1, <1>2, <2>1, <2>3, <2>4
<1>3. CASE ~(Len(buf) < n)
  BY <1>3 DEF Resize
<1> QED
  BY <1>2, <1>3

-----------------------------------------------------------------------------
(* The operations.                                                           *)

\* The parts of a buffer, and its readable bytes.
LEMMA Parts ==
  ASSUME NEW x, Good(x)
  PROVE  /\ x.buffer_ \in Seq(Bytes) /\ Len(x.buffer_) \in Nat /\ kCheapPrepend \in Nat
         /\ x.readerIndex_ \in Nat /\ x.writerIndex_ \in Nat
         /\ x.readerIndex_ <= x.writerIndex_ /\ x.writerIndex_ <= Len(x.buffer_)
         /\ kCheapPrepend <= Len(x.buffer_)
         /\ Readable(x) \in Seq(Bytes)
         /\ Len(Readable(x)) = x.writerIndex_ - x.readerIndex_
         /\ \A i \in 1 .. x.writerIndex_ - x.readerIndex_ :
              Readable(x)[i] = x.buffer_[x.readerIndex_ + i]
<1>1. /\ x.buffer_ \in Seq(Bytes) /\ x.readerIndex_ \in Nat /\ x.writerIndex_ \in Nat
      /\ x.readerIndex_ <= x.writerIndex_ /\ x.writerIndex_ <= Len(x.buffer_)
      /\ kCheapPrepend <= Len(x.buffer_)
  BY DEF Good, size
<1>2. Len(x.buffer_) \in Nat /\ kCheapPrepend \in Nat
  BY <1>1, LenProperties, BufferAssumption
<1>3. /\ SubSeq(x.buffer_, x.readerIndex_ + 1, x.writerIndex_) \in Seq(Bytes)
      /\ Len(SubSeq(x.buffer_, x.readerIndex_ + 1, x.writerIndex_)) = x.writerIndex_ - x.readerIndex_
      /\ \A i \in 1 .. x.writerIndex_ - x.readerIndex_ :
           SubSeq(x.buffer_, x.readerIndex_ + 1, x.writerIndex_)[i] = x.buffer_[x.readerIndex_ + i]
  BY <1>1, Stretch, Zenon
<1> QED
  BY <1>1, <1>2, <1>3, Zenon DEF Readable

\* A buffer made of a vector and two indexes that hold the bytes s.
LEMMA Made ==
  ASSUME NEW buf \in Seq(Bytes), NEW r \in Nat, NEW w \in Nat, r <= w, w <= Len(buf),
         kCheapPrepend <= Len(buf),
         NEW s \in Seq(Bytes), Len(s) = w - r, \A i \in 1 .. w - r : buf[r + i] = s[i]
  PROVE  /\ Good(Make(buf, r, w)) /\ Readable(Make(buf, r, w)) = s
         /\ writableBytes(Make(buf, r, w)) = Len(buf) - w
<1>1. SubSeq(buf, r + 1, w) = s
  BY StretchIs
<1> QED
  BY <1>1 DEF Good, Make, Readable, size, writableBytes

\* Changing one field of a buffer.
LEMMA Changed ==
  ASSUME NEW x, Good(x), NEW buf \in Seq(Bytes), NEW r \in Nat
  PROVE  /\ [x EXCEPT !.buffer_ = buf] = Make(buf, x.readerIndex_, x.writerIndex_)
         /\ [x EXCEPT !.readerIndex_ = r] = Make(x.buffer_, r, x.writerIndex_)
  BY DEF Good, Make

\* Dropping the first m bytes by moving readerIndex_.
LEMMA Advanced ==
  ASSUME NEW x, Good(x), NEW m \in Nat, m <= readableBytes(x)
  PROVE  /\ Good([x EXCEPT !.readerIndex_ = @ + m])
         /\ Readable([x EXCEPT !.readerIndex_ = @ + m]) =
              SubSeq(Readable(x), m + 1, Len(Readable(x)))
<1> DEFINE r == x.readerIndex_ + m
           s == SubSeq(Readable(x), m + 1, Len(Readable(x)))
<1>0. /\ x.readerIndex_ \in Nat /\ x.writerIndex_ \in Nat
      /\ Len(Readable(x)) = x.writerIndex_ - x.readerIndex_
  BY Parts
<1>1. r \in Nat /\ r <= x.writerIndex_ /\ m <= Len(Readable(x))
  BY Parts DEF readableBytes
<1>2. /\ s \in Seq(Bytes) /\ Len(s) = Len(Readable(x)) - m
      /\ \A i \in 1 .. Len(Readable(x)) - m : s[i] = Readable(x)[m + i]
  BY <1>1, Parts, Stretch
<1>3. [x EXCEPT !.readerIndex_ = @ + m] = Make(x.buffer_, r, x.writerIndex_)
  BY <1>1, Changed, Parts, Zenon
<1>4. Len(s) = x.writerIndex_ - r
  BY <1>0, <1>2
<1>5. ASSUME NEW i \in 1 .. x.writerIndex_ - r PROVE x.buffer_[r + i] = s[i]
  <2>1. m + i \in 1 .. x.writerIndex_ - x.readerIndex_ /\ i \in 1 .. Len(Readable(x)) - m
    BY <1>0, <1>1
  <2>2. s[i] = x.buffer_[x.readerIndex_ + (m + i)]
    BY <1>2, <2>1, Parts, Zenon
  <2>3. r + i = x.readerIndex_ + (m + i)
    BY <1>0
  <2> QED
    BY <2>2, <2>3, Zenon
<1> HIDE DEF r, s
<1>6. Good(Make(x.buffer_, r, x.writerIndex_)) /\ Readable(Make(x.buffer_, r, x.writerIndex_)) = s
  <2>1. /\ x.buffer_ \in Seq(Bytes) /\ x.writerIndex_ \in Nat
        /\ x.writerIndex_ <= Len(x.buffer_) /\ kCheapPrepend <= Len(x.buffer_)
    BY Parts
  <2> QED
    BY <1>1, <1>2, <1>4, <1>5, <2>1, Made, Zenon
<1> QED
  BY <1>3, <1>6, Zenon DEF s

\* retrieve() takes the first n bytes, or all of them.
LEMMA RetrieveIs ==
  ASSUME NEW x, Good(x), NEW n \in Nat,
         NEW m, m = IF n < Len(Readable(x)) THEN n ELSE Len(Readable(x))
  PROVE  /\ Good(retrieve(x, n))
         /\ Readable(retrieve(x, n)) = SubSeq(Readable(x), m + 1, Len(Readable(x)))
<1>1. CASE n < readableBytes(x)
  <2>1. m = n
    BY <1>1, Parts DEF readableBytes
  <2> QED
    <3>1. n <= readableBytes(x)
      BY <1>1, Parts DEF readableBytes
    <3> QED
      BY <1>1, <2>1, <3>1, Advanced, SMTT(30) DEF retrieve
<1>2. CASE ~(n < readableBytes(x))
  <2>1. m = Len(Readable(x)) /\ m \in Nat
    BY <1>2, Parts DEF readableBytes
  <2>2. SubSeq(Readable(x), m + 1, Len(Readable(x))) = <<>>
    <3>1. m + 1 \in Int /\ Len(Readable(x)) \in Int /\ Len(Readable(x)) < m + 1
      BY <2>1
    <3> QED
      BY <3>1, SubSeqEmpty, Zenon
  <2>3. retrieve(x, n) = Make(x.buffer_, kCheapPrepend, kCheapPrepend)
    BY <1>2 DEF retrieve
  <2>4. /\ Good(Make(x.buffer_, kCheapPrepend, kCheapPrepend))
        /\ Readable(Make(x.buffer_, kCheapPrepend, kCheapPrepend)) = <<>>
    <3>1. /\ x.buffer_ \in Seq(Bytes) /\ kCheapPrepend \in Nat /\ kCheapPrepend <= Len(x.buffer_)
          /\ kCheapPrepend <= kCheapPrepend
      BY Parts
    <3>2. /\ <<>> \in Seq(Bytes) /\ Len(<<>>) = kCheapPrepend - kCheapPrepend
          /\ \A i \in 1 .. kCheapPrepend - kCheapPrepend :
               x.buffer_[kCheapPrepend + i] = <<>>[i]
      BY <3>1, EmptySeq
    <3> QED
      BY <3>1, <3>2, Made, Zenon
  <2> QED
    BY <2>2, <2>3, <2>4, Zenon
<1> QED
  BY <1>1, <1>2, Zenon

\* The bytes s copied to an offset of a vector with room for them.
LEMMA Placed ==
  ASSUME NEW buf \in Seq(Bytes), NEW s \in Seq(Bytes), NEW at \in Nat,
         at + Len(s) <= Len(buf), kCheapPrepend <= Len(buf),
         NEW y, y = Make(Copy(buf, s, at), at, at + Len(s))
  PROVE  Good(y) /\ Readable(y) = s /\ writableBytes(y) = Len(buf) - (at + Len(s))
<1> DEFINE c == Copy(buf, s, at)
           w == at + Len(s)
<1>1. Len(s) \in Nat /\ Len(buf) \in Nat
  BY LenProperties
<1>2. /\ c \in Seq(Bytes) /\ Len(c) = Len(buf)
      /\ \A i \in 1 .. Len(buf) : at < i /\ i <= at + Len(s) => c[i] = s[i - at]
  BY CopyIs
<1>3. w \in Nat /\ at <= w /\ w <= Len(c) /\ kCheapPrepend <= Len(c) /\ Len(s) = w - at
  BY <1>1, <1>2
<1>4. ASSUME NEW i \in 1 .. w - at PROVE c[at + i] = s[i]
  <2>1. at + i \in 1 .. Len(buf) /\ at < at + i /\ at + i <= at + Len(s) /\ (at + i) - at = i
    BY <1>1, <1>3
  <2> QED
    BY <1>2, <2>1
<1> HIDE DEF c, w
<1>5. Good(Make(c, at, w)) /\ Readable(Make(c, at, w)) = s /\ writableBytes(Make(c, at, w)) = Len(c) - w
  BY <1>2, <1>3, <1>4, Made
<1> QED
  BY <1>2, <1>5 DEF c, w

\* ensureWritableBytes() moves or grows but keeps the readable bytes.
LEMMA EnsureIs ==
  ASSUME NEW x, Good(x), NEW n \in Nat, NEW y, y = ensureWritableBytes(x, n)
  PROVE  Good(y) /\ Readable(y) = Readable(x) /\ n <= writableBytes(y)
<1>1. CASE ~(writableBytes(x) < n)
  BY <1>1, Parts DEF ensureWritableBytes, writableBytes, size
<1>2. CASE writableBytes(x) < n /\ ~Fits(x, n)
  <2> DEFINE buf == Resize(x.buffer_, x.writerIndex_ + n)
  <2>1. x.writerIndex_ + n \in Nat /\ Len(x.buffer_) < x.writerIndex_ + n
    BY <1>2, Parts DEF writableBytes, size
  <2>2. /\ buf \in Seq(Bytes) /\ Len(buf) = x.writerIndex_ + n
        /\ \A i \in 1 .. Len(x.buffer_) : buf[i] = x.buffer_[i]
    BY <2>1, Parts, ResizeIs
  <2>3. y = Make(buf, x.readerIndex_, x.writerIndex_)
    BY <1>2, <2>2, Changed, Zenon DEF ensureWritableBytes, makeSpace
  <2>4. ASSUME NEW i \in 1 .. x.writerIndex_ - x.readerIndex_
        PROVE  buf[x.readerIndex_ + i] = Readable(x)[i]
    <3>1. x.readerIndex_ + i \in 1 .. Len(x.buffer_)
      BY Parts, SMTT(30)
    <3> QED
      BY <2>2, <3>1, Parts, Zenon
  <2>5. /\ x.readerIndex_ \in Nat /\ x.writerIndex_ \in Nat /\ x.readerIndex_ <= x.writerIndex_
        /\ x.writerIndex_ <= Len(buf) /\ kCheapPrepend <= Len(buf)
        /\ Readable(x) \in Seq(Bytes) /\ Len(Readable(x)) = x.writerIndex_ - x.readerIndex_
    BY <2>1, <2>2, Parts
  <2> HIDE DEF buf
  <2>6. /\ Good(y) /\ Readable(y) = Readable(x)
        /\ writableBytes(y) = Len(buf) - x.writerIndex_
    <3> DEFINE r == x.readerIndex_
               w == x.writerIndex_
               s == Readable(x)
    <3>1. /\ buf \in Seq(Bytes) /\ r \in Nat /\ w \in Nat /\ r <= w /\ w <= Len(buf)
          /\ kCheapPrepend <= Len(buf) /\ s \in Seq(Bytes) /\ Len(s) = w - r
      BY <2>2, <2>5
    <3>2. y = Make(buf, r, w) /\ \A i \in 1 .. w - r : buf[r + i] = s[i]
      BY <2>3, <2>4
    <3> HIDE DEF r, w, s
    <3>3. Good(y) /\ Readable(y) = s /\ writableBytes(y) = Len(buf) - w
      BY <3>1, <3>2, Made
    <3> QED
      BY <3>3 DEF w, s
  <2>7. n = Len(buf) - x.writerIndex_
    BY <2>2, <2>5
  <2> QED
    BY <2>6, <2>7
<1>3. CASE writableBytes(x) < n /\ Fits(x, n)
  <2>1. y = Make(Copy(x.buffer_, Readable(x), kCheapPrepend), kCheapPrepend,
                 kCheapPrepend + Len(Readable(x)))
    BY <1>3, Parts DEF ensureWritableBytes, makeSpace, readableBytes
  <2>2. /\ x.buffer_ \in Seq(Bytes) /\ Readable(x) \in Seq(Bytes) /\ kCheapPrepend \in Nat
        /\ kCheapPrepend + Len(Readable(x)) <= Len(x.buffer_) /\ kCheapPrepend <= Len(x.buffer_)
        /\ n <= Len(x.buffer_) - (kCheapPrepend + Len(Readable(x)))
    <3>1. (Len(x.buffer_) - x.writerIndex_) + x.readerIndex_ >= n + kCheapPrepend
      BY <1>3 DEF Fits, writableBytes, prependableBytes, size
    <3>2. Len(Readable(x)) = x.writerIndex_ - x.readerIndex_
      BY Parts
    <3>3. /\ x.buffer_ \in Seq(Bytes) /\ Readable(x) \in Seq(Bytes)
          /\ Len(x.buffer_) \in Nat /\ kCheapPrepend \in Nat /\ kCheapPrepend <= Len(x.buffer_)
          /\ x.writerIndex_ \in Nat /\ x.readerIndex_ \in Nat
      BY Parts
    <3> QED
      BY <3>1, <3>2, <3>3, SMTT(60)
  <2>3. /\ Good(y) /\ Readable(y) = Readable(x)
        /\ writableBytes(y) = Len(x.buffer_) - (kCheapPrepend + Len(Readable(x)))
    BY <2>1, <2>2, Placed
  <2> QED
    BY <2>2, <2>3
<1> QED
  BY <1>1, <1>2, <1>3

\* Bytes written behind the readable ones, where there is room for them.
LEMMA Appended ==
  ASSUME NEW y, Good(y), NEW d \in Seq(Bytes), Len(d) <= writableBytes(y),
         NEW z, z = Make(Copy(y.buffer_, d, y.writerIndex_), y.readerIndex_,
                         y.writerIndex_ + Len(d))
  PROVE  Good(z) /\ Readable(z) = Readable(y) \o d
<1> DEFINE r == y.readerIndex_
           v == y.writerIndex_
           w == v + Len(d)
           c == Copy(y.buffer_, d, v)
           s == Readable(y) \o d
<1>1. /\ y.buffer_ \in Seq(Bytes) /\ r \in Nat /\ v \in Nat /\ r <= v /\ Len(d) \in Nat
      /\ w \in Nat /\ r <= w /\ w <= Len(y.buffer_) /\ kCheapPrepend <= Len(y.buffer_)
      /\ Len(y.buffer_) \in Nat /\ w = v + Len(d)
  BY Parts, LenProperties, SMTT(30) DEF writableBytes, size
<1>2. /\ c \in Seq(Bytes) /\ Len(c) = Len(y.buffer_)
      /\ \A i \in 1 .. Len(y.buffer_) : v < i /\ i <= v + Len(d) => c[i] = d[i - v]
      /\ \A i \in 1 .. Len(y.buffer_) : i <= v \/ v + Len(d) < i => c[i] = y.buffer_[i]
  BY <1>1, CopyIs
<1>3. /\ Readable(y) \in Seq(Bytes) /\ Len(Readable(y)) = v - r
      /\ \A i \in 1 .. v - r : Readable(y)[i] = y.buffer_[r + i]
  BY Parts
<1>4. /\ s \in Seq(Bytes) /\ Len(s) = w - r
      /\ \A i \in 1 .. w - r : s[i] = IF i <= v - r THEN Readable(y)[i] ELSE d[i - (v - r)]
  <2>1. /\ s \in Seq(Bytes) /\ Len(s) = Len(Readable(y)) + Len(d)
        /\ \A i \in 1 .. Len(Readable(y)) + Len(d) :
             s[i] = IF i <= Len(Readable(y)) THEN Readable(y)[i] ELSE d[i - Len(Readable(y))]
    BY <1>3, ConcatProperties, Zenon
  <2>2. Len(Readable(y)) + Len(d) = w - r
    BY <1>1, <1>3
  <2> QED
    BY <1>3, <2>1, <2>2
<1> HIDE DEF r, v, w, c, s
<1>5. ASSUME NEW i \in 1 .. w - r PROVE c[r + i] = s[i]
  <2>1. CASE i <= v - r
    <3>1. i \in 1 .. v - r /\ r + i \in 1 .. Len(y.buffer_) /\ r + i <= v
      BY <1>1, <2>1
    <3> QED
      BY <1>2, <1>3, <1>4, <2>1, <3>1
  <2>2. CASE ~(i <= v - r)
    <3>1. /\ r + i \in 1 .. Len(y.buffer_) /\ v < r + i /\ r + i <= v + Len(d)
          /\ (r + i) - v = i - (v - r)
      BY <1>1, <2>2
    <3> QED
      BY <1>2, <1>4, <2>2, <3>1
  <2> QED
    BY <2>1, <2>2
<1>6. z = Make(c, r, w) /\ w <= Len(c) /\ kCheapPrepend <= Len(c)
  BY <1>1, <1>2 DEF r, v, w, c
<1>7. Good(z) /\ Readable(z) = s
  <2>1. /\ c \in Seq(Bytes) /\ r \in Nat /\ w \in Nat /\ r <= w
        /\ s \in Seq(Bytes) /\ Len(s) = w - r
    BY <1>1, <1>2, <1>4
  <2> QED
    BY <1>5, <1>6, <2>1, Made
<1> QED
  BY <1>7 DEF s

\* append() adds d at the end.
LEMMA AppendIs ==
  ASSUME NEW x, Good(x), NEW d \in Seq(Bytes)
  PROVE  Good(append(x, d)) /\ Readable(append(x, d)) = Readable(x) \o d
<1> DEFINE y == ensureWritableBytes(x, Len(d))
<1>1. Good(y) /\ Readable(y) = Readable(x) /\ Len(d) <= writableBytes(y)
  BY EnsureIs, LenProperties
<1>2. append(x, d) = Make(Copy(y.buffer_, d, y.writerIndex_), y.readerIndex_,
                          y.writerIndex_ + Len(d))
  BY DEF append
<1> HIDE DEF y
<1> QED
  BY <1>1, <1>2, Appended, Zenon

\* readFd() adds what readv() read, in one piece or in two.
LEMMA ReadFdIs ==
  ASSUME NEW x, Good(x), NEW d \in Seq(Bytes)
  PROVE  Good(readFd(x, d)) /\ Readable(readFd(x, d)) = Readable(x) \o d
<1> DEFINE w == writableBytes(x)
<1>1. w \in Nat /\ x.writerIndex_ + w = size(x) /\ Len(d) \in Nat
  BY Parts, LenProperties DEF writableBytes, size
<1>2. CASE Len(d) <= w
  BY <1>2, Appended DEF readFd
<1>3. CASE ~(Len(d) <= w)
  <2> DEFINE first == SubSeq(d, 1, w)
             rest == SubSeq(d, w + 1, Len(d))
             full == Make(Copy(x.buffer_, first, x.writerIndex_), x.readerIndex_, size(x))
  <2>1. first \in Seq(Bytes) /\ Len(first) = w
    BY <1>1, <1>3, Stretch
  <2>2. rest \in Seq(Bytes)
    BY <1>1, <1>3, Stretch
  <2>3. first \o rest = d
    <3>1. 1 \in 1 .. Len(d) + 1 /\ w \in 1 - 1 .. Len(d) /\ Len(d) \in w .. Len(d)
      BY <1>1, <1>3
    <3>2. first \o rest = SubSeq(d, 1, Len(d))
      BY <3>1, ConcatAdjacentSubSeq, Zenon
    <3> QED
      BY <3>2, SubSeqFull, Zenon
  <2>4. readFd(x, d) = append(full, rest)
    BY <1>3 DEF readFd
  <2> HIDE DEF first, rest
  <2>5. Good(full) /\ Readable(full) = Readable(x) \o first
    <3>1. size(x) = x.writerIndex_ + Len(first) /\ Len(first) <= writableBytes(x)
      BY <1>1, <2>1
    <3> QED
      BY <2>1, <3>1, Appended
  <2> HIDE DEF full
  <2>6. Good(append(full, rest)) /\ Readable(append(full, rest)) = (Readable(x) \o first) \o rest
    BY <2>2, <2>5, AppendIs, Zenon
  <2>7. (Readable(x) \o first) \o rest = Readable(x) \o d
    <3>1. Readable(x) \in Seq(Bytes)
      BY Parts
    <3>2. (Readable(x) \o first) \o rest = Readable(x) \o (first \o rest)
      BY <2>1, <2>2, <3>1, ConcatBytes, Zenon
    <3> QED
      BY <2>3, <3>2
  <2> QED
    BY <2>4, <2>6, <2>7
<1> QED
  BY <1>2, <1>3

\* shrink() keeps the readable bytes.
LEMMA ShrinkIs ==
  ASSUME NEW x, Good(x), NEW n \in Nat
  PROVE  Good(shrink(x, n)) /\ Readable(shrink(x, n)) = Readable(x)
<1> DEFINE s == Readable(x)
           buf == Zeros(kCheapPrepend + Len(s) + n)
<1>1. s \in Seq(Bytes) /\ Len(s) \in Nat /\ kCheapPrepend \in Nat /\ Len(s) = readableBytes(x)
  BY Parts, LenProperties DEF readableBytes
<1>2. buf \in Seq(Bytes) /\ Len(buf) = kCheapPrepend + Len(s) + n
  BY <1>1, BufferAssumption, SMTT(60) DEF Zeros
<1>3. shrink(x, n) = Make(Copy(buf, s, kCheapPrepend), kCheapPrepend, kCheapPrepend + Len(s))
  BY <1>1 DEF shrink
<1>4. kCheapPrepend + Len(s) <= Len(buf) /\ kCheapPrepend <= Len(buf)
  BY <1>1, <1>2
<1> DEFINE y == shrink(x, n)
<1> HIDE DEF s, buf, y
<1>5. y = Make(Copy(buf, s, kCheapPrepend), kCheapPrepend, kCheapPrepend + Len(s))
  BY <1>3 DEF y
<1>6. Good(y) /\ Readable(y) = s
  BY <1>1, <1>2, <1>4, <1>5, Placed
<1> QED
  BY <1>6 DEF s, y

\* prepend() adds d in front, in the room there or in a longer vector.
LEMMA PrependIs ==
  ASSUME NEW x, Good(x), NEW d \in Seq(Bytes)
  PROVE  Good(prepend(x, d)) /\ Readable(prepend(x, d)) = d \o Readable(x)
<1> DEFINE r == x.readerIndex_
           w == x.writerIndex_
           buf == x.buffer_
           k == kCheapPrepend
           n == Len(d)
           s == Readable(x)
           t == d \o s
<1>1. /\ buf \in Seq(Bytes) /\ Len(buf) \in Nat /\ k \in Nat /\ r \in Nat /\ w \in Nat /\ n \in Nat
      /\ r <= w /\ w <= Len(buf) /\ k <= Len(buf)
  BY Parts, LenProperties
<1>2. /\ s \in Seq(Bytes) /\ Len(s) = w - r
      /\ \A i \in 1 .. w - r : s[i] = buf[r + i]
  BY Parts, Zenon
<1>3. /\ t \in Seq(Bytes) /\ Len(t) = n + (w - r)
      /\ \A i \in 1 .. n + (w - r) : t[i] = IF i <= n THEN d[i] ELSE s[i - n]
  <2>1. /\ t \in Seq(Bytes) /\ Len(t) = Len(d) + Len(s)
        /\ \A i \in 1 .. Len(d) + Len(s) : t[i] = IF i <= Len(d) THEN d[i] ELSE s[i - Len(d)]
    BY <1>2, ConcatProperties, Zenon
  <2> QED
    BY <1>2, <2>1
<1>4. Len(d) < prependableBytes(x) => prepend(x, d) = Make(Copy(buf, d, r - n), r - n, w)
  BY DEF prepend, prependableBytes
<1>5. ~(Len(d) < prependableBytes(x)) =>
        prepend(x, d) = Make(Copy(Copy(Resize(buf, k + n + (w - r)), s, k + n), d, k),
                             k, k + n + (w - r))
  BY DEF prepend, readableBytes
<1>6. prependableBytes(x) = r
  BY DEF prependableBytes
<1> HIDE DEF r, w, buf, k, n, s, t
<1>7. CASE n < r
  <2> DEFINE c == Copy(buf, d, r - n)
             q == r - n
  <2>1. q \in Nat /\ q + n = r /\ q + n <= Len(buf) /\ q <= w /\ n + (w - r) = w - q
    BY <1>1, <1>7
  <2>2. /\ c \in Seq(Bytes) /\ Len(c) = Len(buf)
        /\ \A i \in 1 .. Len(buf) : q < i /\ i <= q + n => c[i] = d[i - q]
        /\ \A i \in 1 .. Len(buf) : i <= q \/ q + n < i => c[i] = buf[i]
    BY <1>1, <2>1, CopyIs, ZenonT(60) DEF n
  <2> HIDE DEF c, q
  <2>3. ASSUME NEW i \in 1 .. w - q PROVE c[q + i] = t[i]
    <3>1. q + i \in 1 .. Len(buf) /\ i \in 1 .. n + (w - r)
      BY <1>1, <2>1
    <3>2. CASE i <= n
      <4>1. q < q + i /\ q + i <= q + n /\ (q + i) - q = i
        BY <1>1, <2>1, <3>2
      <4> QED
        BY <1>3, <2>2, <3>1, <3>2, <4>1
    <3>3. CASE ~(i <= n)
      <4>1. q + n < q + i /\ i - n \in 1 .. w - r /\ r + (i - n) = q + i
        BY <1>1, <2>1, <3>1, <3>3
      <4> QED
        BY <1>2, <1>3, <2>2, <3>1, <3>3, <4>1
    <3> QED
      BY <3>2, <3>3
  <2>4. w <= Len(c) /\ k <= Len(c) /\ Len(t) = w - q
    BY <1>1, <1>3, <2>1, <2>2
  <2>5. Good(Make(c, q, w)) /\ Readable(Make(c, q, w)) = t
    <3>1. /\ c \in Seq(Bytes) /\ q \in Nat /\ w \in Nat /\ q <= w
          /\ w <= Len(c) /\ t \in Seq(Bytes) /\ Len(t) = w - q
      BY <1>1, <1>3, <2>1, <2>2, <2>4
    <3>2. kCheapPrepend <= Len(c)
      BY <2>4 DEF k
    <3> QED
      BY <2>3, <3>1, <3>2, Made
  <2> QED
    BY <1>4, <1>6, <1>7, <2>5 DEF c, q, n, s, t
<1>8. CASE ~(n < r)
  <2> DEFINE needed == k + n + (w - r)
             grown == Resize(buf, needed)
             c1 == Copy(grown, s, k + n)
             c == Copy(c1, d, k)
  <2>1. needed \in Nat /\ k + n \in Nat /\ (k + n) + (w - r) = needed /\ k <= needed
    BY <1>1
  <2> HIDE DEF needed
  <2>2. grown \in Seq(Bytes) /\ needed <= Len(grown) /\ Len(grown) \in Nat /\ k <= Len(grown)
    <3>1. buf \in Seq(Bytes) /\ Len(buf) \in Nat /\ k \in Nat
      BY <1>1, LenProperties
    <3>2. grown \in Seq(Bytes) /\ Len(grown) = IF Len(buf) < needed THEN needed ELSE Len(buf)
      BY <2>1, <3>1, ResizeIs
    <3> HIDE DEF grown
    <3> QED
      BY <2>1, <3>1, <3>2
  <2> HIDE DEF grown
  <2>3. /\ c1 \in Seq(Bytes) /\ Len(c1) = Len(grown)
        /\ \A i \in 1 .. Len(grown) : k + n < i /\ i <= (k + n) + (w - r) => c1[i] = s[i - (k + n)]
    <3>1. s \in Seq(Bytes) /\ Len(s) = w - r /\ (k + n) + Len(s) <= Len(grown)
      BY <1>2, <2>1, <2>2
    <3>2. /\ c1 \in Seq(Bytes) /\ Len(c1) = Len(grown)
          /\ \A i \in 1 .. Len(grown) :
               k + n < i /\ i <= (k + n) + Len(s) => c1[i] = s[i - (k + n)]
      BY <2>1, <2>2, <3>1, CopyIs, SMTT(30)
    <3> QED
      BY <3>1, <3>2
  <2> HIDE DEF c1
  <2>4. /\ c \in Seq(Bytes) /\ Len(c) = Len(grown)
        /\ \A i \in 1 .. Len(grown) : k < i /\ i <= k + n => c[i] = d[i - k]
        /\ \A i \in 1 .. Len(grown) : i <= k \/ k + n < i => c[i] = c1[i]
    <3>1. k + Len(d) <= Len(c1)
      BY <1>1, <2>1, <2>2, <2>3 DEF n
    <3> QED
      BY <1>1, <2>3, <3>1, CopyIs DEF n
  <2> HIDE DEF c
  <2>5. ASSUME NEW i \in 1 .. needed - k PROVE c[k + i] = t[i]
    <3>1. k + i \in 1 .. Len(grown) /\ i \in 1 .. n + (w - r)
      BY <1>1, <2>1, <2>2
    <3>2. CASE i <= n
      <4>1. k < k + i /\ k + i <= k + n /\ (k + i) - k = i
        BY <1>1, <3>2
      <4> QED
        BY <1>3, <2>4, <3>1, <3>2, <4>1
    <3>3. CASE ~(i <= n)
      <4>1. k + n < k + i /\ k + i <= (k + n) + (w - r) /\ (k + i) - (k + n) = i - n
        BY <1>1, <3>1, <3>3
      <4> QED
        BY <1>3, <2>3, <2>4, <3>1, <3>3, <4>1
    <3> QED
      BY <3>2, <3>3
  <2>6. needed <= Len(c) /\ k <= Len(c) /\ Len(t) = needed - k
    BY <1>1, <1>3, <2>1, <2>2, <2>4
  <2>7. Good(Make(c, k, needed)) /\ Readable(Make(c, k, needed)) = t
    <3>1. /\ c \in Seq(Bytes) /\ k \in Nat /\ needed \in Nat /\ k <= needed
          /\ needed <= Len(c) /\ t \in Seq(Bytes) /\ Len(t) = needed - k
      BY <1>1, <1>3, <2>1, <2>4, <2>6
    <3>2. kCheapPrepend <= Len(c)
      BY <2>6 DEF k
    <3> QED
      BY <2>5, <3>1, <3>2, Made, ZenonT(60)
  <2> QED
    BY <1>5, <1>6, <1>8, <2>7 DEF c, c1, grown, needed, n, s, t
<1> QED
  BY <1>7, <1>8

-----------------------------------------------------------------------------
(* The specification.                                                        *)

\* A new buffer is good and empty.
LEMMA InitHolds == Init => IInv /\ Readable(b) = <<>>
<1> SUFFICES ASSUME Init PROVE Good(b) /\ Readable(b) = <<>>
  BY DEF IInv
<1> DEFINE buf == Zeros(kCheapPrepend + kInitialSize)
           k == kCheapPrepend
<1>1. k \in Nat /\ buf \in Seq(Bytes) /\ Len(buf) = k + kInitialSize /\ kInitialSize \in Nat
  BY BufferAssumption DEF Zeros
<1>2. b = Make(buf, k, k)
  BY DEF Init
<1> HIDE DEF buf
<1>3. /\ <<>> \in Seq(Bytes) /\ Len(<<>>) = k - k /\ k <= k /\ k <= Len(buf)
      /\ \A i \in 1 .. k - k : buf[k + i] = <<>>[i]
  BY <1>1, EmptySeq
<1> QED
  BY <1>1, <1>2, <1>3, Made, Zenon

\* Every call keeps the invariant and does to the readable bytes what ByteQueue
\* says.
LEMMA StepIs == IInv /\ [Next]_vars => IInv' /\ [Queue!Next]_<<Readable(b), call>>
<1> SUFFICES ASSUME IInv, [Next]_vars
             PROVE  Good(b') /\ [Queue!Next]_<<Readable(b), call>>
  BY DEF IInv
<1> DEFINE s == Readable(b)
<1>0. Good(b) /\ s \in Seq(Bytes) /\ Len(s) \in Nat /\ Len(s) = readableBytes(b)
  BY Parts, LenProperties DEF IInv, readableBytes
<1>1. ASSUME NEW d \in Data, Append_(d) \/ Prepend(d) \/ ReadFd(d)
      PROVE  Good(b') /\ Queue!Next
  <2>1. d \in Seq(Bytes)
    BY BufferAssumption
  <2>2. CASE Append_(d)
    BY <1>0, <2>1, <2>2, AppendIs, Zenon DEF Append_, Queue!Next, Queue!Put
  <2>3. CASE Prepend(d)
    BY <1>0, <2>1, <2>3, PrependIs, Zenon DEF Prepend, Queue!Next, Queue!Put
  <2>4. CASE ReadFd(d)
    BY <1>0, <2>1, <2>4, ReadFdIs, Zenon DEF ReadFd, Queue!Next, Queue!Put
  <2> QED
    BY <1>1, <2>2, <2>3, <2>4
<1>2. ASSUME NEW n \in Lengths \cup {readableBytes(b)},
             Retrieve(n) \/ RetrieveAsString(n) \/ WriteFd(n)
      PROVE  Good(b') /\ Queue!Next
  <2> DEFINE m == IF n < Len(s) THEN n ELSE Len(s)
  <2>1. n \in Nat /\ n \in Lengths \cup {Len(s)} /\ m \in Nat
    BY <1>0, BufferAssumption
  <2>2. CASE Retrieve(n)
    BY <1>0, <2>1, <2>2, RetrieveIs, Zenon DEF Retrieve, Prefix, Queue!Next, Queue!Take
  <2>3. CASE RetrieveAsString(n)
    <3>1. n <= Len(s) /\ m = n
      BY <1>0, <2>1, <2>3 DEF RetrieveAsString
    <3>2. SubSeq(b.buffer_, b.readerIndex_ + 1, b.readerIndex_ + n) = SubSeq(s, 1, n)
      <4> DEFINE u == SubSeq(s, 1, n)
                 r == b.readerIndex_
      <4>1. u \in Seq(Bytes) /\ Len(u) = n /\ \A i \in 1 .. n : u[i] = s[i]
        <5>1. /\ SubSeq(s, 0 + 1, n) \in Seq(Bytes) /\ Len(SubSeq(s, 0 + 1, n)) = n - 0
              /\ \A i \in 1 .. n - 0 : SubSeq(s, 0 + 1, n)[i] = s[0 + i]
          BY <1>0, <2>1, <3>1, Stretch
        <5> QED
          BY <2>1, <5>1
      <4>2. /\ b.buffer_ \in Seq(Bytes) /\ r \in Nat /\ r + n \in Nat /\ r <= r + n
            /\ r + n <= Len(b.buffer_) /\ (r + n) - r = n
        BY <1>0, <2>1, <3>1, Parts, SMTT(60)
      <4>3. \A i \in 1 .. n : b.buffer_[r + i] = u[i]
        BY <1>0, <2>1, <3>1, <4>1, Parts
      <4> HIDE DEF u, r
      <4>4. SubSeq(b.buffer_, r + 1, r + n) = u
        BY <2>1, <4>1, <4>2, <4>3, StretchIs
      <4> QED
        BY <4>4, Zenon DEF u, r
    <3> QED
      BY <1>0, <2>1, <2>3, <3>1, <3>2, RetrieveIs, Zenon DEF RetrieveAsString, Queue!Next, Queue!Take
  <2>4. CASE WriteFd(n)
    <3>1. n <= readableBytes(b) /\ m = n
      BY <1>0, <2>1, <2>4 DEF WriteFd
    <3> QED
      BY <1>0, <2>1, <2>4, <3>1, Advanced, Zenon DEF WriteFd, writeFd, Prefix, Queue!Next, Queue!Take
  <2> QED
    BY <1>2, <2>2, <2>3, <2>4
<1>3. ASSUME NEW n \in Lengths, Shrink(n) PROVE Good(b') /\ Queue!Next
  BY <1>0, <1>3, ShrinkIs, BufferAssumption DEF Shrink, Queue!Next, Queue!Shrink
<1>4. CASE UNCHANGED vars
  BY <1>0, <1>4 DEF vars
<1> QED
  BY <1>1, <1>2, <1>3, <1>4 DEF Next

\* The invariant holds throughout.
THEOREM Invariance == Spec => []IInv
  BY InitHolds, StepIs, PTL DEF Spec

\* Whatever is called in whatever order, the indexes stay inside the vector.
THEOREM IndexesStayInRange == Spec => []IndexesInRange
<1>1. IInv => IndexesInRange
  BY DEF IInv, Good, IndexesInRange
<1> QED
  BY <1>1, Invariance, PTL

\* Buffer implements ByteQueue: moving, growing and shrinking never lose, double
\* or reorder a byte.
THEOREM Refinement == Spec => ByteQueueSpec
<1>1. Init => Queue!Init
  BY InitHolds DEF Init, Queue!Init, Queue!NoCall
<1> QED
  BY <1>1, StepIs, Invariance, PTL DEF Spec, ByteQueueSpec, Queue!Spec, Queue!vars
=============================================================================
