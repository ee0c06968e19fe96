--------------------------- MODULE TcpServerProofs ---------------------------
(***************************************************************************)
(* Proofs about TcpServer, for any connections, loops and threads.  The    *)
(* assertion of removeConnectionInLoop() fails only after a connection's   *)
(* state_ was overwritten by a thread with a stale view of it.  The other  *)
(* connections outlive their entry in epoll and go up before they go down, *)
(* also while the server is destroyed.  A closed connection never waits    *)
(* for a functor that nobody queued.                                       *)
(***************************************************************************)
EXTENDS TcpServer, SequenceTheorems, TLAPS

\* Most leaves are about sets and functions only; the others name their prover.
USE Zenon

CallNames == {"send", "shutdown", "forceClose"}
Functors ==
  [fn : {"connectEstablished", "remove", "connectDestroyed"} \cup CallNames,
   conn : Conns, raw : BOOLEAN]

Open == {"kConnected", "kDisconnecting"}
Known == Open \cup {"kDisconnected"}

\* The server is not being destroyed, and no state_ was overwritten.
Sound == server \notin {"destroying", "gone"} /\ revived = {}

\* removeConnectionInLoop() is only queued in the base loop.
RemoveInBase(q) == \A l \in Loops : \A i \in DOMAIN q[l] : q[l][i].fn = "remove" => l = base

\* The functors swapped out and not run (bat of them) are still in the queue.
QueueOK(q, bat) ==
  /\ q \in [Loops -> Seq(Functors)] /\ RemoveInBase(q)
  /\ bat \in [Loops -> Nat] /\ \A l \in Loops : bat[l] <= Len(q[l])

ThreadsOK ==
  /\ refs \in [Threads -> SUBSET Conns]
  /\ tpc \in [Threads -> [call : Calls \cup {"none"}, conn : Conns \cup {base},
                          at : {"idle", "set", "queue"}]]
  /\ \A t \in Threads : tpc[t].at # "idle" => tpc[t].conn \in Conns /\ tpc[t].call \in Calls

TypeOK ==
  /\ state_ \in [Conns -> {"none", "kConnecting"} \cup Known]
  /\ index \in [Conns -> {"kNew", "kAdded", "kDeleted"}]
  /\ ioLoop \in [Conns -> Loops]
  /\ QueueOK(queue, batch)
  /\ ThreadsOK
  /\ quit_ # {} => server \in {"destroying", "gone"}

\* A functor f fits the states st of the connections and the server's map con.
Fits(f, st, con) ==
  /\ f.fn = "connectEstablished" => st[f.conn] = "kConnecting"
  /\ f.fn = "remove" => st[f.conn] = "kDisconnected" /\ f.conn \in con
  /\ f.fn = "connectDestroyed" => st[f.conn] = "kDisconnected"
  /\ f.fn \in CallNames => st[f.conn] \in Known

AllFit(q, st, con) == \A l \in Loops : \A i \in DOMAIN q[l] : Fits(q[l][i], st, con)

\* A connection is established by one functor and removed by one.
Single == {"connectEstablished", "remove"}
Once(q) ==
  \A l, k \in Loops : \A i \in DOMAIN q[l], j \in DOMAIN q[k] :
    q[l][i].fn \in Single /\ q[l][i].fn = q[k][j].fn /\ q[l][i].conn = q[k][j].conn
      => l = k /\ i = j

\* No functor fn for the connection c is queued; none at all.
Absent(q, fn, c) ==
  \A l \in Loops : \A i \in DOMAIN q[l] : ~(q[l][i].fn = fn /\ q[l][i].conn = c)
Free(q, c) == \A l \in Loops : \A i \in DOMAIN q[l] : q[l][i].conn # c

\* The connections a thread has a pointer to or is about to use.
Held(t) == refs[t] \cup {c \in Conns : tpc[t].at # "idle" /\ tpc[t].conn = c}

\* A channel is in epoll while its connection is open, and a connection in the
\* map until it is closed; threads only get connections that were established.
LifeInv ==
  \A c \in Conns :
    /\ index[c] = "kAdded" <=> state_[c] \in Open
    /\ state_[c] \in Open \cup {"kConnecting"} => c \in connections_
    /\ \A t \in Threads : c \in Held(t) => state_[c] \in Known

SoundInv == LifeInv /\ AllFit(queue, state_, connections_) /\ Once(queue)

\* The inductive invariant.
IInv == TypeOK /\ (Sound => SoundInv) /\ ErasedOnce

-----------------------------------------------------------------------------
\* queueInLoop(): the functor is the last of its loop, the others stay.
LEMMA PushIs ==
  ASSUME NEW q \in [Loops -> Seq(Functors)], NEW l \in Loops, NEW f \in Functors,
         NEW p, p = Push(q, l, f)
  PROVE  /\ p \in [Loops -> Seq(Functors)]
         /\ Len(q[l]) \in Nat /\ Len(p[l]) = Len(q[l]) + 1
         /\ \A k \in Loops : k # l => p[k] = q[k]
<1>1. q[l] \in Seq(Functors) /\ Len(q[l]) \in Nat
  BY LenProperties
<1>2. /\ p[l] = Append(q[l], f) /\ \A k \in Loops : k # l => p[k] = q[k]
      /\ p = [k \in Loops |-> p[k]]
  BY DEF Push
<1>3. p[l] \in Seq(Functors) /\ Len(p[l]) = Len(q[l]) + 1
  BY <1>1, <1>2, AppendProperties, SMT
<1>4. p \in [Loops -> Seq(Functors)]
  BY <1>2, <1>3
<1> QED
  BY <1>1, <1>2, <1>3, <1>4

\* Where each functor was before one more was queued.
LEMMA PushFrom ==
  ASSUME NEW q \in [Loops -> Seq(Functors)], NEW l \in Loops, NEW f \in Functors,
         NEW p, p = Push(q, l, f), NEW k \in Loops, NEW i \in DOMAIN p[k]
  PROVE  \/ i \in DOMAIN q[k] /\ p[k][i] = q[k][i]
         \/ k = l /\ i = Len(q[l]) + 1 /\ p[k][i] = f
<1>1. q[l] \in Seq(Functors) /\ Len(q[l]) \in Nat /\ DOMAIN q[l] = 1 .. Len(q[l])
  BY LenProperties
<1>2. p[l] = Append(q[l], f) /\ (k # l => p[k] = q[k])
  BY DEF Push
<1>3. /\ p[l][Len(q[l]) + 1] = f /\ \A n \in 1 .. Len(q[l]) : p[l][n] = q[l][n]
      /\ DOMAIN p[l] = 1 .. Len(q[l]) + 1
  BY <1>1, <1>2, AppendProperties, LenProperties, SMT
<1>4. CASE k # l
  BY <1>2, <1>4
<1>5. CASE k = l
  <2>1. i \in 1 .. Len(q[l]) \/ i = Len(q[l]) + 1
    BY <1>1, <1>3, <1>5, SMT
  <2> QED
    BY <1>1, <1>3, <1>5, <2>1
<1> QED
  BY <1>4, <1>5

\* doPendingFunctors(): the first functor of a loop goes, the others move up.
LEMMA PopIs ==
  ASSUME NEW q \in [Loops -> Seq(Functors)], NEW l \in Loops, q[l] # <<>>,
         NEW p, p = [q EXCEPT ![l] = Tail(@)]
  PROVE  /\ p \in [Loops -> Seq(Functors)]
         /\ Len(p[l]) = Len(q[l]) - 1 /\ \A k \in Loops : k # l => p[k] = q[k]
         /\ 1 \in DOMAIN q[l] /\ Head(q[l]) = q[l][1] /\ Head(q[l]) \in Functors
         /\ \A i \in DOMAIN p[l] :
              i \in Nat /\ i # 0 /\ i + 1 \in DOMAIN q[l] /\ p[l][i] = q[l][i + 1]
<1>1. q[l] \in Seq(Functors) /\ Len(q[l]) \in Nat \ {0} /\ DOMAIN q[l] = 1 .. Len(q[l])
  BY LenProperties, EmptySeq
<1>2. /\ p[l] = Tail(q[l]) /\ \A k \in Loops : k # l => p[k] = q[k]
      /\ p = [k \in Loops |-> p[k]]
  OBVIOUS
<1>3. /\ Head(q[l]) = q[l][1] /\ 1 \in DOMAIN q[l]
      /\ p[l] \in Seq(Functors) /\ Len(p[l]) = Len(q[l]) - 1
      /\ \A i \in 1 .. Len(p[l]) : p[l][i] = q[l][i + 1]
      /\ DOMAIN p[l] = 1 .. Len(p[l])
  BY <1>1, <1>2, HeadTailProperties, LenProperties, SMT
<1>4. Head(q[l]) \in Functors
  BY <1>1, HeadTailProperties
<1>5. p \in [Loops -> Seq(Functors)]
  BY <1>2, <1>3
<1>6. \A i \in DOMAIN p[l] :
        i \in Nat /\ i # 0 /\ i + 1 \in DOMAIN q[l] /\ p[l][i] = q[l][i + 1]
  BY <1>1, <1>3, SMT
<1> QED
  BY <1>2, <1>3, <1>4, <1>5, <1>6

\* A functor that fits, and is not the second of its kind, may be queued.
LEMMA PushFits ==
  ASSUME NEW q \in [Loops -> Seq(Functors)], NEW l \in Loops, NEW f \in Functors,
         NEW p, p = Push(q, l, f), NEW st, NEW con,
         AllFit(q, st, con), Once(q), Fits(f, st, con),
         f.fn \in Single => Absent(q, f.fn, f.conn)
  PROVE  AllFit(p, st, con) /\ Once(p)
<1>1. ASSUME NEW k \in Loops, NEW i \in DOMAIN p[k]
      PROVE  \/ i \in DOMAIN q[k] /\ p[k][i] = q[k][i]
             \/ k = l /\ i = Len(q[l]) + 1 /\ p[k][i] = f
  BY PushFrom, SMT
<1>2. AllFit(p, st, con)
  <2> SUFFICES ASSUME NEW k \in Loops, NEW i \in DOMAIN p[k] PROVE Fits(p[k][i], st, con)
    BY DEF AllFit
  <2>1. CASE i \in DOMAIN q[k] /\ p[k][i] = q[k][i]
    BY <2>1 DEF AllFit
  <2>2. CASE p[k][i] = f
    BY <2>2
  <2> QED
    BY <1>1, <2>1, <2>2
<1>3. Once(p)
  <2> SUFFICES ASSUME NEW k \in Loops, NEW m \in Loops, NEW i \in DOMAIN p[k], NEW j \in DOMAIN p[m],
                      p[k][i].fn \in Single, p[k][i].fn = p[m][j].fn, p[k][i].conn = p[m][j].conn
               PROVE  k = m /\ i = j
    BY SMT DEF Once
  <2>1. CASE i \in DOMAIN q[k] /\ p[k][i] = q[k][i] /\ j \in DOMAIN q[m] /\ p[m][j] = q[m][j]
    BY <2>1, SMT DEF Once
  <2>2. CASE i \in DOMAIN q[k] /\ p[k][i] = q[k][i] /\ p[m][j] = f
    BY <2>2 DEF Absent
  <2>3. CASE p[k][i] = f /\ j \in DOMAIN q[m] /\ p[m][j] = q[m][j]
    BY <2>3 DEF Absent
  <2>4. CASE k = l /\ i = Len(q[l]) + 1 /\ m = l /\ j = Len(q[l]) + 1
    BY <2>4
  <2>5. /\ (i \in DOMAIN q[k] /\ p[k][i] = q[k][i]) \/ (k = l /\ i = Len(q[l]) + 1 /\ p[k][i] = f)
        /\ (j \in DOMAIN q[m] /\ p[m][j] = q[m][j]) \/ (m = l /\ j = Len(q[l]) + 1 /\ p[m][j] = f)
    BY <1>1
  <2> QED
    BY <2>1, <2>2, <2>3, <2>4, <2>5
<1> QED
  BY <1>2, <1>3

\* Where each functor was before the first one of the loop l was taken.
LEMMA PopFrom ==
  ASSUME NEW q \in [Loops -> Seq(Functors)], NEW l \in Loops, q[l] # <<>>,
         NEW p, p = [q EXCEPT ![l] = Tail(@)],
         NEW k \in Loops, NEW i \in DOMAIN p[k]
  PROVE  \E j \in DOMAIN q[k] : /\ p[k][i] = q[k][j] /\ (k = l => j # 1)
                                /\ j = IF k = l THEN i + 1 ELSE i
<1>1. CASE k = l
  <2>1. i \in Nat /\ i # 0 /\ i + 1 \in DOMAIN q[l] /\ p[l][i] = q[l][i + 1]
    BY <1>1, PopIs, SMT
  <2> QED
    BY <1>1, <2>1, SMT
<1>2. CASE k # l
  <2>1. p[k] = q[k]
    BY <1>2, PopIs
  <2> QED
    BY <1>2, <2>1
<1> QED
  BY <1>1, <1>2

\* The functor f was taken and the functors p are left.
Parted(f, p, st, con) ==
  /\ AllFit(p, st, con) /\ Once(p) /\ Fits(f, st, con)
  /\ f.fn \in Single => Absent(p, f.fn, f.conn)

\* What is left fits, and no twin of the functor taken is among it.
LEMMA PopFits ==
  ASSUME NEW q \in [Loops -> Seq(Functors)], NEW l \in Loops, q[l] # <<>>,
         NEW p, p = [q EXCEPT ![l] = Tail(@)], NEW st, NEW con,
         AllFit(q, st, con), Once(q)
  PROVE  Parted(Head(q[l]), p, st, con)
<1>1. 1 \in DOMAIN q[l] /\ Head(q[l]) = q[l][1]
  BY PopIs, SMT
<1>2. AllFit(p, st, con)
  <2> SUFFICES ASSUME NEW k \in Loops, NEW i \in DOMAIN p[k] PROVE Fits(p[k][i], st, con)
    BY DEF AllFit
  <2>1. PICK j \in DOMAIN q[k] : p[k][i] = q[k][j]
    BY PopFrom, SMT
  <2> QED
    BY <2>1 DEF AllFit
<1>3. Once(p)
  <2> SUFFICES ASSUME NEW k \in Loops, NEW m \in Loops, NEW i \in DOMAIN p[k], NEW j \in DOMAIN p[m],
                      p[k][i].fn \in Single, p[k][i].fn = p[m][j].fn, p[k][i].conn = p[m][j].conn
               PROVE  k = m /\ i = j
    BY SMT DEF Once
  <2>1. PICK x \in DOMAIN q[k] : p[k][i] = q[k][x] /\ x = IF k = l THEN i + 1 ELSE i
    BY PopFrom, SMT
  <2>2. PICK y \in DOMAIN q[m] : p[m][j] = q[m][y] /\ y = IF m = l THEN j + 1 ELSE j
    BY PopFrom, SMT
  <2>3. k = m /\ x = y
    BY <2>1, <2>2, SMT DEF Once
  <2>4. CASE k = l
    <3>1. i \in Nat /\ j \in Nat
      BY <2>3, <2>4, PopIs, SMT
    <3> QED
      BY <2>1, <2>2, <2>3, <2>4, <3>1, SMT
  <2> QED
    BY <2>1, <2>2, <2>3, <2>4
<1>4. ASSUME Head(q[l]).fn \in Single, NEW k \in Loops, NEW i \in DOMAIN p[k],
             p[k][i].fn = Head(q[l]).fn, p[k][i].conn = Head(q[l]).conn
      PROVE  FALSE
  <2>1. PICK j \in DOMAIN q[k] : p[k][i] = q[k][j] /\ (k = l => j # 1)
    BY PopFrom, SMT
  <2> QED
    BY <1>1, <1>4, <2>1, SMT DEF Once
<1>5. Head(q[l]).fn \in Single => Absent(p, Head(q[l]).fn, Head(q[l]).conn)
  BY <1>4 DEF Absent
<1>6. Fits(Head(q[l]), st, con)
  BY <1>1 DEF AllFit
<1> QED
  BY <1>2, <1>3, <1>5, <1>6 DEF Parted

\* Queueing a functor keeps the queues well formed.
LEMMA PushQueue ==
  ASSUME NEW q, NEW bat, QueueOK(q, bat), NEW l \in Loops, NEW f \in Functors,
         f.fn = "remove" => l = base, NEW p, p = Push(q, l, f)
  PROVE  QueueOK(p, bat)
<1>1. /\ q \in [Loops -> Seq(Functors)] /\ RemoveInBase(q)
      /\ bat \in [Loops -> Nat] /\ \A k \in Loops : bat[k] <= Len(q[k])
  BY DEF QueueOK
<1>2. /\ p \in [Loops -> Seq(Functors)]
      /\ Len(q[l]) \in Nat /\ Len(p[l]) = Len(q[l]) + 1
      /\ \A k \in Loops : k # l => p[k] = q[k]
  <2>1. q \in [Loops -> Seq(Functors)]
    BY <1>1
  <2> QED
    BY <2>1, PushIs, SMT
<1>3. ASSUME NEW k \in Loops PROVE bat[k] <= Len(p[k])
  <2>1. CASE k = l
    BY <1>1, <1>2, <2>1, SMT
  <2>2. CASE k # l
    BY <1>1, <1>2, <2>2
  <2> QED
    BY <2>1, <2>2
<1>4. RemoveInBase(p)
  <2> SUFFICES ASSUME NEW k \in Loops, NEW i \in DOMAIN p[k], p[k][i].fn = "remove"
               PROVE  k = base
    BY DEF RemoveInBase
  <2>1. (i \in DOMAIN q[k] /\ p[k][i] = q[k][i]) \/ (k = l /\ p[k][i] = f)
    BY <1>1, PushFrom, SMT
  <2> QED
    BY <1>1, <2>1 DEF RemoveInBase
<1> QED
  BY <1>1, <1>2, <1>3, <1>4 DEF QueueOK

\* So does taking one, and a loop with functors left to run has one to take.
LEMMA PopQueue ==
  ASSUME NEW q, NEW bat, QueueOK(q, bat), NEW l \in Loops, bat[l] > 0,
         NEW p, p = [q EXCEPT ![l] = Tail(@)], NEW b, b = [bat EXCEPT ![l] = @ - 1]
  PROVE  q[l] # <<>> /\ QueueOK(p, b)
<1>1. /\ q \in [Loops -> Seq(Functors)] /\ RemoveInBase(q)
      /\ bat \in [Loops -> Nat] /\ \A k \in Loops : bat[k] <= Len(q[k])
  BY DEF QueueOK
<1>2. q[l] # <<>> /\ Len(q[l]) \in Nat
  <2>1. q[l] \in Seq(Functors) /\ bat[l] \in Nat /\ bat[l] <= Len(q[l])
    BY <1>1
  <2> QED
    BY <2>1, EmptySeq, LenProperties, SMT
<1>3. /\ p \in [Loops -> Seq(Functors)]
      /\ Len(p[l]) = Len(q[l]) - 1 /\ \A k \in Loops : k # l => p[k] = q[k]
  BY <1>1, <1>2, PopIs, SMT
<1>4. b \in [Loops -> Nat] /\ b[l] = bat[l] - 1 /\ \A k \in Loops : k # l => b[k] = bat[k]
  BY <1>1, SMT
<1>5. ASSUME NEW k \in Loops PROVE b[k] <= Len(p[k])
  <2>1. CASE k = l
    <3>1. bat[l] \in Nat /\ bat[l] <= Len(q[l])
      BY <1>1
    <3> QED
      BY <1>2, <1>3, <1>4, <2>1, <3>1, SMT
  <2>2. CASE k # l
    BY <1>1, <1>3, <1>4, <2>2
  <2> QED
    BY <2>1, <2>2
<1>6. RemoveInBase(p)
  <2> SUFFICES ASSUME NEW k \in Loops, NEW i \in DOMAIN p[k], p[k][i].fn = "remove"
               PROVE  k = base
    BY DEF RemoveInBase
  <2>1. PICK j \in DOMAIN q[k] : p[k][i] = q[k][j]
    BY <1>1, <1>2, PopFrom, SMT
  <2> QED
    BY <1>1, <2>1 DEF RemoveInBase
<1> QED
  BY <1>2, <1>3, <1>4, <1>5, <1>6 DEF QueueOK

\* A new state of c fits if only calls for c are queued, and any if nothing is.
LEMMA Restate ==
  ASSUME NEW q, NEW st \in [Conns -> {"none", "kConnecting"} \cup Known], NEW con, NEW con2,
         AllFit(q, st, con), NEW c \in Conns, NEW v, con \ {c} \subseteq con2,
         q \in [Loops -> Seq(Functors)],
         Free(q, c) \/ (v \in Known /\ st[c] \in Open)
  PROVE  AllFit(q, [st EXCEPT ![c] = v], con2)
<1> SUFFICES ASSUME NEW l \in Loops, NEW i \in DOMAIN q[l]
             PROVE  Fits(q[l][i], [st EXCEPT ![c] = v], con2)
  BY DEF AllFit
<1> DEFINE f == q[l][i]
<1>1. Fits(f, st, con) /\ f \in Functors
  <2>1. q[l] \in Seq(Functors)
    OBVIOUS
  <2>2. q[l][i] \in Functors
    BY <2>1, SMT
  <2> QED
    BY <2>2 DEF AllFit
<1>2. f.conn \in Conns
  BY <1>1 DEF Functors
<1> HIDE DEF f
<1>3. CASE f.conn # c
  <2>1. [st EXCEPT ![c] = v][f.conn] = st[f.conn]
    BY <1>2, <1>3
  <2> QED
    BY <1>1, <1>3, <2>1 DEF Fits, f
<1>4. CASE f.conn = c
  <2>1. v \in Known /\ st[c] \in Open
    BY <1>4 DEF Free, f
  <2>2. [st EXCEPT ![c] = v][f.conn] = v
    BY <1>4
  <2>3. f.fn \notin {"connectEstablished", "remove", "connectDestroyed"}
    BY <1>1, <1>4, <2>1 DEF Fits, Open
  <2> QED
    BY <2>1, <2>2, <2>3 DEF Fits, f
<1> QED
  BY <1>3, <1>4

\* An open connection has only calls queued, one not made yet has nothing.
LEMMA Queued ==
  ASSUME NEW q \in [Loops -> Seq(Functors)], NEW st, NEW con, AllFit(q, st, con), NEW c \in Conns
  PROVE  /\ st[c] \in Open => Absent(q, "remove", c)
         /\ st[c] = "none" => Free(q, c)
         /\ st[c] = "kConnecting" /\ Absent(q, "connectEstablished", c) => Free(q, c)
<1>1. ASSUME NEW l \in Loops, NEW i \in DOMAIN q[l]
      PROVE  /\ Fits(q[l][i], st, con)
             /\ q[l][i].fn \in {"connectEstablished", "remove", "connectDestroyed"} \cup CallNames
  <2>1. q[l] \in Seq(Functors)
    OBVIOUS
  <2>2. q[l][i] \in Functors
    BY <2>1, SMT
  <2> QED
    BY <2>2 DEF AllFit, Functors
<1>2. st[c] \in Open => Absent(q, "remove", c)
  BY <1>1 DEF Absent, Fits, Open
<1>3. st[c] = "none" => Free(q, c)
  BY <1>1 DEF Free, Fits, Open, Known
<1>4. st[c] = "kConnecting" /\ Absent(q, "connectEstablished", c) => Free(q, c)
  BY <1>1 DEF Free, Absent, Fits, Open, Known
<1> QED
  BY <1>2, <1>3, <1>4

\* What each step has to keep.
LEMMA Assemble ==
  ASSUME IInv, TypeOK', Sound' => Sound, Sound /\ SoundInv /\ Sound' => SoundInv',
         missed' => missed \/ revived # {}, revived \subseteq revived'
  PROVE  IInv'
<1>1. ErasedOnce'
  BY DEF IInv, ErasedOnce
<1> QED
  BY <1>1 DEF IInv

\* handleClose() of c in the loop l, with the functors q left in the queues.
CloseStep(c, q, l) ==
  /\ HandleClose(c, q, l) /\ QueueOK(q, batch')
  /\ l = base => server # "destroying"
  /\ Sound => state_[c] \in Open /\ AllFit(q, state_, connections_) /\ Once(q)
  /\ UNCHANGED <<ioLoop, refs, tpc, revived, server, quit_>>

\* handleClose() keeps the invariant: the connection was open, so it is in the
\* map and no functor is about to remove it.
LEMMA CloseKeeps ==
  ASSUME IInv, NEW c \in Conns, NEW l \in Loops, NEW q, CloseStep(c, q, l)
  PROVE  IInv'
<1> DEFINE destroyed == Functor("connectDestroyed", c, FALSE)
           remove == Functor("remove", c, FALSE)
<1>1. /\ state_' = [state_ EXCEPT ![c] = "kDisconnected"]
      /\ index' = [index EXCEPT ![c] = IndexWhenDisabled(c)]
      /\ QueueOK(q, batch') /\ (l = base => server # "destroying")
      /\ UNCHANGED <<ioLoop, refs, tpc, revived, server, quit_>>
  BY DEF CloseStep, HandleClose, Disabled
<1>2. \/ /\ l = base /\ server # "gone" /\ connections_' = connections_ \ {c}
         /\ missed' = (missed \/ c \notin connections_) /\ queue' = Push(q, ioLoop[c], destroyed)
      \/ server = "gone" /\ queue' = q /\ UNCHANGED <<connections_, missed>>
      \/ queue' = Push(q, base, remove) /\ UNCHANGED <<connections_, missed>>
  BY DEF CloseStep, HandleClose, RemoveConnectionInLoop, serverVars
<1>3. destroyed \in Functors /\ remove \in Functors /\ base \in Loops /\ ioLoop[c] \in Loops
  BY DEF IInv, TypeOK, Functor, Functors, Loops
<1>4. /\ destroyed.fn = "connectDestroyed" /\ destroyed.conn = c
      /\ remove.fn = "remove" /\ remove.conn = c
  BY DEF Functor
<1> HIDE DEF destroyed, remove
<1>5. TypeOK'
  <2>1. QueueOK(queue', batch')
    BY <1>1, <1>2, <1>3, <1>4, PushQueue
  <2>2. /\ state_' \in [Conns -> {"none", "kConnecting"} \cup Known]
        /\ index' \in [Conns -> {"kNew", "kAdded", "kDeleted"}]
    BY <1>1 DEF IInv, TypeOK, Known, IndexWhenDisabled
  <2> QED
    BY <1>1, <2>1, <2>2 DEF IInv, TypeOK, ThreadsOK
<1>6. Sound' => Sound
  BY <1>1 DEF Sound
<1>7. ASSUME Sound, SoundInv PROVE SoundInv'
  <2>1. state_[c] \in Open /\ AllFit(q, state_, connections_) /\ Once(q)
    BY <1>7 DEF CloseStep
  <2>2. q \in [Loops -> Seq(Functors)] /\ state_ \in [Conns -> {"none", "kConnecting"} \cup Known]
    BY <1>1 DEF QueueOK, IInv, TypeOK
  <2>3. connections_ \ {c} \subseteq connections_'
    BY <1>2
  <2>4. AllFit(q, state_', connections_')
    BY <1>1, <2>1, <2>2, <2>3, Restate DEF Known
  <2>5. state_'[c] = "kDisconnected" /\ \A d \in Conns : d # c => state_'[d] = state_[d]
    BY <1>1, <2>2
  <2>6. c \in connections_
    BY <1>7, <2>1 DEF SoundInv, LifeInv
  <2>7. AllFit(queue', state_', connections_') /\ Once(queue')
    <3>1. CASE queue' = Push(q, ioLoop[c], destroyed)
      <4>1. Fits(destroyed, state_', connections_') /\ destroyed.fn \notin Single
        BY <1>4, <2>5 DEF Fits, CallNames, Single
      <4> QED
        BY <1>3, <2>1, <2>2, <2>4, <3>1, <4>1, PushFits
    <3>2. CASE queue' = Push(q, base, remove) /\ UNCHANGED connections_
      <4>1. Fits(remove, state_', connections_') /\ Absent(q, remove.fn, remove.conn)
        <5>1. Absent(q, "remove", c)
          BY <2>1, <2>2, Queued
        <5> QED
          BY <1>4, <2>5, <2>6, <3>2, <5>1 DEF Fits, CallNames
      <4> QED
        BY <1>3, <2>1, <2>2, <2>4, <3>2, <4>1, PushFits
    <3> QED
      BY <1>2, <1>7, <3>1, <3>2 DEF Sound
  <2>8. LifeInv'
    <3> SUFFICES ASSUME NEW d \in Conns
                 PROVE  /\ index'[d] = "kAdded" <=> state_'[d] \in Open
                        /\ state_'[d] \in Open \cup {"kConnecting"} => d \in connections_'
                        /\ \A t \in Threads : d \in Held(t) => state_'[d] \in Known
      BY <1>1 DEF LifeInv, Held
    <3>1. CASE d = c
      <4>1. index'[c] = "kDeleted"
        BY <1>1, <1>7, <2>1 DEF SoundInv, LifeInv, IndexWhenDisabled, IInv, TypeOK
      <4> QED
        BY <2>5, <3>1, <4>1 DEF Open, Known
    <3>2. CASE d # c
      <4>1. index'[d] = index[d] /\ state_'[d] = state_[d] /\ (d \in connections_' <=> d \in connections_)
        BY <1>1, <1>2, <2>5, <3>2 DEF IInv, TypeOK
      <4> QED
        BY <1>7, <4>1 DEF SoundInv, LifeInv
    <3> QED
      BY <3>1, <3>2
  <2> QED
    BY <2>7, <2>8 DEF SoundInv
<1>8. missed' => missed \/ revived # {}
  <2> SUFFICES ASSUME ~missed, missed', revived = {} PROVE FALSE
    OBVIOUS
  <2>1. l = base /\ server # "gone" /\ c \notin connections_
    BY <1>2
  <2>2. Sound
    BY <1>1, <2>1 DEF Sound
  <2> QED
    BY <2>1, <2>2 DEF CloseStep, IInv, SoundInv, LifeInv
<1> QED
  BY <1>1, <1>5, <1>6, <1>7, <1>8, Assemble

\* A step after which the functors q are queued and connections are as they were.
PlainStep(q) ==
  /\ queue' = q /\ QueueOK(q, batch') /\ ThreadsOK'
  /\ Sound' => Sound
  /\ Sound /\ Sound' => AllFit(q, state_, connections_) /\ Once(q)
  /\ \A t \in Threads : Held(t)' \subseteq Held(t)
  /\ quit_' # {} => server' \in {"destroying", "gone"}
  /\ UNCHANGED <<state_, index, ioLoop, connections_, missed, revived>>

\* Such a step keeps the invariant.
LEMMA PlainKeeps ==
  ASSUME IInv, NEW q, PlainStep(q)
  PROVE  IInv'
<1>1. TypeOK'
  BY DEF PlainStep, IInv, TypeOK
<1>2. ASSUME Sound, SoundInv, Sound' PROVE SoundInv'
  <2>1. LifeInv'
    BY <1>2 DEF PlainStep, SoundInv, LifeInv
  <2> QED
    BY <1>2, <2>1 DEF PlainStep, SoundInv
<1> QED
  BY <1>1, <1>2, Assemble DEF PlainStep

\* shutdown() or forceClose() sets the state_ of c, which is open unless it is
\* being revived.
DisconnectingStep(c) ==
  /\ state_' = [state_ EXCEPT ![c] = "kDisconnecting"]
  /\ Sound' => Sound /\ state_[c] \in Open
  /\ ThreadsOK' /\ \A t \in Threads : Held(t)' \subseteq Held(t)
  /\ revived \subseteq revived'
  /\ UNCHANGED <<index, ioLoop, connections_, missed, queue, batch, server, quit_>>

\* An open connection stays open, so nothing queued for it stops fitting.
LEMMA DisconnectingKeeps ==
  ASSUME IInv, NEW c \in Conns, DisconnectingStep(c)
  PROVE  IInv'
<1>1. TypeOK'
  BY DEF DisconnectingStep, IInv, TypeOK, Known, Open
<1>2. ASSUME Sound, SoundInv, Sound' PROVE SoundInv'
  <2>1. /\ state_ \in [Conns -> {"none", "kConnecting"} \cup Known]
        /\ state_[c] \in Open /\ queue \in [Loops -> Seq(Functors)]
    BY <1>2 DEF DisconnectingStep, IInv, TypeOK, QueueOK
  <2>2. state_'[c] = "kDisconnecting" /\ \A d \in Conns : d # c => state_'[d] = state_[d]
    BY <2>1 DEF DisconnectingStep
  <2>3. AllFit(queue', state_', connections_')
    BY <1>2, <2>1, Restate DEF DisconnectingStep, SoundInv, Known, Open
  <2>4. LifeInv'
    <3> SUFFICES ASSUME NEW d \in Conns
                 PROVE  /\ index[d] = "kAdded" <=> state_'[d] \in Open
                        /\ state_'[d] \in Open \cup {"kConnecting"} => d \in connections_
                        /\ \A t \in Threads : d \in Held(t) => state_'[d] \in Known
      BY DEF LifeInv, DisconnectingStep
    <3>1. CASE d = c
      BY <1>2, <2>1, <2>2, <3>1 DEF SoundInv, LifeInv, Open, Known
    <3>2. CASE d # c
      BY <1>2, <2>2, <3>2 DEF SoundInv, LifeInv
    <3> QED
      BY <3>1, <3>2
  <2> QED
    BY <1>2, <2>3, <2>4 DEF DisconnectingStep, SoundInv
<1> QED
  BY <1>1, <1>2, Assemble DEF DisconnectingStep

\* connectEstablished() of c, for which nothing else is queued.
EstablishStep(c, q) ==
  /\ ConnectEstablished(c) /\ queue' = q /\ QueueOK(q, batch')
  /\ Sound => Free(q, c) /\ AllFit(q, state_, connections_) /\ Once(q) /\ c \in connections_'
  /\ connections_ \subseteq connections_' /\ ioLoop' \in [Conns -> Loops]
  /\ UNCHANGED <<missed, tpc, revived, server, quit_>>

\* connectEstablished() keeps the invariant.
LEMMA EstablishKeeps ==
  ASSUME IInv, NEW c \in Conns, NEW q, EstablishStep(c, q)
  PROVE  IInv'
<1>1. /\ state_' = [state_ EXCEPT ![c] = "kConnected"] /\ index' = [index EXCEPT ![c] = "kAdded"]
      /\ queue' = q /\ QueueOK(q, batch') /\ connections_ \subseteq connections_'
      /\ UNCHANGED <<missed, tpc, revived, server, quit_>>
  BY DEF EstablishStep, ConnectEstablished
<1>2. PICK holders \in SUBSET Threads :
        refs' = [t \in Threads |-> IF t \in holders THEN refs[t] \cup {c} ELSE refs[t]]
  BY DEF EstablishStep, ConnectEstablished
<1>3. refs' \in [Threads -> SUBSET Conns] /\ \A t \in Threads : refs'[t] \subseteq refs[t] \cup {c}
  BY <1>2 DEF IInv, TypeOK, ThreadsOK
<1>4. TypeOK'
  BY <1>1, <1>3 DEF EstablishStep, IInv, TypeOK, ThreadsOK, Known, Open
<1>5. ASSUME Sound, SoundInv PROVE SoundInv'
  <2>1. /\ state_ \in [Conns -> {"none", "kConnecting"} \cup Known]
        /\ index \in [Conns -> {"kNew", "kAdded", "kDeleted"}]
        /\ q \in [Loops -> Seq(Functors)] /\ connections_ \ {c} \subseteq connections_'
        /\ Free(q, c) /\ AllFit(q, state_, connections_) /\ Once(q) /\ c \in connections_'
    BY <1>1, <1>5 DEF EstablishStep, IInv, TypeOK, QueueOK
  <2>2. /\ state_'[c] = "kConnected" /\ index'[c] = "kAdded"
        /\ \A d \in Conns : d # c => state_'[d] = state_[d] /\ index'[d] = index[d]
    BY <1>1, <2>1
  <2>3. AllFit(queue', state_', connections_')
    BY <1>1, <2>1, Restate
  <2>4. LifeInv'
    <3> SUFFICES ASSUME NEW d \in Conns
                 PROVE  /\ index'[d] = "kAdded" <=> state_'[d] \in Open
                        /\ state_'[d] \in Open \cup {"kConnecting"} => d \in connections_'
                        /\ \A t \in Threads : d \in Held(t)' => state_'[d] \in Known
      BY DEF LifeInv
    <3>1. CASE d = c
      BY <2>1, <2>2, <3>1 DEF Open, Known
    <3>2. CASE d # c
      <4>1. \A t \in Threads : d \in Held(t)' => d \in Held(t)
        BY <1>1, <1>3, <3>2 DEF Held
      <4> QED
        BY <1>1, <1>5, <2>2, <3>2, <4>1 DEF SoundInv, LifeInv
    <3> QED
      BY <3>1, <3>2
  <2> QED
    BY <1>1, <2>1, <2>3, <2>4 DEF SoundInv
<1> QED
  BY <1>1, <1>4, <1>5, Assemble DEF Sound

-----------------------------------------------------------------------------
\* The invariant holds when the server is made.
LEMMA InitHolds == Init => IInv
<1> SUFFICES ASSUME Init PROVE IInv
  OBVIOUS
<1>1. queue \in [Loops -> Seq(Functors)] /\ \A l \in Loops : queue[l] = <<>>
  BY EmptySeq DEF Init
<1>2. \A l \in Loops : DOMAIN queue[l] = {} /\ Len(queue[l]) = 0
  BY <1>1, EmptySeq, SMT
<1>3. QueueOK(queue, batch)
  BY <1>1, <1>2, SMT DEF Init, QueueOK, RemoveInBase
<1>4. TypeOK
  BY <1>3 DEF Init, TypeOK, ThreadsOK, Idle, Loops
<1>5. LifeInv
  BY DEF Init, LifeInv, Held, Idle, Open
<1>6. AllFit(queue, state_, connections_) /\ Once(queue)
  BY <1>2 DEF AllFit, Once
<1> QED
  BY <1>4, <1>5, <1>6 DEF IInv, SoundInv, ErasedOnce, Init

\* newConnection() of a connection of another loop: nothing was queued for it.
LEMMA ConnectingKeeps ==
  ASSUME IInv, NEW c \in Conns, NEW l \in IoLoops, l # base, NewConnection(c, l),
         UNCHANGED loopVars
  PROVE  IInv'
<1> DEFINE f == Functor("connectEstablished", c, FALSE)
<1>1. /\ state_[c] = "none" /\ state_' = [state_ EXCEPT ![c] = "kConnecting"]
      /\ connections_' = connections_ \cup {c} /\ ioLoop' = [ioLoop EXCEPT ![c] = l]
      /\ queue' = Push(queue, l, f) /\ l \in Loops
      /\ UNCHANGED <<index, refs, missed, tpc, revived, server, batch, quit_>>
  BY DEF NewConnection, loopVars, Loops
<1>2. f \in Functors /\ f.fn = "connectEstablished" /\ f.conn = c
  BY DEF Functor, Functors
<1> HIDE DEF f
<1>3. QueueOK(queue, batch) /\ queue \in [Loops -> Seq(Functors)]
  BY DEF IInv, TypeOK, QueueOK
<1>4. TypeOK'
  <2>1. QueueOK(queue', batch')
    BY <1>1, <1>2, <1>3, PushQueue
  <2>2. /\ state_' \in [Conns -> {"none", "kConnecting"} \cup Known]
        /\ ioLoop' \in [Conns -> Loops]
    BY <1>1 DEF IInv, TypeOK
  <2> QED
    BY <1>1, <2>1, <2>2 DEF IInv, TypeOK, ThreadsOK
<1>5. ASSUME Sound, SoundInv PROVE SoundInv'
  <2>1. /\ state_ \in [Conns -> {"none", "kConnecting"} \cup Known]
        /\ AllFit(queue, state_, connections_) /\ Once(queue)
    BY <1>5 DEF IInv, TypeOK, SoundInv
  <2>2. Free(queue, c)
    BY <1>1, <1>3, <2>1, Queued
  <2>3. state_'[c] = "kConnecting" /\ \A d \in Conns : d # c => state_'[d] = state_[d]
    BY <1>1, <2>1
  <2>4. connections_ \ {c} \subseteq connections_'
    BY <1>1
  <2>5. AllFit(queue, state_', connections_')
    BY <1>1, <1>3, <2>1, <2>2, <2>4, Restate
  <2>6. Fits(f, state_', connections_') /\ Absent(queue, f.fn, f.conn)
    BY <1>2, <2>2, <2>3 DEF Fits, Absent, Free, CallNames
  <2>7. AllFit(queue', state_', connections_') /\ Once(queue')
    BY <1>1, <1>2, <1>3, <2>1, <2>5, <2>6, PushFits, SMT
  <2>8. LifeInv'
    <3> SUFFICES ASSUME NEW d \in Conns
                 PROVE  /\ index[d] = "kAdded" <=> state_'[d] \in Open
                        /\ state_'[d] \in Open \cup {"kConnecting"} => d \in connections_'
                        /\ \A t \in Threads : d \in Held(t) => state_'[d] \in Known
      BY <1>1 DEF LifeInv, Held
    <3>1. CASE d = c
      BY <1>1, <1>5, <2>3, <3>1 DEF SoundInv, LifeInv, Open, Known
    <3>2. CASE d # c
      BY <1>1, <1>5, <2>3, <3>2 DEF SoundInv, LifeInv
    <3> QED
      BY <3>1, <3>2
  <2> QED
    BY <2>7, <2>8 DEF SoundInv
<1> QED
  BY <1>1, <1>4, <1>5, Assemble DEF Sound

\* The handlers of a connection's channel and of the acceptor.
LEMMA EventKeeps ==
  ASSUME IInv, NEW c \in Conns, Event(c)
  PROVE  IInv'
<1>1. /\ QueueOK(queue, batch) /\ queue \in [Loops -> Seq(Functors)]
      /\ ioLoop \in [Conns -> Loops] /\ ThreadsOK
      /\ UNCHANGED <<server, batch, quit_>>
  BY DEF IInv, TypeOK, QueueOK, Event, loopVars
<1>2. Sound => LifeInv /\ AllFit(queue, state_, connections_) /\ Once(queue)
  BY DEF IInv, SoundInv
<1>3. CASE HandleReadEof(c) \/ HandleHangup(c) \/ MessageForceClose(c)
  <2>1. /\ index[c] = "kAdded" /\ (ioLoop[c] = base => server # "destroying")
        /\ HandleClose(c, queue, ioLoop[c]) /\ UNCHANGED <<ioLoop, refs, tpc, revived>>
    BY <1>3 DEF HandleReadEof, HandleHangup, MessageForceClose, Readable, Handling, threadVars
  <2>2. PICK l \in Loops : l = ioLoop[c]
    BY <1>1
  <2>3. PICK q : q = queue
    OBVIOUS
  <2>4. Sound => state_[c] \in Open
    BY <1>2, <2>1 DEF LifeInv
  <2>5. CloseStep(c, q, l)
    BY <1>1, <1>2, <2>1, <2>2, <2>3, <2>4 DEF CloseStep
  <2> QED
    BY <2>5, CloseKeeps
<1>4. CASE MessageShutdown(c)
  <2>1. DisconnectingStep(c)
    BY <1>1, <1>4 DEF MessageShutdown, DisconnectingStep, serverVars, threadVars, Open, Sound,
                      ThreadsOK, Held
  <2> QED
    BY <2>1, DisconnectingKeeps
<1>5. CASE Accept(c)
  <2>1. PICK l \in IoLoops : NewConnection(c, l)
    BY <1>5 DEF Accept
  <2>2. CASE l = base
    <3>1. /\ state_[c] = "none" /\ ConnectEstablished(c) /\ connections_' = connections_ \cup {c}
          /\ ioLoop' = [ioLoop EXCEPT ![c] = l] /\ UNCHANGED <<queue, missed, tpc, revived>>
      BY <2>1, <2>2 DEF NewConnection
    <3>2. Sound => Free(queue, c)
      BY <1>1, <1>2, <3>1, Queued
    <3>3. PICK q : q = queue
      OBVIOUS
    <3>4. EstablishStep(c, q)
      BY <1>1, <1>2, <3>1, <3>2, <3>3 DEF EstablishStep, Loops
    <3> QED
      BY <3>4, EstablishKeeps
  <2> QED
    BY <2>1, <2>2, ConnectingKeeps DEF Event
<1> QED
  BY <1>3, <1>4, <1>5 DEF Event

-----------------------------------------------------------------------------
\* The functor f is the next of the loop l; the functors q stay in the queues.
Taken(l, f, q) ==
  /\ f \in Functors /\ QueueOK(q, batch') /\ (f.fn = "remove" => l = base)
  /\ Sound => Parted(f, q, state_, connections_)
  /\ l = base => server # "destroying"
  /\ UNCHANGED <<server, quit_>>

\* What a loop takes from its queue fits the state of the connection.
LEMMA TakeNext ==
  ASSUME IInv, NEW l \in Loops, Runs(l)
  PROVE  \E f, q : f = Head(queue[l]) /\ q = Pop(l) /\ Taken(l, f, q)
<1>1. /\ batch[l] > 0 /\ batch' = [batch EXCEPT ![l] = @ - 1] /\ UNCHANGED <<server, quit_>>
      /\ l = base => server # "destroying"
  BY DEF Runs, Turn
<1>2. PICK p : p = queue
  OBVIOUS
<1>3. PICK b : b = batch
  OBVIOUS
<1>4. PICK q : q = [p EXCEPT ![l] = Tail(@)]
  OBVIOUS
<1>5. QueueOK(p, b) /\ p \in [Loops -> Seq(Functors)] /\ RemoveInBase(p)
  BY <1>2, <1>3 DEF IInv, TypeOK, QueueOK
<1>6. p[l] # <<>> /\ QueueOK(q, batch')
  BY <1>1, <1>3, <1>4, <1>5, PopQueue
<1>7. PICK f : f = Head(p[l])
  OBVIOUS
<1>8. f \in Functors /\ (f.fn = "remove" => l = base)
  <2>1. 1 \in DOMAIN p[l] /\ f = p[l][1] /\ f \in Functors
    BY <1>4, <1>5, <1>6, <1>7, PopIs, SMT
  <2> QED
    BY <1>5, <2>1 DEF RemoveInBase
<1>9. ASSUME Sound PROVE Parted(f, q, state_, connections_)
  <2>1. AllFit(p, state_, connections_) /\ Once(p)
    BY <1>2, <1>9 DEF IInv, SoundInv
  <2>2. PICK st, con : st = state_ /\ con = connections_
    OBVIOUS
  <2>3. AllFit(p, st, con) /\ Once(p)
    BY <2>1, <2>2
  <2>4. Parted(Head(p[l]), q, st, con)
    BY <1>4, <1>5, <1>6, <2>3, PopFits
  <2> QED
    BY <1>7, <2>2, <2>4
<1>10. f = Head(queue[l]) /\ q = Pop(l)
  BY <1>2, <1>4, <1>7 DEF Pop
<1> QED
  BY <1>1, <1>6, <1>8, <1>9, <1>10 DEF Taken

\* A connection none of whose functors remove it may leave the map.
LEMMA Forget ==
  ASSUME NEW q, NEW st, NEW con, NEW c, AllFit(q, st, con), Absent(q, "remove", c)
  PROVE  AllFit(q, st, con \ {c})
<1> SUFFICES ASSUME NEW l \in Loops, NEW i \in DOMAIN q[l] PROVE Fits(q[l][i], st, con \ {c})
  BY DEF AllFit
<1>1. Fits(q[l][i], st, con) /\ ~(q[l][i].fn = "remove" /\ q[l][i].conn = c)
  BY DEF AllFit, Absent
<1> QED
  BY <1>1 DEF Fits

\* removeConnectionInLoop() as a functor: it finds the connection in the map.
LEMMA RemoveKeeps ==
  ASSUME IInv, NEW l \in Loops, NEW f, NEW q, Taken(l, f, q), f.fn = "remove", server # "gone",
         RemoveConnectionInLoop(f.conn, q),
         UNCHANGED <<state_, index, ioLoop, refs, tpc, revived>>
  PROVE  IInv'
<1>1. PICK c \in Conns : c = f.conn
  BY DEF Taken, Functors
<1> DEFINE g == Functor("connectDestroyed", c, FALSE)
<1>2. /\ connections_' = connections_ \ {c} /\ missed' = (missed \/ c \notin connections_)
      /\ queue' = Push(q, ioLoop[c], g)
  BY <1>1 DEF RemoveConnectionInLoop
<1>3. /\ g \in Functors /\ g.fn = "connectDestroyed" /\ g.conn = c /\ ioLoop[c] \in Loops
      /\ g.fn # "remove" /\ g.fn \notin Single
  BY DEF Functor, Functors, IInv, TypeOK, Single
<1> HIDE DEF g
<1>4. /\ QueueOK(q, batch') /\ q \in [Loops -> Seq(Functors)] /\ UNCHANGED <<server, quit_>>
      /\ server # "destroying"
  BY DEF Taken, QueueOK
<1>5. TypeOK'
  <2>1. QueueOK(queue', batch')
    BY <1>2, <1>3, <1>4, PushQueue
  <2> QED
    BY <1>4, <2>1 DEF IInv, TypeOK, ThreadsOK
<1>6. ASSUME Sound, SoundInv PROVE SoundInv' /\ c \in connections_
  <2>1. /\ AllFit(q, state_, connections_) /\ Once(q) /\ Absent(q, "remove", c)
        /\ state_[c] = "kDisconnected" /\ c \in connections_
    BY <1>1, <1>6 DEF Taken, Parted, Fits, Single
  <2>2. AllFit(q, state_', connections_')
    BY <1>2, <2>1, Forget
  <2>3. Fits(g, state_', connections_')
    BY <1>3, <2>1 DEF Fits, CallNames
  <2>4. AllFit(queue', state_', connections_') /\ Once(queue')
    <3>1. PICK st, con, p, k, h : /\ st = state_' /\ con = connections_' /\ p = queue'
                                  /\ k = ioLoop[c] /\ h = g
      OBVIOUS
    <3>2. /\ k \in Loops /\ h \in Functors /\ h.fn \notin Single /\ p = Push(q, k, h)
          /\ AllFit(q, st, con) /\ Once(q) /\ Fits(h, st, con) /\ q \in [Loops -> Seq(Functors)]
      BY <1>2, <1>3, <1>4, <2>1, <2>2, <2>3, <3>1
    <3>3. AllFit(p, st, con) /\ Once(p)
      BY <3>2, PushFits
    <3> QED
      BY <3>1, <3>3
  <2>5. LifeInv'
    <3> SUFFICES ASSUME NEW d \in Conns
                 PROVE  /\ index[d] = "kAdded" <=> state_[d] \in Open
                        /\ state_[d] \in Open \cup {"kConnecting"} => d \in connections_'
                        /\ \A t \in Threads : d \in Held(t) => state_[d] \in Known
      BY DEF LifeInv, Held
    <3>1. state_[d] \in Open \cup {"kConnecting"} => d # c
      BY <2>1 DEF Open
    <3> QED
      BY <1>2, <1>6, <3>1 DEF SoundInv, LifeInv
  <2> QED
    BY <2>1, <2>4, <2>5 DEF SoundInv
<1>7. missed' => missed \/ revived # {}
  BY <1>2, <1>4, <1>6 DEF Sound, IInv
<1> QED
  BY <1>4, <1>5, <1>6, <1>7, Assemble DEF Sound

\* connectDestroyed() as a functor: the connection is closed, so only its
\* channel changes.
LEMMA DestroyedKeeps ==
  ASSUME IInv, NEW l \in Loops, NEW f, NEW q, Taken(l, f, q), f.fn = "connectDestroyed",
         ConnectDestroyed(f.conn), queue' = q,
         UNCHANGED <<connections_, missed, ioLoop, refs, tpc, revived>>
  PROVE  IInv'
<1>1. PICK c \in Conns : c = f.conn
  BY DEF Taken, Functors
<1>2. /\ state_' = [state_ EXCEPT ![c] = "kDisconnected"] \/ (state_[c] # "kConnected" /\ state_' = state_)
      /\ index' = [index EXCEPT ![c] = "kNew"]
  BY <1>1 DEF ConnectDestroyed
<1>3. QueueOK(q, batch') /\ UNCHANGED <<server, quit_>>
  BY DEF Taken
<1>4. TypeOK'
  BY <1>2, <1>3 DEF IInv, TypeOK, ThreadsOK, Known
<1>5. ASSUME Sound, SoundInv PROVE SoundInv'
  <2>1. AllFit(q, state_, connections_) /\ Once(q) /\ state_[c] = "kDisconnected"
    BY <1>1, <1>5 DEF Taken, Parted, Fits
  <2>2. state_' = state_
    BY <1>2, <2>1 DEF IInv, TypeOK
  <2>3. index'[c] = "kNew" /\ \A d \in Conns : d # c => index'[d] = index[d]
    BY <1>2 DEF IInv, TypeOK
  <2>4. LifeInv'
    BY <1>5, <2>1, <2>2, <2>3 DEF SoundInv, LifeInv, Held, Open
  <2> QED
    BY <2>1, <2>2, <2>4 DEF SoundInv
<1> QED
  BY <1>3, <1>4, <1>5, Assemble DEF Sound

\* The functors that hold the connection.
LEMMA OwningKeeps ==
  ASSUME IInv, NEW l \in Loops, RunOwning(l)
  PROVE  IInv'
<1>1. PICK f, q : f = Head(queue[l]) /\ q = Pop(l) /\ Taken(l, f, q)
  BY TakeNext DEF RunOwning
<1>2. /\ \/ /\ f.fn = "connectEstablished"
            /\ ConnectEstablished(f.conn) /\ queue' = q /\ UNCHANGED <<connections_, missed>>
         \/ /\ f.fn = "remove" /\ server # "gone"
            /\ RemoveConnectionInLoop(f.conn, q) /\ UNCHANGED <<state_, index, refs>>
         \/ /\ f.fn = "connectDestroyed"
            /\ ConnectDestroyed(f.conn) /\ queue' = q /\ UNCHANGED <<connections_, missed, refs>>
      /\ UNCHANGED <<ioLoop, tpc, revived>>
  BY <1>1 DEF RunOwning, serverVars, connVars
<1>3. CASE f.fn = "connectEstablished"
  <2>1. ConnectEstablished(f.conn) /\ queue' = q /\ UNCHANGED <<connections_, missed>>
    BY <1>2, <1>3
  <2>2. PICK c \in Conns : c = f.conn
    BY <1>1 DEF Taken, Functors
  <2>3. QueueOK(q, batch') /\ q \in [Loops -> Seq(Functors)] /\ UNCHANGED <<server, quit_>>
    BY <1>1 DEF Taken, QueueOK
  <2>4. ASSUME Sound
        PROVE  Free(q, c) /\ AllFit(q, state_, connections_) /\ Once(q) /\ c \in connections_'
    <3>1. /\ AllFit(q, state_, connections_) /\ Once(q) /\ state_[c] = "kConnecting"
          /\ Absent(q, "connectEstablished", c)
      BY <1>1, <1>3, <2>2, <2>4 DEF Taken, Parted, Fits, Single
    <3>2. Free(q, c)
      BY <2>3, <3>1, Queued
    <3> QED
      BY <2>1, <2>4, <3>1, <3>2 DEF IInv, SoundInv, LifeInv
  <2>5. EstablishStep(c, q)
    BY <1>2, <2>1, <2>2, <2>3, <2>4 DEF EstablishStep, IInv, TypeOK
  <2> QED
    BY <2>5, EstablishKeeps
<1>4. CASE f.fn = "remove"
  BY <1>1, <1>2, <1>4, RemoveKeeps
<1>5. CASE f.fn = "connectDestroyed"
  BY <1>1, <1>2, <1>5, DestroyedKeeps
<1> QED
  BY <1>2, <1>3, <1>4, <1>5

\* A functor that is taken and changes nothing.
LEMMA TakenKeeps ==
  ASSUME IInv, NEW l \in Loops, NEW f, NEW q, Taken(l, f, q), queue' = q,
         UNCHANGED <<state_, index, ioLoop, connections_, missed, refs, tpc, revived>>
  PROVE  IInv'
<1>1. QueueOK(q, batch') /\ UNCHANGED <<server, quit_>> /\ (Sound => Parted(f, q, state_, connections_))
  BY DEF Taken
<1>2. ThreadsOK' /\ \A t \in Threads : Held(t)' \subseteq Held(t)
  BY DEF IInv, TypeOK, ThreadsOK, Held
<1>3. PlainStep(q)
  BY <1>1, <1>2 DEF PlainStep, Parted, Sound, IInv, TypeOK
<1> QED
  BY <1>3, PlainKeeps

\* The functors with a plain `this'.
LEMMA RawKeeps ==
  ASSUME IInv, NEW l \in Loops, RunRaw(l)
  PROVE  IInv'
<1>1. PICK f, q : f = Head(queue[l]) /\ q = Pop(l) /\ Taken(l, f, q)
  BY TakeNext DEF RunRaw
<1>2. PICK c \in Conns : c = f.conn
  BY <1>1 DEF Taken, Functors
<1>3. /\ \/ f.fn = "forceClose" /\ state_[c] \in Open /\ HandleClose(c, q, l)
         \/ queue' = q /\ UNCHANGED <<state_, index, connections_, missed>>
         \/ /\ f.fn = "send" /\ state_[c] # "kDisconnected" /\ index' = [index EXCEPT ![c] = "kAdded"]
            /\ queue' = q /\ UNCHANGED <<state_, connections_, missed>>
      /\ UNCHANGED <<ioLoop, refs, tpc, revived>>
  BY <1>1, <1>2 DEF RunRaw, serverVars, connVars, threadVars, Open
<1>4. CASE state_[c] \in Open /\ HandleClose(c, q, l)
  <2>1. CloseStep(c, q, l)
    BY <1>1, <1>3, <1>4 DEF CloseStep, Taken, Parted
  <2> QED
    BY <2>1, CloseKeeps
<1>5. CASE queue' = q /\ UNCHANGED <<state_, index, connections_, missed>>
  BY <1>1, <1>3, <1>5, TakenKeeps
<1>6. CASE /\ f.fn = "send" /\ state_[c] # "kDisconnected" /\ index' = [index EXCEPT ![c] = "kAdded"]
           /\ queue' = q /\ UNCHANGED <<state_, connections_, missed>>
  <2>1. QueueOK(q, batch') /\ UNCHANGED <<server, quit_>>
    BY <1>1 DEF Taken
  <2>2. TypeOK'
    BY <1>3, <1>6, <2>1 DEF IInv, TypeOK, ThreadsOK
  <2>3. ASSUME Sound, SoundInv PROVE SoundInv'
    <3>1. AllFit(q, state_, connections_) /\ Once(q) /\ state_[c] \in Open
      BY <1>1, <1>2, <1>6, <2>3 DEF Taken, Parted, Fits, CallNames, Known
    <3>2. \A d \in Conns : index'[d] = "kAdded" <=> index[d] = "kAdded"
      BY <1>6, <2>3, <3>1 DEF SoundInv, LifeInv, IInv, TypeOK
    <3>3. LifeInv'
      BY <1>3, <1>6, <2>3, <3>2 DEF SoundInv, LifeInv, Held
    <3> QED
      BY <1>6, <3>1, <3>3 DEF SoundInv
  <2> QED
    BY <1>3, <1>6, <2>1, <2>2, <2>3, Assemble DEF Sound
<1> QED
  BY <1>3, <1>4, <1>5, <1>6

\* The steps of a loop.
LEMMA LoopKeeps ==
  ASSUME IInv, NEW l \in Loops, LoopStep(l)
  PROVE  IInv'
<1>1. /\ queue \in [Loops -> Seq(Functors)] /\ QueueOK(queue, batch) /\ ThreadsOK
      /\ quit_ # {} => server \in {"destroying", "gone"}
      /\ Sound => AllFit(queue, state_, connections_) /\ Once(queue)
  BY DEF IInv, TypeOK, SoundInv, QueueOK
<1>2. CASE Swap(l)
  <2>1. /\ batch' = [batch EXCEPT ![l] = Len(queue[l])]
        /\ UNCHANGED <<state_, index, ioLoop, connections_, missed, queue, refs, tpc, revived,
                       server, quit_>>
    BY <1>2 DEF Swap, serverVars, connVars, threadVars
  <2>2. Len(queue[l]) \in Nat
    BY <1>1, LenProperties
  <2>3. QueueOK(queue, batch')
    BY <1>1, <2>1, <2>2, SMT DEF QueueOK
  <2>4. PICK q : q = queue
    OBVIOUS
  <2>5. PlainStep(q)
    BY <1>1, <2>1, <2>3, <2>4 DEF PlainStep, Sound, ThreadsOK, Held
  <2> QED
    BY <2>5, PlainKeeps
<1>3. CASE EndBatch(l)
  <2>1. /\ queue' = IF l \in quit_ THEN [queue EXCEPT ![l] = <<>>] ELSE queue
        /\ batch[l] = 0
        /\ UNCHANGED <<state_, index, ioLoop, connections_, missed, refs, tpc, revived,
                       server, batch, quit_>>
    BY <1>3 DEF EndBatch, Quits, serverVars, connVars, threadVars
  <2>2. QueueOK(queue', batch')
    <3>1. CASE l \in quit_
      <4>1. /\ <<>> \in Seq(Functors) /\ Len(<<>>) = 0 /\ DOMAIN <<>> = {}
            /\ queue'[l] = <<>> /\ \A k \in Loops : k # l => queue'[k] = queue[k]
            /\ queue' = [k \in Loops |-> queue'[k]]
        <5>1. <<>> \in Seq(Functors) /\ Len(<<>>) = 0 /\ DOMAIN <<>> = {}
          BY SMT
        <5>2. queue' = [queue EXCEPT ![l] = <<>>]
          BY <2>1, <3>1
        <5> QED
          BY <1>1, <5>1, <5>2
      <4>2. queue' \in [Loops -> Seq(Functors)]
        BY <1>1, <4>1
      <4>3. RemoveInBase(queue')
        BY <1>1, <4>1 DEF QueueOK, RemoveInBase
      <4>4. ASSUME NEW k \in Loops PROVE batch[k] <= Len(queue'[k])
        BY <1>1, <2>1, <4>1, SMT DEF QueueOK
      <4> QED
        BY <1>1, <2>1, <4>2, <4>3, <4>4 DEF QueueOK
    <3>2. CASE l \notin quit_
      BY <1>1, <2>1, <3>2
    <3> QED
      BY <3>1, <3>2
  <2>3. Sound => queue' = queue
    BY <1>1, <2>1 DEF Sound
  <2>4. PICK q : q = queue'
    OBVIOUS
  <2>5. PlainStep(q)
    BY <1>1, <2>1, <2>2, <2>3, <2>4 DEF PlainStep, Sound, ThreadsOK, Held
  <2> QED
    BY <2>5, PlainKeeps
<1>4. CASE RunStray(l)
  <2>1. PICK f, q : f = Head(queue[l]) /\ q = Pop(l) /\ Taken(l, f, q)
    BY <1>4, TakeNext DEF RunStray
  <2> QED
    BY <1>4, <2>1, TakenKeeps DEF RunStray, serverVars, connVars, threadVars
<1> QED
  BY <1>2, <1>3, <1>4, OwningKeeps, RawKeeps DEF LoopStep

-----------------------------------------------------------------------------
\* The calls of other threads.
LEMMA ThreadKeeps ==
  ASSUME IInv, NEW t \in Threads, ThreadStep(t)
  PROVE  IInv'
<1>1. /\ queue \in [Loops -> Seq(Functors)] /\ QueueOK(queue, batch) /\ ThreadsOK
      /\ ioLoop \in [Conns -> Loops] /\ UNCHANGED <<server, batch, quit_>>
      /\ quit_ # {} => server \in {"destroying", "gone"}
      /\ Sound => LifeInv /\ AllFit(queue, state_, connections_) /\ Once(queue)
  BY DEF IInv, TypeOK, SoundInv, QueueOK, ThreadStep, loopVars
<1>2. PICK p : p = queue
  OBVIOUS
<1>3. ASSUME NEW c \in Conns, DropRef(t, c) PROVE IInv'
  <2>1. /\ refs' = [refs EXCEPT ![t] = @ \ {c}]
        /\ UNCHANGED <<state_, index, ioLoop, connections_, missed, queue, tpc, revived>>
    BY <1>3 DEF DropRef, serverVars, connVars
  <2>2. ThreadsOK' /\ \A u \in Threads : Held(u)' \subseteq Held(u)
    BY <1>1, <2>1 DEF ThreadsOK, Held
  <2>3. PlainStep(p)
    BY <1>1, <1>2, <2>1, <2>2 DEF PlainStep, Sound
  <2> QED
    BY <2>3, PlainKeeps
<1>4. ASSUME NEW c \in Conns, NEW call \in Calls, Test(t, c, call) PROVE IInv'
  <2>1. /\ c \in refs[t]
        /\ tpc' = [tpc EXCEPT ![t] = [call |-> call, conn |-> c,
                                      at |-> IF call = "send" THEN "queue" ELSE "set"]]
        /\ UNCHANGED <<state_, index, ioLoop, connections_, missed, queue, refs, revived>>
    BY <1>4 DEF Test, serverVars, connVars
  <2>2. ThreadsOK' /\ \A u \in Threads : Held(u)' \subseteq Held(u)
    BY <1>1, <2>1 DEF ThreadsOK, Held
  <2>3. PlainStep(p)
    BY <1>1, <1>2, <2>1, <2>2 DEF PlainStep, Sound
  <2> QED
    BY <2>3, PlainKeeps
<1>5. CASE SetDisconnecting(t)
  <2>1. PICK c \in Conns : c = tpc[t].conn
    BY <1>1, <1>5 DEF ThreadsOK, SetDisconnecting
  <2>2. /\ tpc[t].at = "set" /\ state_' = [state_ EXCEPT ![c] = "kDisconnecting"]
        /\ revived' = revived \cup {d \in {c} : state_[d] = "kDisconnected"}
        /\ tpc' = [tpc EXCEPT ![t].at = "queue"]
        /\ UNCHANGED <<index, ioLoop, connections_, missed, queue, refs>>
    BY <1>5, <2>1 DEF SetDisconnecting, serverVars
  <2>3. ThreadsOK' /\ \A u \in Threads : Held(u)' \subseteq Held(u)
    BY <1>1, <2>1, <2>2 DEF ThreadsOK, Held
  <2>4. Sound' => Sound /\ state_[c] \in Open
    <3> SUFFICES ASSUME Sound' PROVE Sound /\ state_[c] \in Open
      OBVIOUS
    <3>1. Sound /\ state_[c] # "kDisconnected"
      BY <1>1, <2>2 DEF Sound
    <3>2. c \in Held(t)
      BY <2>1, <2>2 DEF Held
    <3> QED
      BY <1>1, <3>1, <3>2 DEF LifeInv, Known
  <2>5. DisconnectingStep(c)
    BY <1>1, <2>2, <2>3, <2>4 DEF DisconnectingStep
  <2> QED
    BY <2>5, DisconnectingKeeps
<1>6. CASE QueueFunctor(t)
  <2>1. PICK c \in Conns : c = tpc[t].conn /\ tpc[t].at # "idle" /\ tpc[t].call \in Calls
    BY <1>1, <1>6 DEF ThreadsOK, QueueFunctor
  <2>2. PICK f : f = Functor(tpc[t].call, c, TRUE)
    OBVIOUS
  <2>3. PICK l \in Loops : l = ioLoop[c]
    BY <1>1
  <2>4. PICK q : q = Push(p, l, f)
    OBVIOUS
  <2>5. /\ queue' = q /\ tpc' = [tpc EXCEPT ![t] = Idle]
        /\ UNCHANGED <<state_, index, ioLoop, connections_, missed, refs, revived>>
    BY <1>2, <1>6, <2>1, <2>2, <2>3, <2>4 DEF QueueFunctor, serverVars, connVars
  <2>6. f \in Functors /\ f.fn \in CallNames /\ f.conn = c /\ f.fn # "remove" /\ f.fn \notin Single
    BY <2>1, <2>2, ServerAssumption DEF Functor, Functors, CallNames, Single
  <2>7. ThreadsOK' /\ \A u \in Threads : Held(u)' \subseteq Held(u)
    BY <1>1, <2>5 DEF ThreadsOK, Held, Idle
  <2>8. QueueOK(q, batch')
    BY <1>1, <1>2, <2>4, <2>6, PushQueue
  <2>9. ASSUME Sound PROVE AllFit(q, state_, connections_) /\ Once(q)
    <3>1. state_[c] \in Known
      BY <1>1, <2>1, <2>9 DEF LifeInv, Held
    <3>2. Fits(f, state_, connections_)
      BY <2>6, <3>1 DEF Fits, CallNames
    <3> QED
      BY <1>1, <1>2, <2>4, <2>6, <2>9, <3>2, PushFits
  <2>10. PlainStep(q)
    BY <1>1, <2>5, <2>7, <2>8, <2>9 DEF PlainStep, Sound
  <2> QED
    BY <2>10, PlainKeeps
<1> QED
  BY <1>3, <1>4, <1>5, <1>6 DEF ThreadStep

\* start() and ~TcpServer(); once the server is being destroyed nothing more is
\* claimed than the types.
LEMMA ServerKeeps ==
  ASSUME IInv, Start \/ Destroy \/ DtorStep
  PROVE  IInv'
<1>1. /\ queue \in [Loops -> Seq(Functors)] /\ QueueOK(queue, batch) /\ ThreadsOK
      /\ ioLoop \in [Conns -> Loops]
      /\ quit_ # {} => server \in {"destroying", "gone"}
      /\ Sound => AllFit(queue, state_, connections_) /\ Once(queue)
  BY DEF IInv, TypeOK, SoundInv, QueueOK
<1>2. PICK p : p = queue
  OBVIOUS
<1>3. CASE Start \/ Destroy \/ DtorEnd \/ \E l \in IoLoops \ {base} : DtorQuit(l)
  <2>1. /\ UNCHANGED <<state_, index, ioLoop, connections_, missed, queue, refs, tpc, revived, batch>>
        /\ quit_' # {} => server' \in {"destroying", "gone"}
        /\ Sound' => Sound
    BY <1>1, <1>3 DEF Start, listen, Destroy, DtorEnd, DtorQuit, serverVars, connVars, threadVars, Sound
  <2>2. ThreadsOK' /\ \A t \in Threads : Held(t)' \subseteq Held(t)
    BY <1>1, <2>1 DEF ThreadsOK, Held
  <2>3. PlainStep(p)
    BY <1>1, <1>2, <2>1, <2>2 DEF PlainStep
  <2> QED
    BY <2>3, PlainKeeps
<1>4. ASSUME NEW c \in Conns, DtorConn(c) PROVE IInv'
  <2>1. /\ server = "destroying" /\ UNCHANGED <<missed, ioLoop, refs, tpc, revived, server, batch, quit_>>
        /\ \/ ConnectDestroyed(c) /\ UNCHANGED queue
           \/ queue' = Push(queue, ioLoop[c], DtorFunctor(c)) /\ UNCHANGED <<state_, index>>
    BY <1>4 DEF DtorConn, threadVars, loopVars, connVars
  <2>2. QueueOK(queue', batch')
    <3>1. PICK f : f = DtorFunctor(c)
      OBVIOUS
    <3>2. PICK l \in Loops : l = ioLoop[c]
      BY <1>1
    <3>3. f \in Functors /\ f.fn # "remove"
      BY <3>1 DEF DtorFunctor, Functor, Functors
    <3>4. queue' = queue \/ queue' = Push(p, l, f)
      BY <1>2, <2>1, <3>1, <3>2
    <3> QED
      BY <1>1, <1>2, <2>1, <3>3, <3>4, PushQueue
  <2>3. /\ state_' \in [Conns -> {"none", "kConnecting"} \cup Known]
        /\ index' \in [Conns -> {"kNew", "kAdded", "kDeleted"}]
    BY <2>1 DEF IInv, TypeOK, ConnectDestroyed, Known
  <2>4. TypeOK'
    BY <1>1, <2>1, <2>2, <2>3 DEF TypeOK, ThreadsOK
  <2> QED
    BY <2>1, <2>4, Assemble DEF Sound
<1> QED
  BY <1>3, <1>4 DEF DtorStep

\* Every step keeps the invariant.
LEMMA NextKeeps == IInv /\ [Next]_vars => IInv'
<1> SUFFICES ASSUME IInv, [Next]_vars PROVE IInv'
  OBVIOUS
<1>1. CASE UNCHANGED vars
  BY <1>1 DEF vars, serverVars, connVars, threadVars, loopVars, IInv, TypeOK, ThreadsOK, Sound,
              SoundInv, LifeInv, Held, ErasedOnce
<1> QED
  BY <1>1, EventKeeps, LoopKeeps, ThreadKeeps, ServerKeeps DEF Next

\* The inductive invariant: as long as the server is not being destroyed and no
\* thread overwrote a closed connection's state_, each queued functor finds its
\* connection in the state it was queued for, and each connection has one
\* functor that establishes it and one that removes it.
THEOREM Invariance == Spec => []IInv
  BY InitHolds, NextKeeps, PTL DEF Spec

\* removeConnectionInLoop() (TcpServer.cpp:117) erases one entry of connections_
\* unless shutdown() or forceClose() in another thread reopened a connection
\* that had closed since it tested state_.
THEOREM AssertionHolds == Spec => []ErasedOnce
<1>1. IInv => ErasedOnce
  BY DEF IInv
<1> QED
  BY <1>1, Invariance, PTL

-----------------------------------------------------------------------------
(* What is known of a connection no thread overwrote the state of.          *)
\* A functor fn for the connection c is queued in the loop l.
Waits(q, l, fn, c) == \E i \in DOMAIN q[l] : q[l][i].fn = fn /\ q[l][i].conn = c

\* The functors for c, whose loop is lc and whose state is st.  All but "remove" are
\* in its own loop, and connectEstablished() is before all others.
FunctorOK(f, lc, l, st) ==
  /\ st # "none"
  /\ f.fn # "remove" => l = lc
  /\ f.raw => f.fn \in CallNames
  /\ f.fn \in CallNames => st \in Known
  /\ f.fn = "connectEstablished" => st = "kConnecting"

QueueOf(q, c, lc, st) ==
  \A l \in Loops : \A i \in DOMAIN q[l] :
    q[l][i].conn = c =>
      /\ FunctorOK(q[l][i], lc, l, st)
      /\ q[l][i].fn = "connectEstablished" => \A j \in DOMAIN q[l] : j < i => q[l][j].conn # c

\* What a step does to the functors for c, at most.
Keeps(q, p, c, lc, st) ==
  /\ QueueOf(q, c, lc, st) => QueueOf(p, c, lc, st)
  /\ Waits(q, lc, "connectEstablished", c) => Waits(p, lc, "connectEstablished", c)
  /\ Waits(q, lc, "connectDestroyed", c) => Waits(p, lc, "connectDestroyed", c)

\* A functor for another connection may be queued, or one for c that is not the
\* first.
LEMMA PushTracked ==
  ASSUME NEW q \in [Loops -> Seq(Functors)], NEW l \in Loops, NEW f \in Functors,
         NEW p, p = Push(q, l, f), NEW c, NEW lc \in Loops, NEW st,
         f.conn = c => FunctorOK(f, lc, l, st) /\ f.fn # "connectEstablished"
  PROVE  Keeps(q, p, c, lc, st) /\ Waits(p, l, f.fn, f.conn)
<1>1. ASSUME NEW k \in Loops, NEW i \in DOMAIN p[k]
      PROVE  \/ i \in DOMAIN q[k] /\ p[k][i] = q[k][i]
             \/ k = l /\ i = Len(q[l]) + 1 /\ p[k][i] = f
  BY PushFrom, SMT
<1>2. q[l] \in Seq(Functors) /\ Len(q[l]) \in Nat /\ DOMAIN q[l] = 1 .. Len(q[l])
  BY LenProperties
<1>3. p[l] = Append(q[l], f) /\ \A k \in Loops : k # l => p[k] = q[k]
  BY DEF Push
<1>4. /\ p[l][Len(q[l]) + 1] = f /\ \A n \in 1 .. Len(q[l]) : p[l][n] = q[l][n]
      /\ DOMAIN p[l] = 1 .. Len(q[l]) + 1
  BY <1>2, <1>3, AppendProperties, LenProperties, SMT
<1>5. ASSUME NEW k \in Loops, NEW i \in DOMAIN q[k] PROVE i \in DOMAIN p[k] /\ p[k][i] = q[k][i]
  <2>1. CASE k = l
    <3>1. i \in 1 .. Len(q[l]) /\ i \in 1 .. Len(q[l]) + 1
      BY <1>2, <2>1, SMT
    <3> QED
      BY <1>4, <2>1, <3>1
  <2>2. CASE k # l
    BY <1>3, <2>2
  <2> QED
    BY <2>1, <2>2
<1>6. ASSUME NEW fn, Waits(q, lc, fn, c) PROVE Waits(p, lc, fn, c)
  BY <1>5, <1>6 DEF Waits
<1>7. Waits(p, l, f.fn, f.conn)
  <2>1. Len(q[l]) + 1 \in DOMAIN p[l]
    BY <1>2, <1>4, SMT
  <2> QED
    BY <1>4, <2>1 DEF Waits
<1>8. ASSUME QueueOf(q, c, lc, st) PROVE QueueOf(p, c, lc, st)
  <2> SUFFICES ASSUME NEW k \in Loops, NEW i \in DOMAIN p[k], p[k][i].conn = c
               PROVE  /\ FunctorOK(p[k][i], lc, k, st)
                      /\ p[k][i].fn = "connectEstablished" =>
                           \A j \in DOMAIN p[k] : j < i => p[k][j].conn # c
    BY DEF QueueOf
  <2>1. CASE k = l /\ p[k][i] = f
    BY <2>1
  <2>2. CASE i \in DOMAIN q[k] /\ p[k][i] = q[k][i]
    <3>1. FunctorOK(p[k][i], lc, k, st)
      BY <1>8, <2>2 DEF QueueOf
    <3>2. ASSUME p[k][i].fn = "connectEstablished", NEW j \in DOMAIN p[k], j < i
          PROVE  p[k][j].conn # c
      <4>1. j \in DOMAIN q[k] /\ p[k][j] = q[k][j]
        <5>1. CASE k = l /\ j = Len(q[l]) + 1
          <6>1. i \in 1 .. Len(q[l])
            BY <1>2, <2>2, <5>1
          <6> QED
            BY <1>2, <3>2, <5>1, <6>1, SMT
        <5> QED
          BY <1>1, <5>1
      <4> QED
        BY <1>8, <2>2, <3>2, <4>1 DEF QueueOf
    <3> QED
      BY <3>1, <3>2
  <2> QED
    BY <1>1, <2>1, <2>2
<1> QED
  BY <1>6, <1>7, <1>8 DEF Keeps

\* What the functors for c lose when the first one of the loop l, f, is taken.
Less(q, p, l, f, c, lc, st) ==
  /\ QueueOf(q, c, lc, st) => QueueOf(p, c, lc, st)
  /\ \A fn : Waits(q, lc, fn, c) => Waits(p, lc, fn, c) \/ (l = lc /\ f.fn = fn /\ f.conn = c)
  /\ f.conn # c => Keeps(q, p, c, lc, st)
  /\ QueueOf(q, c, lc, st) /\ f.conn = c => FunctorOK(f, lc, l, st)
  /\ QueueOf(q, c, lc, st) /\ f.conn = c /\ l = lc => Absent(p, "connectEstablished", c)

\* A functor is taken.
LEMMA PopTracked ==
  ASSUME NEW q \in [Loops -> Seq(Functors)], NEW l \in Loops, q[l] # <<>>,
         NEW p, p = [q EXCEPT ![l] = Tail(@)], NEW f, f = Head(q[l]),
         NEW c, NEW lc \in Loops, NEW st
  PROVE  Less(q, p, l, f, c, lc, st)
<1>1. /\ 1 \in DOMAIN q[l] /\ f = q[l][1]
      /\ \A k \in Loops : k # l => p[k] = q[k]
      /\ \A i \in DOMAIN p[l] :
           i \in Nat /\ i # 0 /\ i + 1 \in DOMAIN q[l] /\ p[l][i] = q[l][i + 1]
      /\ Len(p[l]) = Len(q[l]) - 1 /\ p \in [Loops -> Seq(Functors)]
  BY PopIs, SMT
<1>2. /\ q[l] \in Seq(Functors) /\ Len(q[l]) \in Nat /\ DOMAIN q[l] = 1 .. Len(q[l])
      /\ p[l] \in Seq(Functors) /\ DOMAIN p[l] = 1 .. Len(p[l])
  BY <1>1, LenProperties
<1>3. ASSUME NEW i \in DOMAIN q[l], i # 1
      PROVE  i - 1 \in DOMAIN p[l] /\ p[l][i - 1] = q[l][i]
  <2>1. i - 1 \in 1 .. Len(p[l]) /\ (i - 1) + 1 = i
    BY <1>1, <1>2, <1>3, SMT
  <2> QED
    BY <1>1, <1>2, <2>1, SMT
<1>4. ASSUME NEW fn, Waits(q, lc, fn, c), ~(l = lc /\ f.fn = fn /\ f.conn = c)
      PROVE  Waits(p, lc, fn, c)
  <2>1. PICK i \in DOMAIN q[lc] : q[lc][i].fn = fn /\ q[lc][i].conn = c
    BY <1>4 DEF Waits
  <2>2. CASE lc # l
    BY <1>1, <2>1, <2>2 DEF Waits
  <2>3. CASE lc = l
    <3>1. i # 1
      BY <1>1, <1>4, <2>1, <2>3
    <3> QED
      BY <1>3, <2>1, <2>3, <3>1 DEF Waits
  <2> QED
    BY <2>2, <2>3
<1>5. ASSUME QueueOf(q, c, lc, st) PROVE QueueOf(p, c, lc, st)
  <2> SUFFICES ASSUME NEW k \in Loops, NEW i \in DOMAIN p[k], p[k][i].conn = c
               PROVE  /\ FunctorOK(p[k][i], lc, k, st)
                      /\ p[k][i].fn = "connectEstablished" =>
                           \A j \in DOMAIN p[k] : j < i => p[k][j].conn # c
    BY DEF QueueOf
  <2>1. CASE k # l
    BY <1>1, <1>5, <2>1, SMT DEF QueueOf
  <2>2. CASE k = l
    <3>1. i \in Nat /\ i + 1 \in DOMAIN q[l] /\ p[l][i] = q[l][i + 1]
      BY <1>1, <2>2
    <3>2. ASSUME p[k][i].fn = "connectEstablished", NEW j \in DOMAIN p[k], j < i
          PROVE  p[k][j].conn # c
      <4>1. j \in Nat /\ j + 1 \in DOMAIN q[l] /\ p[l][j] = q[l][j + 1]
        BY <1>1, <2>2
      <4>2. j + 1 < i + 1
        BY <3>1, <3>2, <4>1, SMT
      <4> QED
        BY <1>5, <2>2, <3>1, <3>2, <4>1, <4>2 DEF QueueOf
    <3>3. FunctorOK(p[k][i], lc, k, st)
      BY <1>5, <2>2, <3>1 DEF QueueOf
    <3> QED
      BY <3>2, <3>3
  <2> QED
    BY <2>1, <2>2
<1>6. QueueOf(q, c, lc, st) /\ f.conn = c => FunctorOK(f, lc, l, st)
  BY <1>1, SMT DEF QueueOf
<1>7. ASSUME QueueOf(q, c, lc, st), f.conn = c, l = lc PROVE Absent(p, "connectEstablished", c)
  <2> SUFFICES ASSUME NEW k \in Loops, NEW i \in DOMAIN p[k],
                      p[k][i].fn = "connectEstablished", p[k][i].conn = c
               PROVE  FALSE
    BY DEF Absent
  <2>1. k = l
    BY <1>5, <1>7 DEF QueueOf, FunctorOK
  <2>2. i \in Nat /\ i # 0 /\ i + 1 \in DOMAIN q[l] /\ p[l][i] = q[l][i + 1]
    BY <1>1, <2>1
  <2>3. 1 < i + 1
    BY <2>2, SMT
  <2> QED
    BY <1>1, <1>7, <2>1, <2>2, <2>3, SMT DEF QueueOf
<1> QED
  BY <1>4, <1>5, <1>6, <1>7 DEF Keeps, Less

\* Channel::index() and the calls of connectionCallback_ so far, by the state.
Values(st, ix, up, dn) ==
  /\ ix = "kAdded" <=> st \in Open
  /\ up = IF st \in Known THEN 1 ELSE 0
  /\ dn = IF st = "kDisconnected" THEN 1 ELSE 0
  /\ st \in {"none", "kConnecting"} => ix = "kNew"

\* What is known of a connection c in the state st: its functors, who holds it,
\* and that in a loop that runs one that is connecting will be established and one
\* known to the poller is in the map or will be destroyed.
Track(c, st, ix, up, dn, q, lc, con, held, ph) ==
  /\ Values(st, ix, up, dn) /\ QueueOf(q, c, lc, st)
  /\ st = "none" => c \notin con
  /\ c \in held => st \in Known
  /\ st = "kConnecting" => lc # base
  /\ ph[lc] # "done" /\ st = "kConnecting" => Waits(q, lc, "connectEstablished", c)
  /\ ph[lc] # "done" /\ (ix # "kNew" \/ st = "kConnecting")
       => c \in con \/ Waits(q, lc, "connectDestroyed", c)

\* The connections threads hold.
HeldBy == UNION {Held(t) : t \in Threads}

Tracked(c) ==
  Track(c, state_[c], index[c], ups[c], downs[c], queue, ioLoop[c], connections_, HeldBy, phase)

TrackInv ==
  /\ ups \in [Conns -> Nat] /\ downs \in [Conns -> Nat]
  /\ phase \in [Loops -> {"poll", "run", "done"}]
  /\ \A c \in Settled : Tracked(c)

\* A connection established or closed has other states to be in.
LEMMA Restated ==
  ASSUME NEW q, NEW c, NEW lc, NEW st, NEW s, QueueOf(q, c, lc, st), s \in Known,
         st \in Known \/ Absent(q, "connectEstablished", c)
  PROVE  QueueOf(q, c, lc, s)
<1> SUFFICES ASSUME NEW l \in Loops, NEW i \in DOMAIN q[l], q[l][i].conn = c
             PROVE  /\ FunctorOK(q[l][i], lc, l, s)
                    /\ q[l][i].fn = "connectEstablished" =>
                         \A j \in DOMAIN q[l] : j < i => q[l][j].conn # c
  BY DEF QueueOf
<1>1. FunctorOK(q[l][i], lc, l, st)
  BY DEF QueueOf
<1>2. q[l][i].fn # "connectEstablished"
  BY <1>1 DEF FunctorOK, Absent, Known, Open
<1> QED
  BY <1>1, <1>2 DEF FunctorOK, Known, Open

\* A step that leaves the connection as it is, and what it may do to the rest.
Framed(c, st, lc, q, con, held, ph, p, con2, held2, ph2) ==
  /\ Keeps(q, p, c, lc, st)
  /\ c \in con2 => c \in con
  /\ c \in con => c \in con2 \/ Waits(p, lc, "connectDestroyed", c)
  /\ c \in held2 => c \in held \/ st \in Known
  /\ ph2[lc] = ph[lc] \/ ph[lc] # "done"

\* Such a step keeps what is known of the connection.
LEMMA TrackFrame ==
  ASSUME NEW c, NEW st, NEW ix, NEW up, NEW dn, NEW q, NEW lc, NEW con, NEW held, NEW ph,
         NEW p, NEW con2, NEW held2, NEW ph2,
         Track(c, st, ix, up, dn, q, lc, con, held, ph),
         Framed(c, st, lc, q, con, held, ph, p, con2, held2, ph2)
  PROVE  Track(c, st, ix, up, dn, p, lc, con2, held2, ph2)
BY DEF Track, Keeps, Framed

\* The end of a loop.
LEMMA TrackEnd ==
  ASSUME NEW c, NEW st, NEW ix, NEW up, NEW dn, NEW q, NEW lc, NEW con, NEW held, NEW ph,
         NEW p, NEW ph2,
         Track(c, st, ix, up, dn, q, lc, con, held, ph), QueueOf(p, c, lc, st),
         ph2[lc] = "done"
  PROVE  Track(c, st, ix, up, dn, p, lc, con, held, ph2)
BY DEF Track

\* An established connection changes its state.
LEMMA TrackMove ==
  ASSUME NEW c, NEW st, NEW ix, NEW up, NEW dn, NEW q, NEW lc, NEW con, NEW held, NEW ph,
         NEW s, NEW ix2, NEW dn2,
         Track(c, st, ix, up, dn, q, lc, con, held, ph), st \in Known, s \in Known,
         Values(s, ix2, up, dn2), ix = "kNew" => ix2 = "kNew"
  PROVE  Track(c, s, ix2, up, dn2, q, lc, con, held, ph)
<1>1. QueueOf(q, c, lc, s)
  BY Restated DEF Track
<1> QED
  BY <1>1 DEF Track, Known, Open

\* connectDestroyed()
LEMMA TrackDestroyed ==
  ASSUME NEW c, NEW st, NEW ix, NEW up, NEW dn, NEW q, NEW lc, NEW con, NEW held, NEW ph,
         NEW p, NEW con2, NEW s, NEW dn2,
         Track(c, st, ix, up, dn, q, lc, con, held, ph), QueueOf(p, c, lc, st),
         st \in {"kConnecting", "kConnected", "kDisconnected"},
         st = "kConnecting" => ph[lc] = "done", c \in con2 => c \in con,
         \/ st = "kConnected" /\ s = "kDisconnected" /\ dn2 = dn + 1
         \/ st # "kConnected" /\ s = st /\ dn2 = dn
  PROVE  Track(c, s, "kNew", up, dn2, p, lc, con2, held, ph)
<1>1. QueueOf(p, c, lc, s)
  <2>1. CASE st = "kConnected"
    BY <2>1, Restated DEF Known, Open
  <2> QED
    BY <2>1
<1>2. Values(s, "kNew", up, dn2)
  BY SMT DEF Track, Values, Known, Open
<1> QED
  BY <1>1, <1>2 DEF Track, Known, Open

\* connectEstablished()
LEMMA TrackEstablished ==
  ASSUME NEW c, NEW st, NEW ix, NEW up, NEW dn, NEW q, NEW lc, NEW con, NEW held, NEW ph,
         NEW p, NEW l, NEW con2, NEW held2,
         Track(c, st, ix, up, dn, q, lc, con, held, ph), st \in {"none", "kConnecting"},
         QueueOf(p, c, l, st), Absent(p, "connectEstablished", c),
         ph[l] # "done" => c \in con2 \/ Waits(p, l, "connectDestroyed", c)
  PROVE  Track(c, "kConnected", "kAdded", up + 1, dn, p, l, con2, held2, ph)
<1>1. "kConnected" \in Known
  BY DEF Known, Open
<1>2. QueueOf(p, c, l, "kConnected")
  BY <1>1, Restated
<1>3. Values("kConnected", "kAdded", up + 1, dn)
  BY SMT DEF Track, Values, Known, Open
<1> QED
  BY <1>1, <1>2, <1>3 DEF Track

\* A connection that was not made has no functors.
LEMMA NoneQueued ==
  ASSUME NEW q, NEW c, NEW lc, QueueOf(q, c, lc, "none")
  PROVE  /\ \A l \in Loops : \A i \in DOMAIN q[l] : q[l][i].conn # c
         /\ Absent(q, "connectEstablished", c) /\ \A l : QueueOf(q, c, l, "none")
<1>1. \A l \in Loops : \A i \in DOMAIN q[l] : q[l][i].conn # c
  BY DEF QueueOf, FunctorOK
<1> QED
  BY <1>1 DEF QueueOf, Absent

\* newConnection() in another loop than the base loop.
LEMMA TrackConnecting ==
  ASSUME NEW c, NEW ix, NEW up, NEW dn, NEW q \in [Loops -> Seq(Functors)], NEW lc, NEW con,
         NEW held, NEW ph, NEW l \in Loops, NEW p, NEW con2, NEW f \in Functors,
         Track(c, "none", ix, up, dn, q, lc, con, held, ph), l # base, c \in con2,
         f.fn = "connectEstablished", f.conn = c, ~f.raw, p = Push(q, l, f)
  PROVE  Track(c, "kConnecting", ix, up, dn, p, l, con2, held, ph)
<1>1. \A k \in Loops : \A i \in DOMAIN q[k] : q[k][i].conn # c
  BY NoneQueued DEF Track
<1>2. ASSUME NEW k \in Loops, NEW i \in DOMAIN p[k]
      PROVE  \/ i \in DOMAIN q[k] /\ p[k][i] = q[k][i]
             \/ k = l /\ i = Len(q[l]) + 1 /\ p[k][i] = f
  BY PushFrom, SMT
<1>3. Len(q[l]) \in Nat
  BY LenProperties
<1>4. QueueOf(p, c, l, "kConnecting")
  <2> SUFFICES ASSUME NEW k \in Loops, NEW i \in DOMAIN p[k], p[k][i].conn = c
               PROVE  /\ FunctorOK(p[k][i], l, k, "kConnecting")
                      /\ \A j \in DOMAIN p[k] : j < i => p[k][j].conn # c
    BY DEF QueueOf
  <2>1. k = l /\ i = Len(q[l]) + 1 /\ p[k][i] = f
    BY <1>1, <1>2
  <2>2. FunctorOK(f, l, l, "kConnecting")
    BY DEF FunctorOK, CallNames
  <2>3. ASSUME NEW j \in DOMAIN p[k], j < i PROVE p[k][j].conn # c
    <3>1. j # i
      BY <1>3, <2>1, <2>3, SMT
    <3> QED
      BY <1>1, <1>2, <2>1, <3>1, SMT
  <2> QED
    BY <2>1, <2>2, <2>3
<1>5. Waits(p, l, "connectEstablished", c)
  <2>1. p[l] = Append(q[l], f) /\ q[l] \in Seq(Functors)
    BY DEF Push
  <2>2. Len(q[l]) + 1 \in DOMAIN p[l] /\ p[l][Len(q[l]) + 1] = f
    BY <1>3, <2>1, AppendProperties, LenProperties, SMT
  <2> QED
    BY <2>2 DEF Waits
<1>6. Values("kConnecting", ix, up, dn) /\ c \notin held
  BY DEF Track, Values, Known, Open
<1> QED
  BY <1>4, <1>5, <1>6 DEF Track, Known, Open

\* Two steps on the queues in a row.
LEMMA KeepsTwice ==
  ASSUME NEW q, NEW r, NEW p, NEW c, NEW lc, NEW st,
         Keeps(q, r, c, lc, st), Keeps(r, p, c, lc, st)
  PROVE  Keeps(q, p, c, lc, st)
BY DEF Keeps

\* What the invariant says of the state.
LEMMA TrackTypes ==
  ASSUME IInv
  PROVE  /\ queue \in [Loops -> Seq(Functors)] /\ ioLoop \in [Conns -> Loops]
         /\ state_ \in [Conns -> {"none", "kConnecting"} \cup Known]
         /\ index \in [Conns -> {"kNew", "kAdded", "kDeleted"}]
         /\ refs \in [Threads -> SUBSET Conns]
BY DEF IInv, TypeOK, QueueOK, ThreadsOK

\* The step does nothing to c itself.
Same(c) ==
  /\ state_'[c] = state_[c] /\ index'[c] = index[c] /\ ups'[c] = ups[c] /\ downs'[c] = downs[c]
  /\ ioLoop'[c] = ioLoop[c]

\* What threads hold depends on their pointers and calls only.
LEMMA HeldSame ==
  ASSUME UNCHANGED <<refs, tpc>> PROVE HeldBy' = HeldBy
BY SMT DEF HeldBy, Held

\* A step that does nothing to c keeps what is known of it.
LEMMA Bystander ==
  ASSUME NEW c \in Conns, Tracked(c), Same(c),
         Keeps(queue, queue', c, ioLoop[c], state_[c]),
         c \in connections_' => c \in connections_,
         c \in connections_ => c \in connections_' \/ Waits(queue', ioLoop[c], "connectDestroyed", c),
         c \in HeldBy' => c \in HeldBy \/ state_[c] \in Known,
         phase'[ioLoop[c]] = phase[ioLoop[c]] \/ phase[ioLoop[c]] # "done"
  PROVE  Tracked(c)'
<1>1. PICK q, st, ix, up, dn, lc, con, held, ph :
        /\ q = queue /\ st = state_[c] /\ ix = index[c] /\ up = ups[c] /\ dn = downs[c]
        /\ lc = ioLoop[c] /\ con = connections_ /\ held = HeldBy /\ ph = phase
  OBVIOUS
<1>2. PICK p, con2, held2, ph2 : p = queue' /\ con2 = connections_' /\ held2 = HeldBy' /\ ph2 = phase'
  OBVIOUS
<1>3. Track(c, st, ix, up, dn, q, lc, con, held, ph)
  BY <1>1 DEF Tracked
<1>4. Framed(c, st, lc, q, con, held, ph, p, con2, held2, ph2)
  BY <1>1, <1>2 DEF Framed
<1>5. Track(c, st, ix, up, dn, p, lc, con2, held2, ph2)
  BY <1>3, <1>4, TrackFrame
<1> QED
  BY <1>1, <1>2, <1>5 DEF Tracked, Same

\* q is what a step leaves of the queues before it adds to them.
Remaining(q) ==
  /\ q \in [Loops -> Seq(Functors)]
  /\ \A c \in Settled : Keeps(queue, q, c, ioLoop[c], state_[c])

\* A step may leave the queues alone.
LEMMA RemainingAll ==
  ASSUME IInv
  PROVE  Remaining(queue)
BY TrackTypes DEF Remaining, Keeps

\* handleClose() of d.
LEMMA CloseTracked ==
  ASSUME IInv, TrackInv, NEW d \in Conns, NEW l \in Loops, NEW q, Remaining(q),
         HandleClose(d, q, l), d \in Settled => state_[d] \in Open,
         UNCHANGED <<ioLoop, phase, refs, tpc, revived>>
  PROVE  TrackInv'
<1>1. /\ state_' = [state_ EXCEPT ![d] = "kDisconnected"]
      /\ index' = [index EXCEPT ![d] = IndexWhenDisabled(d)]
      /\ downs' = [downs EXCEPT ![d] = @ + 1] /\ ups' = ups /\ undone' = undone
  BY DEF HandleClose, Disabled
<1>2. /\ ioLoop \in [Conns -> Loops] /\ HeldBy' = HeldBy /\ Settled' = Settled
      /\ state_ \in [Conns -> {"none", "kConnecting"} \cup Known]
      /\ index \in [Conns -> {"kNew", "kAdded", "kDeleted"}]
      /\ q \in [Loops -> Seq(Functors)]
  BY <1>1, TrackTypes, HeldSame DEF Settled, Remaining
<1>3. /\ ups \in [Conns -> Nat] /\ downs \in [Conns -> Nat]
      /\ phase \in [Loops -> {"poll", "run", "done"}] /\ \A c \in Settled : Tracked(c)
  BY DEF TrackInv
<1>4. PICK g \in Functors, h \in Functors :
        g = Functor("connectDestroyed", d, FALSE) /\ h = Functor("remove", d, FALSE)
  BY DEF Functors, Functor
<1>5. base \in Loops /\ ioLoop[d] \in Loops
  BY <1>2 DEF Loops
<1>6. \/ queue' = Push(q, ioLoop[d], g) /\ connections_' = connections_ \ {d}
      \/ queue' = q /\ connections_' = connections_
      \/ queue' = Push(q, base, h) /\ connections_' = connections_
  BY <1>4 DEF HandleClose, RemoveConnectionInLoop, serverVars
<1>7. g.fn = "connectDestroyed" /\ g.conn = d /\ ~g.raw /\ h.fn = "remove" /\ h.conn = d /\ ~h.raw
  BY <1>4 DEF Functor
<1>8. ASSUME NEW c \in Settled, c # d PROVE Tracked(c)'
  <2>1. Tracked(c) /\ Keeps(queue, q, c, ioLoop[c], state_[c]) /\ c \in Conns
    BY <1>3 DEF Remaining, Settled
  <2>2. PICK p, lc : p = queue' /\ lc = ioLoop[c] /\ lc \in Loops
    BY <1>2, <2>1
  <2>3. Keeps(q, p, c, lc, state_[c])
    <3>1. CASE queue' = Push(q, ioLoop[d], g)
      BY <1>2, <1>5, <1>7, <1>8, <2>2, <3>1, PushTracked
    <3>2. CASE queue' = Push(q, base, h)
      BY <1>2, <1>5, <1>7, <1>8, <2>2, <3>2, PushTracked
    <3>3. CASE queue' = q
      BY <2>2, <3>3 DEF Keeps
    <3> QED
      BY <1>6, <3>1, <3>2, <3>3
  <2>4. Keeps(queue, queue', c, ioLoop[c], state_[c])
    BY <2>1, <2>2, <2>3, KeepsTwice
  <2>5. Same(c)
    BY <1>1, <1>2, <1>3, <1>8, <2>1 DEF Same
  <2>6. c \in connections_' <=> c \in connections_
    BY <1>6, <1>8
  <2> QED
    BY <1>2, <2>1, <2>4, <2>5, <2>6, Bystander
<1>9. ASSUME d \in Settled PROVE Tracked(d)'
  <2>1. PICK r, st, ix, up, dn, lc, con, held, ph :
        /\ r = queue /\ st = state_[d] /\ ix = index[d] /\ up = ups[d] /\ dn = downs[d]
        /\ lc = ioLoop[d] /\ lc \in Loops /\ con = connections_ /\ held = HeldBy /\ ph = phase
    BY <1>5
  <2>2. Track(d, st, ix, up, dn, r, lc, con, held, ph) /\ Keeps(r, q, d, lc, st) /\ st \in Open
    BY <1>3, <1>9, <2>1 DEF Tracked, Remaining
  <2>3. Track(d, st, ix, up, dn, q, lc, con, held, ph)
    <3>1. Framed(d, st, lc, r, con, held, ph, q, con, held, ph)
      BY <2>2 DEF Framed
    <3> QED
      BY <2>2, <3>1, TrackFrame
  <2>4. ix = "kAdded" /\ up = 1 /\ dn = 0
    BY <2>2 DEF Track, Values, Open, Known
  <2>5. Values("kDisconnected", "kDeleted", up, dn + 1)
    BY <2>4, SMT DEF Values, Open, Known
  <2>6. st \in Known /\ "kDisconnected" \in Known
    BY <2>2 DEF Known
  <2>7. Track(d, "kDisconnected", "kDeleted", up, dn + 1, q, lc, con, held, ph)
    BY <2>3, <2>4, <2>5, <2>6, TrackMove, SMT
  <2>8. PICK p, con2 : p = queue' /\ con2 = connections_'
    OBVIOUS
  <2>9. /\ Keeps(q, p, d, lc, "kDisconnected")
        /\ con2 = con \/ (con2 = con \ {d} /\ Waits(p, lc, "connectDestroyed", d))
    <3>1. CASE queue' = Push(q, ioLoop[d], g) /\ connections_' = connections_ \ {d}
      <4>1. FunctorOK(g, lc, lc, "kDisconnected")
        BY <1>7 DEF FunctorOK, CallNames
      <4>2. Keeps(q, p, d, lc, "kDisconnected") /\ Waits(p, lc, g.fn, g.conn)
        BY <1>2, <1>7, <2>1, <2>8, <3>1, <4>1, PushTracked
      <4> QED
        BY <1>7, <2>1, <2>8, <3>1, <4>2
    <3>2. CASE queue' = Push(q, base, h) /\ connections_' = connections_
      <4>1. FunctorOK(h, lc, base, "kDisconnected")
        BY <1>7 DEF FunctorOK, CallNames
      <4>2. Keeps(q, p, d, lc, "kDisconnected")
        BY <1>2, <1>5, <1>7, <2>1, <2>8, <3>2, <4>1, PushTracked
      <4> QED
        BY <2>1, <2>8, <3>2, <4>2
    <3>3. CASE queue' = q /\ connections_' = connections_
      BY <2>1, <2>8, <3>3 DEF Keeps
    <3> QED
      BY <1>6, <3>1, <3>2, <3>3
  <2>10. Track(d, "kDisconnected", "kDeleted", up, dn + 1, p, lc, con2, held, ph)
    <3>1. Framed(d, "kDisconnected", lc, q, con, held, ph, p, con2, held, ph)
      BY <2>9 DEF Framed
    <3> QED
      BY <2>7, <3>1, TrackFrame
  <2>11. /\ state_'[d] = "kDisconnected" /\ index'[d] = "kDeleted" /\ ups'[d] = up
         /\ downs'[d] = dn + 1 /\ ioLoop'[d] = lc /\ phase' = ph /\ HeldBy' = held
    BY <1>1, <1>2, <1>3, <2>1, <2>4 DEF IndexWhenDisabled
  <2> QED
    BY <2>8, <2>10, <2>11 DEF Tracked
<1>10. ups' \in [Conns -> Nat] /\ downs' \in [Conns -> Nat]
  BY <1>1, <1>3, SMT
<1> QED
  BY <1>2, <1>3, <1>8, <1>9, <1>10 DEF TrackInv

\* What the loop l takes, f, and what it leaves in the queues, q.
Took(l, f, q) ==
  /\ f = Head(queue[l]) /\ q = Pop(l)
  /\ f \in Functors /\ q \in [Loops -> Seq(Functors)]
  /\ \A c \in Conns : Less(queue, q, l, f, c, ioLoop[c], state_[c])

\* What the functors of each connection lose when a loop runs one of them.
LEMMA TookNext ==
  ASSUME IInv, NEW l \in Loops, Runs(l)
  PROVE  \E f, q : Took(l, f, q)
<1>1. PICK p, b : p = queue /\ b = batch
  OBVIOUS
<1>2. batch[l] > 0 /\ batch' = [batch EXCEPT ![l] = @ - 1]
  BY DEF Runs
<1>3. PICK q : q = [p EXCEPT ![l] = Tail(@)]
  OBVIOUS
<1>4. QueueOK(p, b) /\ p \in [Loops -> Seq(Functors)] /\ ioLoop \in [Conns -> Loops]
  BY <1>1 DEF IInv, TypeOK, QueueOK
<1>5. p[l] # <<>>
  BY <1>1, <1>2, <1>3, <1>4, PopQueue
<1>6. PICK f : f = Head(p[l])
  OBVIOUS
<1>7. f \in Functors /\ q \in [Loops -> Seq(Functors)]
  BY <1>3, <1>4, <1>5, <1>6, PopIs
<1>8. ASSUME NEW c \in Conns PROVE Less(p, q, l, f, c, ioLoop[c], state_[c])
  <2>1. PICK lc, st : lc = ioLoop[c] /\ st = state_[c] /\ lc \in Loops
    BY <1>4
  <2>2. Less(p, q, l, f, c, lc, st)
    BY <1>3, <1>4, <1>5, <1>6, <2>1, PopTracked
  <2> QED
    BY <2>1, <2>2
<1>9. q = Pop(l)
  BY <1>1, <1>3 DEF Pop
<1> QED
  BY <1>1, <1>6, <1>7, <1>8, <1>9 DEF Took

\* A functor with a plain `this', and "remove", is none that c waits for.
LEMMA TookCall ==
  ASSUME TrackInv, NEW l \in Loops, NEW f, NEW q, Took(l, f, q), f.raw \/ f.fn = "remove"
  PROVE  Remaining(q)
<1> SUFFICES ASSUME NEW c \in Settled PROVE Keeps(queue, q, c, ioLoop[c], state_[c])
  BY DEF Remaining, Took
<1>1. c \in Conns /\ Less(queue, q, l, f, c, ioLoop[c], state_[c])
  BY DEF Settled, Took
<1>2. QueueOf(queue, c, ioLoop[c], state_[c])
  BY DEF TrackInv, Tracked, Track
<1>3. CASE f.conn # c
  BY <1>1, <1>3 DEF Less
<1>4. CASE f.conn = c
  <2>1. FunctorOK(f, ioLoop[c], l, state_[c])
    BY <1>1, <1>2, <1>4 DEF Less
  <2>2. f.fn # "connectEstablished" /\ f.fn # "connectDestroyed"
    BY <2>1 DEF FunctorOK, CallNames
  <2> QED
    BY <1>1, <2>2 DEF Less, Keeps
<1> QED
  BY <1>3, <1>4

\* A step that does nothing to any connection.
LEMMA Bystanders ==
  ASSUME IInv, TrackInv, \A c \in Settled : Same(c), Remaining(queue'),
         connections_' = connections_, Settled' \subseteq Settled, HeldBy' \subseteq HeldBy,
         ups' = ups, downs' = downs, phase' \in [Loops -> {"poll", "run", "done"}],
         \A l \in Loops : phase'[l] = phase[l] \/ phase[l] # "done"
  PROVE  TrackInv'
<1>1. ups' \in [Conns -> Nat] /\ downs' \in [Conns -> Nat] /\ \A c \in Settled : Tracked(c)
  BY DEF TrackInv
<1>2. ioLoop \in [Conns -> Loops]
  BY TrackTypes
<1>3. ASSUME NEW c \in Settled PROVE Tracked(c)'
  <2>1. c \in Conns /\ Tracked(c) /\ Same(c) /\ Keeps(queue, queue', c, ioLoop[c], state_[c])
    BY <1>1 DEF Settled, Remaining
  <2>2. phase'[ioLoop[c]] = phase[ioLoop[c]] \/ phase[ioLoop[c]] # "done"
    BY <1>2, <2>1
  <2>3. c \in HeldBy' => c \in HeldBy
    OBVIOUS
  <2> QED
    BY <2>1, <2>2, <2>3, Bystander
<1> QED
  BY <1>1, <1>3 DEF TrackInv

\* removeConnectionInLoop() as a functor.
LEMMA RemoveTracked ==
  ASSUME IInv, TrackInv, NEW l \in Loops, NEW f, NEW q, Took(l, f, q), f.fn = "remove",
         RemoveConnectionInLoop(f.conn, q),
         UNCHANGED <<ioLoop, state_, index, ups, downs, undone, phase, refs, tpc, revived>>
  PROVE  TrackInv'
<1>1. PICK d : d = f.conn /\ d \in Conns
  BY DEF Took, Functors
<1>2. PICK g \in Functors : g = Functor("connectDestroyed", d, FALSE)
  BY <1>1 DEF Functors, Functor
<1>3. g.fn = "connectDestroyed" /\ g.conn = d /\ ~g.raw
  BY <1>2 DEF Functor
<1>4. queue' = Push(q, ioLoop[d], g) /\ connections_' = connections_ \ {d}
  BY <1>1, <1>2 DEF RemoveConnectionInLoop
<1>5. /\ ioLoop \in [Conns -> Loops] /\ ioLoop[d] \in Loops /\ HeldBy' = HeldBy
      /\ Settled' = Settled /\ q \in [Loops -> Seq(Functors)] /\ Remaining(q)
  BY <1>1, TrackTypes, HeldSame, TookCall DEF Settled, Took
<1>6. ASSUME NEW c \in Settled PROVE Tracked(c)'
  <2>1. c \in Conns /\ Tracked(c) /\ Keeps(queue, q, c, ioLoop[c], state_[c]) /\ Same(c)
    BY <1>5 DEF TrackInv, Settled, Remaining, Same
  <2>2. PICK p, lc, ld, st : /\ p = queue' /\ lc = ioLoop[c] /\ lc \in Loops /\ st = state_[c]
                             /\ ld = ioLoop[d] /\ ld \in Loops
    BY <1>5, <2>1
  <2>3. g.conn = c => FunctorOK(g, lc, ld, st) /\ g.fn # "connectEstablished"
    <3> SUFFICES ASSUME d = c PROVE FunctorOK(g, lc, ld, st)
      BY <1>3
    <3>1. FunctorOK(f, ioLoop[c], l, state_[c])
      BY <1>1, <2>1 DEF Took, Less, Tracked, Track
    <3> QED
      BY <1>3, <2>2, <3>1 DEF FunctorOK, CallNames
  <2>4. Keeps(q, p, c, lc, st) /\ Waits(p, ld, g.fn, g.conn)
    BY <1>4, <1>5, <2>2, <2>3, PushTracked
  <2>5. Keeps(queue, queue', c, ioLoop[c], state_[c])
    BY <2>1, <2>2, <2>4, KeepsTwice
  <2>6. /\ c \in connections_' => c \in connections_
        /\ c \in connections_ => c \in connections_' \/ Waits(queue', ioLoop[c], "connectDestroyed", c)
    BY <1>3, <1>4, <2>2, <2>4
  <2> QED
    BY <1>5, <2>1, <2>5, <2>6, Bystander
<1> QED
  BY <1>5, <1>6 DEF TrackInv

\* connectEstablished() of d, in the loop l; q is what stays in the queues.
LEMMA EstablishedTracked ==
  ASSUME IInv, TrackInv, NEW d \in Conns, NEW l \in Loops, NEW q, ConnectEstablished(d), queue' = q,
         \A c \in Settled : c # d => Keeps(queue, q, c, ioLoop[c], state_[c]),
         d \in Settled =>
           /\ state_[d] \in {"none", "kConnecting"} /\ QueueOf(q, d, l, state_[d])
           /\ Absent(q, "connectEstablished", d)
           /\ phase[l] # "done" => d \in connections_' \/ Waits(q, l, "connectDestroyed", d),
         ioLoop'[d] = l, \A c \in Conns : c # d => ioLoop'[c] = ioLoop[c],
         connections_' \in {connections_, connections_ \cup {d}},
         UNCHANGED <<phase, tpc, revived>>
  PROVE  TrackInv'
<1>1. /\ state_' = [state_ EXCEPT ![d] = "kConnected"] /\ index' = [index EXCEPT ![d] = "kAdded"]
      /\ ups' = [ups EXCEPT ![d] = @ + 1] /\ UNCHANGED <<downs, undone>>
  BY DEF ConnectEstablished
<1>2. /\ state_ \in [Conns -> {"none", "kConnecting"} \cup Known]
      /\ index \in [Conns -> {"kNew", "kAdded", "kDeleted"}] /\ Settled' = Settled
  BY <1>1, TrackTypes DEF Settled
<1>3. /\ ups \in [Conns -> Nat] /\ downs \in [Conns -> Nat]
      /\ phase \in [Loops -> {"poll", "run", "done"}] /\ \A c \in Settled : Tracked(c)
  BY DEF TrackInv
<1>4. HeldBy' \subseteq HeldBy \cup {d}
  <2>1. PICK hs \in SUBSET Threads :
          refs' = [t \in Threads |-> IF t \in hs THEN refs[t] \cup {d} ELSE refs[t]]
    BY DEF ConnectEstablished
  <2>2. \A t \in Threads : Held(t)' \subseteq Held(t) \cup {d}
    BY <2>1 DEF Held
  <2> QED
    BY <2>2, SMT DEF HeldBy
<1>5. ASSUME NEW c \in Settled, c # d PROVE Tracked(c)'
  <2>1. c \in Conns /\ Tracked(c) /\ Keeps(queue, queue', c, ioLoop[c], state_[c])
    BY <1>3, <1>5 DEF Settled
  <2>2. Same(c)
    BY <1>1, <1>2, <1>3, <1>5, <2>1 DEF Same
  <2>3. (c \in HeldBy' => c \in HeldBy) /\ (c \in connections_' <=> c \in connections_)
    BY <1>4, <1>5
  <2> QED
    BY <2>1, <2>2, <2>3, Bystander
<1>6. ASSUME d \in Settled PROVE Tracked(d)'
  <2>1. PICK r, st, ix, up, dn, lc, con, held, ph :
        /\ r = queue /\ st = state_[d] /\ ix = index[d] /\ up = ups[d] /\ dn = downs[d]
        /\ lc = ioLoop[d] /\ con = connections_ /\ held = HeldBy /\ ph = phase
    OBVIOUS
  <2>2. PICK con2, held2 : con2 = connections_' /\ held2 = HeldBy'
    OBVIOUS
  <2>3. Track(d, st, ix, up, dn, r, lc, con, held, ph)
    BY <1>3, <1>6, <2>1 DEF Tracked
  <2>4. /\ st \in {"none", "kConnecting"} /\ QueueOf(q, d, l, st)
        /\ Absent(q, "connectEstablished", d)
        /\ ph[l] # "done" => d \in con2 \/ Waits(q, l, "connectDestroyed", d)
    BY <1>6, <2>1, <2>2
  <2>5. Track(d, "kConnected", "kAdded", up + 1, dn, q, l, con2, held2, ph)
    BY <2>3, <2>4, TrackEstablished
  <2>6. /\ state_'[d] = "kConnected" /\ index'[d] = "kAdded" /\ ups'[d] = up + 1
        /\ downs'[d] = dn /\ phase' = ph
    BY <1>1, <1>2, <1>3, <2>1
  <2> QED
    BY <2>2, <2>5, <2>6 DEF Tracked
<1>7. ups' \in [Conns -> Nat] /\ downs' \in [Conns -> Nat]
  BY <1>1, <1>3, SMT
<1> QED
  BY <1>2, <1>3, <1>5, <1>6, <1>7 DEF TrackInv

\* connectDestroyed() of d; q is what stays in the queues.
LEMMA DestroyedTracked ==
  ASSUME IInv, TrackInv, NEW d \in Conns, NEW q, ConnectDestroyed(d), queue' = q,
         \A c \in Settled : c # d => Keeps(queue, q, c, ioLoop[c], state_[c]),
         d \in Settled =>
           /\ state_[d] # "none" /\ QueueOf(q, d, ioLoop[d], state_[d])
           /\ state_[d] = "kConnecting" => phase[ioLoop[d]] = "done",
         connections_' \in {connections_, connections_ \ {d}},
         UNCHANGED <<ioLoop, phase, refs, tpc, revived>>
  PROVE  TrackInv'
<1>1. /\ index' = [index EXCEPT ![d] = "kNew"] /\ ups' = ups
      /\ undone' = undone \cup {c \in {d} : state_[c] = "kDisconnecting"}
      /\ \/ /\ state_[d] = "kConnected" /\ state_' = [state_ EXCEPT ![d] = "kDisconnected"]
            /\ downs' = [downs EXCEPT ![d] = @ + 1]
         \/ state_[d] # "kConnected" /\ UNCHANGED <<state_, downs>>
  BY DEF ConnectDestroyed
<1>2. /\ state_ \in [Conns -> {"none", "kConnecting"} \cup Known] /\ HeldBy' = HeldBy
      /\ index \in [Conns -> {"kNew", "kAdded", "kDeleted"}] /\ Settled' \subseteq Settled
  BY <1>1, TrackTypes, HeldSame DEF Settled
<1>3. /\ ups \in [Conns -> Nat] /\ downs \in [Conns -> Nat]
      /\ phase \in [Loops -> {"poll", "run", "done"}] /\ \A c \in Settled : Tracked(c)
  BY DEF TrackInv
<1>4. ASSUME NEW c \in Settled, c # d PROVE Tracked(c)'
  <2>1. c \in Conns /\ Tracked(c) /\ Keeps(queue, queue', c, ioLoop[c], state_[c])
    BY <1>3, <1>4 DEF Settled
  <2>2. Same(c)
    BY <1>1, <1>2, <1>3, <1>4, <2>1 DEF Same
  <2>3. (c \in HeldBy' => c \in HeldBy) /\ (c \in connections_' <=> c \in connections_)
    BY <1>2, <1>4
  <2> QED
    BY <2>1, <2>2, <2>3, Bystander
<1>5. ASSUME d \in Settled' PROVE Tracked(d)'
  <2>1. PICK r, st, ix, up, dn, lc, con, held, ph :
        /\ r = queue /\ st = state_[d] /\ ix = index[d] /\ up = ups[d] /\ dn = downs[d]
        /\ lc = ioLoop[d] /\ con = connections_ /\ held = HeldBy /\ ph = phase
    OBVIOUS
  <2>2. PICK con2, s, dn2 : con2 = connections_' /\ s = state_'[d] /\ dn2 = downs'[d]
    OBVIOUS
  <2>3. d \in Settled /\ Track(d, st, ix, up, dn, r, lc, con, held, ph)
    BY <1>2, <1>3, <1>5, <2>1 DEF Tracked
  <2>4. st \in {"kConnecting", "kConnected", "kDisconnected"}
    <3>1. st # "kDisconnecting"
      BY <1>1, <1>5, <2>1 DEF Settled
    <3> QED
      BY <1>2, <2>1, <2>3, <3>1 DEF Known, Open
  <2>5. QueueOf(q, d, lc, st) /\ (st = "kConnecting" => ph[lc] = "done") /\ (d \in con2 => d \in con)
    BY <2>1, <2>2, <2>3
  <2>6. \/ st = "kConnected" /\ s = "kDisconnected" /\ dn2 = dn + 1
        \/ st # "kConnected" /\ s = st /\ dn2 = dn
    BY <1>1, <1>2, <1>3, <2>1, <2>2
  <2>7. Track(d, s, "kNew", up, dn2, q, lc, con2, held, ph)
    BY <2>3, <2>4, <2>5, <2>6, TrackDestroyed
  <2>8. index'[d] = "kNew" /\ ups'[d] = up /\ ioLoop'[d] = lc /\ phase' = ph /\ HeldBy' = held
    BY <1>1, <1>2, <2>1
  <2> QED
    BY <2>2, <2>7, <2>8 DEF Tracked
<1>6. ups' \in [Conns -> Nat] /\ downs' \in [Conns -> Nat]
  BY <1>1, <1>3, SMT
<1> QED
  BY <1>2, <1>3, <1>4, <1>5, <1>6 DEF TrackInv

\* The functors with a TcpConnectionPtr.
LEMMA OwningTracked ==
  ASSUME IInv, TrackInv, NEW l \in Loops, RunOwning(l)
  PROVE  TrackInv'
<1>1. Runs(l) /\ UNCHANGED <<ioLoop, tpc, revived, phase>>
  BY DEF RunOwning, Runs
<1>2. PICK f, q : Took(l, f, q)
  BY <1>1, TookNext
<1>3. PICK d \in Conns : d = f.conn
  BY <1>2 DEF Took, Functors
<1>4. \/ f.fn = "connectEstablished" /\ ConnectEstablished(d) /\ queue' = q /\ UNCHANGED serverVars
      \/ f.fn = "remove" /\ RemoveConnectionInLoop(d, q) /\ UNCHANGED <<connVars, refs>>
      \/ f.fn = "connectDestroyed" /\ ConnectDestroyed(d) /\ queue' = q /\ UNCHANGED <<serverVars, refs>>
  BY <1>2, <1>3 DEF RunOwning, Took
<1>5. \A c \in Settled : c # d => Keeps(queue, q, c, ioLoop[c], state_[c])
  BY <1>2, <1>3 DEF Took, Less, Settled
<1>6. ASSUME d \in Settled
      PROVE  /\ Tracked(d) /\ Less(queue, q, l, f, d, ioLoop[d], state_[d])
             /\ FunctorOK(f, ioLoop[d], l, state_[d]) /\ QueueOf(q, d, ioLoop[d], state_[d])
             /\ l = ioLoop[d] => Absent(q, "connectEstablished", d)
  BY <1>2, <1>3, <1>6 DEF TrackInv, Tracked, Track, Took, Less
<1>7. CASE f.fn = "connectEstablished" /\ ConnectEstablished(d) /\ queue' = q /\ UNCHANGED serverVars
  <2>1. ioLoop'[d] = ioLoop[d] /\ ioLoop[d] \in Loops /\ connections_' = connections_
    BY <1>1, <1>7, TrackTypes DEF serverVars
  <2>2. ASSUME d \in Settled
        PROVE  /\ state_[d] \in {"none", "kConnecting"} /\ QueueOf(q, d, ioLoop[d], state_[d])
               /\ Absent(q, "connectEstablished", d)
               /\ phase[ioLoop[d]] # "done" =>
                    d \in connections_' \/ Waits(q, ioLoop[d], "connectDestroyed", d)
    <3>1. state_[d] = "kConnecting" /\ l = ioLoop[d]
      BY <1>6, <1>7, <2>2 DEF FunctorOK
    <3>2. phase[ioLoop[d]] # "done" =>
            d \in connections_ \/ Waits(queue, ioLoop[d], "connectDestroyed", d)
      BY <1>6, <2>2, <3>1 DEF Tracked, Track
    <3>3. Waits(queue, ioLoop[d], "connectDestroyed", d) => Waits(q, ioLoop[d], "connectDestroyed", d)
      BY <1>6, <1>7, <2>2, SMTT(30) DEF Less
    <3> QED
      BY <1>6, <2>1, <2>2, <3>1, <3>2, <3>3
  <2> QED
    BY <1>1, <1>5, <1>7, <2>1, <2>2, EstablishedTracked
<1>8. CASE f.fn = "remove" /\ RemoveConnectionInLoop(d, q) /\ UNCHANGED <<connVars, refs>>
  BY <1>1, <1>2, <1>3, <1>8, RemoveTracked DEF connVars
<1>9. CASE /\ f.fn = "connectDestroyed" /\ ConnectDestroyed(d) /\ queue' = q
           /\ UNCHANGED <<serverVars, refs>>
  <2>1. connections_' = connections_
    BY <1>9 DEF serverVars
  <2>2. ASSUME d \in Settled
        PROVE  /\ state_[d] # "none" /\ QueueOf(q, d, ioLoop[d], state_[d])
               /\ state_[d] = "kConnecting" => phase[ioLoop[d]] = "done"
    <3>1. state_[d] # "none" /\ l = ioLoop[d]
      BY <1>6, <1>9, <2>2 DEF FunctorOK
    <3>2. ASSUME state_[d] = "kConnecting", phase[ioLoop[d]] # "done" PROVE FALSE
      <4>1. Waits(queue, ioLoop[d], "connectEstablished", d)
        BY <1>6, <2>2, <3>2 DEF Tracked, Track
      <4>2. Waits(q, l, "connectEstablished", d)
        BY <1>6, <1>9, <2>2, <3>1, <4>1, SMTT(30) DEF Less
      <4> QED
        BY <1>6, <2>2, <3>1, <4>2 DEF Waits, Absent
    <3> QED
      BY <1>6, <2>2, <3>1, <3>2
  <2> QED
    BY <1>1, <1>5, <1>9, <2>1, <2>2, DestroyedTracked
<1> QED
  BY <1>4, <1>7, <1>8, <1>9

\* The functors with a plain `this'.
LEMMA RawTracked ==
  ASSUME IInv, TrackInv, NEW l \in Loops, RunRaw(l)
  PROVE  TrackInv'
<1>1. Runs(l) /\ UNCHANGED <<ioLoop, refs, tpc, revived, phase>>
  BY DEF RunRaw, Runs, threadVars
<1>2. PICK f, q : Took(l, f, q)
  BY <1>1, TookNext
<1>3. PICK d \in Conns : d = f.conn
  BY <1>2 DEF Took, Functors
<1>4. f.raw /\ Remaining(q)
  BY <1>2, TookCall DEF RunRaw, Took
<1>5. \/ state_[d] \in Open /\ HandleClose(d, q, l)
      \/ /\ f.fn = "send" /\ queue' = q
         /\ index' = index \/ (state_[d] # "kDisconnected" /\ index' = [index EXCEPT ![d] = "kAdded"])
         /\ UNCHANGED <<state_, ups, downs, undone, connections_>>
      \/ queue' = q /\ UNCHANGED <<index, state_, ups, downs, undone, connections_>>
  BY <1>2, <1>3 DEF RunRaw, Took, connVars, serverVars, Open
<1>6. CASE state_[d] \in Open /\ HandleClose(d, q, l)
  BY <1>1, <1>4, <1>6, CloseTracked
<1>7. CASE /\ queue' = q /\ UNCHANGED <<state_, ups, downs, undone, connections_>>
           /\ \A c \in Settled : index'[c] = index[c]
  <2>1. \A c \in Settled : Same(c)
    BY <1>1, <1>7 DEF Same
  <2>2. HeldBy' = HeldBy /\ Settled' = Settled /\ phase \in [Loops -> {"poll", "run", "done"}]
    BY <1>1, <1>7, HeldSame DEF Settled, TrackInv
  <2> QED
    BY <1>1, <1>4, <1>7, <2>1, <2>2, Bystanders
<1>8. ASSUME f.fn = "send", state_[d] # "kDisconnected", index' = [index EXCEPT ![d] = "kAdded"],
             NEW c \in Settled
      PROVE  index'[c] = index[c]
  <2>1. index \in [Conns -> {"kNew", "kAdded", "kDeleted"}] /\ c \in Conns
    BY TrackTypes DEF Settled
  <2>2. CASE c = d
    <3>1. Values(state_[d], index[d], ups[d], downs[d]) /\ FunctorOK(f, ioLoop[d], l, state_[d])
      BY <1>2, <1>3, <1>8, <2>2 DEF TrackInv, Tracked, Track, Took, Less
    <3>2. state_[d] \in Open
      BY <1>8, <3>1 DEF FunctorOK, CallNames, Known
    <3> QED
      BY <1>8, <2>1, <2>2, <3>1, <3>2 DEF Values
  <2> QED
    BY <1>8, <2>1, <2>2
<1> QED
  BY <1>5, <1>6, <1>7, <1>8

\* A step that changes no connection, map, thread or loop.
LEMMA Idling ==
  ASSUME IInv, TrackInv, Remaining(queue'),
         UNCHANGED <<state_, index, ups, downs, undone, ioLoop, connections_, revived>>,
         HeldBy' \subseteq HeldBy, phase' \in [Loops -> {"poll", "run", "done"}],
         \A l \in Loops : phase'[l] = phase[l] \/ phase[l] # "done"
  PROVE  TrackInv'
<1>1. (\A c \in Settled : Same(c)) /\ Settled' = Settled
  BY DEF Same, Settled
<1> QED
  BY <1>1, Bystanders

\* A loop that quits drops its functors; no connection of it has a loop that runs.
LEMMA EndTracked ==
  ASSUME IInv, TrackInv, NEW l \in Loops, EndBatch(l)
  PROVE  TrackInv'
<1>1. /\ phase[l] = "run" /\ phase' = [phase EXCEPT ![l] = IF l \in quit_ THEN "done" ELSE "poll"]
      /\ queue' = IF l \in quit_ THEN [queue EXCEPT ![l] = <<>>] ELSE queue
      /\ UNCHANGED <<state_, index, ups, downs, undone, ioLoop, connections_, refs, tpc, revived>>
  BY DEF EndBatch, Quits, serverVars, connVars, threadVars
<1>2. /\ ioLoop \in [Conns -> Loops] /\ queue \in [Loops -> Seq(Functors)] /\ Remaining(queue)
      /\ HeldBy' = HeldBy /\ Settled' = Settled
  BY <1>1, TrackTypes, RemainingAll, HeldSame DEF Settled
<1>3. phase \in [Loops -> {"poll", "run", "done"}] /\ phase' \in [Loops -> {"poll", "run", "done"}]
  BY <1>1 DEF TrackInv
<1>4. CASE l \notin quit_
  <2>1. Remaining(queue') /\ \A k \in Loops : phase'[k] = phase[k] \/ phase[k] # "done"
    BY <1>1, <1>2, <1>3, <1>4
  <2> QED
    BY <1>1, <1>2, <1>3, <2>1, Idling
<1>5. CASE l \in quit_
  <2>1. /\ queue'[l] = <<>> /\ DOMAIN <<>> = {} /\ \A k \in Loops : k # l => queue'[k] = queue[k]
        /\ phase'[l] = "done" /\ \A k \in Loops : k # l => phase'[k] = phase[k]
    <3>1. DOMAIN <<>> = {}
      BY SMT
    <3> QED
      BY <1>1, <1>2, <1>3, <1>5, <3>1
  <2>2. ASSUME NEW c \in Settled PROVE Tracked(c)'
    <3>1. c \in Conns /\ Tracked(c) /\ Same(c) /\ ioLoop[c] \in Loops
      BY <1>1, <1>2 DEF Settled, TrackInv, Same
    <3>2. QueueOf(queue, c, ioLoop[c], state_[c])
      BY <3>1 DEF Tracked, Track
    <3>3. QueueOf(queue', c, ioLoop[c], state_[c])
      <4> SUFFICES ASSUME NEW k \in Loops, NEW i \in DOMAIN queue'[k], queue'[k][i].conn = c
                   PROVE  /\ FunctorOK(queue'[k][i], ioLoop[c], k, state_[c])
                          /\ queue'[k][i].fn = "connectEstablished" =>
                               \A j \in DOMAIN queue'[k] : j < i => queue'[k][j].conn # c
        BY DEF QueueOf
      <4>1. queue'[k] = queue[k]
        BY <2>1
      <4> QED
        BY <3>2, <4>1 DEF QueueOf
    <3>4. CASE ioLoop[c] = l
      <4>1. PICK q, st, ix, up, dn, lc, con, held, ph :
              /\ q = queue /\ st = state_[c] /\ ix = index[c] /\ up = ups[c] /\ dn = downs[c]
              /\ lc = ioLoop[c] /\ con = connections_ /\ held = HeldBy /\ ph = phase
        OBVIOUS
      <4>2. PICK p, ph2 : p = queue' /\ ph2 = phase'
        OBVIOUS
      <4>3. /\ Track(c, st, ix, up, dn, q, lc, con, held, ph) /\ QueueOf(p, c, lc, st)
            /\ ph2[lc] = "done"
        BY <2>1, <3>1, <3>3, <3>4, <4>1, <4>2 DEF Tracked
      <4>4. Track(c, st, ix, up, dn, p, lc, con, held, ph2)
        BY <4>3, TrackEnd
      <4> QED
        BY <1>1, <1>2, <4>1, <4>2, <4>4 DEF Tracked
    <3>5. CASE ioLoop[c] # l
      <4>1. Keeps(queue, queue', c, ioLoop[c], state_[c])
        BY <2>1, <3>1, <3>3, <3>5 DEF Keeps, Waits
      <4> QED
        BY <1>1, <1>2, <2>1, <3>1, <3>5, <4>1, Bystander
    <3> QED
      BY <3>4, <3>5
  <2> QED
    BY <1>1, <1>2, <1>3, <2>2 DEF TrackInv
<1> QED
  BY <1>4, <1>5

\* The steps of a loop.
LEMMA LoopTracked ==
  ASSUME IInv, TrackInv, NEW l \in Loops, LoopStep(l)
  PROVE  TrackInv'
<1>1. phase \in [Loops -> {"poll", "run", "done"}]
  BY DEF TrackInv
<1>2. CASE Swap(l)
  <2>1. /\ phase[l] = "poll" /\ phase' = [phase EXCEPT ![l] = "run"]
        /\ UNCHANGED <<state_, index, ups, downs, undone, ioLoop, connections_, refs, tpc, revived, queue>>
    BY <1>2 DEF Swap, serverVars, connVars, threadVars
  <2>2. /\ HeldBy' = HeldBy /\ Remaining(queue') /\ phase' \in [Loops -> {"poll", "run", "done"}]
        /\ \A k \in Loops : phase'[k] = phase[k] \/ phase[k] # "done"
    BY <1>1, <2>1, HeldSame, RemainingAll
  <2> QED
    BY <2>1, <2>2, Idling
<1>3. CASE RunStray(l)
  <2>1. /\ Runs(l) /\ phase' = phase
        /\ UNCHANGED <<state_, index, ups, downs, undone, ioLoop, connections_, refs, tpc, revived>>
    BY <1>3 DEF RunStray, Runs, serverVars, connVars, threadVars
  <2>2. PICK f, q : Took(l, f, q)
    BY <2>1, TookNext
  <2>3. queue' = q /\ Remaining(q)
    BY <1>3, <2>2, TookCall DEF RunStray, Took
  <2> QED
    BY <1>1, <2>1, <2>3, HeldSame, Idling
<1> QED
  BY <1>2, <1>3, EndTracked, OwningTracked, RawTracked DEF LoopStep

\* shutdown() or forceClose() sets the state of an open connection.
LEMMA DisconnectingTracked ==
  ASSUME IInv, TrackInv, NEW d \in Conns, state_' = [state_ EXCEPT ![d] = "kDisconnecting"],
         d \in Settled' => state_[d] \in Open, Settled' \subseteq Settled, HeldBy' \subseteq HeldBy,
         UNCHANGED <<index, ups, downs, ioLoop, connections_, queue, phase>>
  PROVE  TrackInv'
<1>1. state_ \in [Conns -> {"none", "kConnecting"} \cup Known] /\ Remaining(queue)
  BY TrackTypes, RemainingAll
<1>2. \A c \in Settled : Tracked(c)
  BY DEF TrackInv
<1>3. ASSUME NEW c \in Settled', c # d PROVE Tracked(c)'
  <2>1. c \in Conns /\ Tracked(c) /\ Same(c) /\ Keeps(queue, queue', c, ioLoop[c], state_[c])
    BY <1>1, <1>2, <1>3 DEF Settled, Same, Keeps
  <2> QED
    BY <2>1, Bystander
<1>4. ASSUME d \in Settled' PROVE Tracked(d)'
  <2>1. PICK q, st, ix, up, dn, lc, con, held, ph :
          /\ q = queue /\ st = state_[d] /\ ix = index[d] /\ up = ups[d] /\ dn = downs[d]
          /\ lc = ioLoop[d] /\ con = connections_ /\ held = HeldBy /\ ph = phase
    OBVIOUS
  <2>2. PICK held2 : held2 = HeldBy'
    OBVIOUS
  <2>3. Track(d, st, ix, up, dn, q, lc, con, held, ph) /\ st \in Open
    BY <1>2, <1>4, <2>1 DEF Tracked
  <2>4. /\ Values("kDisconnecting", ix, up, dn) /\ st \in Known /\ "kDisconnecting" \in Known
    BY <2>3 DEF Track, Values, Known, Open
  <2>5. Track(d, "kDisconnecting", ix, up, dn, q, lc, con, held, ph)
    BY <2>3, <2>4, TrackMove
  <2>6. Framed(d, "kDisconnecting", lc, q, con, held, ph, q, con, held2, ph)
    BY <2>4 DEF Framed, Keeps
  <2>7. Track(d, "kDisconnecting", ix, up, dn, q, lc, con, held2, ph)
    BY <2>5, <2>6, TrackFrame
  <2> QED
    BY <1>1, <2>1, <2>2, <2>7 DEF Tracked
<1> QED
  BY <1>3, <1>4 DEF TrackInv

\* newConnection() of d.
LEMMA AcceptTracked ==
  ASSUME IInv, TrackInv, NEW d \in Conns, NEW l \in IoLoops, NewConnection(d, l), phase' = phase
  PROVE  TrackInv'
<1>1. /\ state_[d] = "none" /\ connections_' = connections_ \cup {d}
      /\ ioLoop' = [ioLoop EXCEPT ![d] = l] /\ UNCHANGED <<tpc, revived>> /\ l \in Loops
  BY DEF NewConnection, Loops
<1>2. /\ queue \in [Loops -> Seq(Functors)] /\ ioLoop \in [Conns -> Loops] /\ Remaining(queue)
      /\ state_ \in [Conns -> {"none", "kConnecting"} \cup Known]
  BY TrackTypes, RemainingAll
<1>3. ioLoop'[d] = l /\ \A c \in Conns : c # d => ioLoop'[c] = ioLoop[c]
  BY <1>1, <1>2
<1>4. \A c \in Settled : Tracked(c) /\ c \in Conns
  BY DEF TrackInv, Settled
<1>5. CASE l = base
  <2>1. ConnectEstablished(d) /\ queue' = queue
    BY <1>5 DEF NewConnection
  <2>2. PICK q : q = queue
    OBVIOUS
  <2>3. \A c \in Settled : c # d => Keeps(queue, q, c, ioLoop[c], state_[c])
    BY <2>2 DEF Keeps
  <2>4. ASSUME d \in Settled
        PROVE  QueueOf(q, d, l, "none") /\ Absent(q, "connectEstablished", d)
    <3>1. QueueOf(q, d, ioLoop[d], "none")
      BY <1>1, <1>4, <2>2, <2>4 DEF Tracked, Track
    <3> QED
      BY <3>1, NoneQueued
  <2> QED
    BY <1>1, <1>3, <2>1, <2>2, <2>3, <2>4, EstablishedTracked
<1>6. CASE l # base
  <2>1. PICK f \in Functors : f = Functor("connectEstablished", d, FALSE)
    BY DEF Functors, Functor
  <2>2. f.fn = "connectEstablished" /\ f.conn = d /\ ~f.raw
    BY <2>1 DEF Functor
  <2>3. /\ queue' = Push(queue, l, f) /\ state_' = [state_ EXCEPT ![d] = "kConnecting"]
        /\ UNCHANGED <<index, ups, downs, undone, refs>>
    BY <1>6, <2>1 DEF NewConnection
  <2>4. HeldBy' = HeldBy /\ Settled' = Settled
    BY <1>1, <2>3, HeldSame DEF Settled
  <2>5. ASSUME NEW c \in Settled, c # d PROVE Tracked(c)'
    <3>1. PICK q, p, lc, st : /\ q = queue /\ p = queue' /\ lc = ioLoop[c] /\ lc \in Loops
                              /\ st = state_[c]
      BY <1>2, <1>4
    <3>2. Keeps(q, p, c, lc, st)
      BY <1>1, <1>2, <2>2, <2>3, <2>5, <3>1, PushTracked
    <3>3. Same(c) /\ (c \in connections_' <=> c \in connections_)
      BY <1>1, <1>2, <1>3, <1>4, <2>3, <2>5 DEF Same
    <3> QED
      BY <1>4, <2>4, <3>1, <3>2, <3>3, Bystander
  <2>6. ASSUME d \in Settled PROVE Tracked(d)'
    <3>1. PICK q, ix, up, dn, lc, con, held, ph :
            /\ q = queue /\ ix = index[d] /\ up = ups[d] /\ dn = downs[d]
            /\ lc = ioLoop[d] /\ con = connections_ /\ held = HeldBy /\ ph = phase
      OBVIOUS
    <3>2. PICK p, con2 : p = queue' /\ con2 = connections_'
      OBVIOUS
    <3>3. /\ Track(d, "none", ix, up, dn, q, lc, con, held, ph) /\ d \in con2
          /\ q \in [Loops -> Seq(Functors)] /\ p = Push(q, l, f)
      BY <1>1, <1>2, <1>4, <2>3, <2>6, <3>1, <3>2 DEF Tracked
    <3>4. Track(d, "kConnecting", ix, up, dn, p, l, con2, held, ph)
      BY <1>1, <1>6, <2>2, <3>3, TrackConnecting
    <3>5. state_'[d] = "kConnecting"
      BY <1>2, <2>3
    <3> QED
      BY <1>3, <2>3, <2>4, <3>1, <3>2, <3>4, <3>5 DEF Tracked
  <2> QED
    BY <1>1, <2>3, <2>4, <2>5, <2>6 DEF TrackInv
<1> QED
  BY <1>5, <1>6

\* The handlers a loop runs for the channels of a connection and of the acceptor.
LEMMA EventTracked ==
  ASSUME IInv, TrackInv, NEW d \in Conns, Event(d)
  PROVE  TrackInv'
<1>1. phase' = phase /\ ioLoop[d] \in Loops
  BY TrackTypes DEF Event, loopVars
<1>2. ASSUME index[d] = "kAdded", d \in Settled PROVE state_[d] \in Open
  BY <1>2 DEF TrackInv, Tracked, Track, Values
<1>3. CASE HandleReadEof(d) \/ HandleHangup(d) \/ MessageForceClose(d)
  <2>1. /\ index[d] = "kAdded" /\ HandleClose(d, queue, ioLoop[d])
        /\ UNCHANGED <<ioLoop, refs, tpc, revived>>
    BY <1>3 DEF HandleReadEof, HandleHangup, MessageForceClose, Readable, Handling, threadVars
  <2>2. PICK q, l : q = queue /\ l = ioLoop[d]
    OBVIOUS
  <2>3. Remaining(q) /\ HandleClose(d, q, l) /\ l \in Loops
    BY <1>1, <2>1, <2>2, RemainingAll
  <2> QED
    BY <1>1, <1>2, <2>1, <2>3, CloseTracked
<1>4. CASE MessageShutdown(d)
  <2>1. /\ state_[d] = "kConnected" /\ state_' = [state_ EXCEPT ![d] = "kDisconnecting"]
        /\ UNCHANGED <<connections_, ioLoop, index, ups, downs, undone, queue, refs, tpc, revived>>
    BY <1>4 DEF MessageShutdown, serverVars, threadVars
  <2>2. HeldBy' = HeldBy /\ Settled' = Settled /\ state_[d] \in Open
    BY <2>1, HeldSame DEF Settled, Open
  <2> QED
    BY <1>1, <2>1, <2>2, DisconnectingTracked
<1>5. CASE Accept(d)
  BY <1>1, <1>5, AcceptTracked DEF Accept
<1> QED
  BY <1>3, <1>4, <1>5 DEF Event

\* The calls of other threads.
LEMMA ThreadTracked ==
  ASSUME IInv, TrackInv, NEW t \in Threads, ThreadStep(t)
  PROVE  TrackInv'
<1>1. phase' = phase /\ phase \in [Loops -> {"poll", "run", "done"}] /\ Remaining(queue)
  BY RemainingAll DEF ThreadStep, loopVars, TrackInv
<1>2. /\ refs \in [Threads -> SUBSET Conns]
      /\ tpc \in [Threads -> [call : Calls \cup {"none"}, conn : Conns \cup {base},
                              at : {"idle", "set", "queue"}]]
      /\ \A u \in Threads : tpc[u].at # "idle" => tpc[u].conn \in Conns /\ tpc[u].call \in Calls
  BY DEF IInv, TypeOK, ThreadsOK
<1>3. ASSUME NEW c \in Conns, DropRef(t, c) PROVE TrackInv'
  <2>1. /\ refs' = [refs EXCEPT ![t] = @ \ {c}]
        /\ UNCHANGED <<state_, index, ups, downs, undone, ioLoop, connections_, revived, queue, tpc>>
    BY <1>3 DEF DropRef, serverVars, connVars
  <2>2. HeldBy' \subseteq HeldBy
    <3>1. \A u \in Threads : Held(u)' \subseteq Held(u)
      BY <1>2, <2>1 DEF Held
    <3> QED
      BY <3>1 DEF HeldBy
  <2> QED
    BY <1>1, <2>1, <2>2, Idling
<1>4. ASSUME NEW c \in Conns, NEW call \in Calls, Test(t, c, call) PROVE TrackInv'
  <2>1. /\ c \in refs[t]
        /\ tpc' = [tpc EXCEPT ![t] = [call |-> call, conn |-> c,
                                      at |-> IF call = "send" THEN "queue" ELSE "set"]]
        /\ UNCHANGED <<state_, index, ups, downs, undone, ioLoop, connections_, revived, queue, refs>>
    BY <1>4 DEF Test, serverVars, connVars
  <2>2. HeldBy' \subseteq HeldBy
    <3>1. \A u \in Threads : Held(u)' \subseteq Held(u)
      BY <1>2, <2>1 DEF Held
    <3> QED
      BY <3>1 DEF HeldBy
  <2> QED
    BY <1>1, <2>1, <2>2, Idling
<1>5. ASSUME tpc[t].at # "idle", tpc[t].conn \in Settled PROVE state_[tpc[t].conn] \in Known
  <2>1. tpc[t].conn \in HeldBy
    BY <1>2, <1>5, SMT DEF HeldBy, Held
  <2> QED
    BY <1>5, <2>1 DEF TrackInv, Tracked, Track
<1>6. CASE SetDisconnecting(t)
  <2>1. PICK d \in Conns : d = tpc[t].conn
    BY <1>2, <1>6 DEF SetDisconnecting
  <2>2. /\ tpc[t].at = "set" /\ state_' = [state_ EXCEPT ![d] = "kDisconnecting"]
        /\ revived' = revived \cup {c \in {d} : state_[c] = "kDisconnected"}
        /\ tpc' = [tpc EXCEPT ![t].at = "queue"]
        /\ UNCHANGED <<index, ups, downs, undone, ioLoop, connections_, queue, refs>>
    BY <1>6, <2>1 DEF SetDisconnecting, serverVars
  <2>3. HeldBy' \subseteq HeldBy
    <3>1. \A u \in Threads : Held(u)' \subseteq Held(u)
      BY <1>2, <2>2 DEF Held
    <3> QED
      BY <3>1 DEF HeldBy
  <2>4. Settled' \subseteq Settled /\ (d \in Settled' => state_[d] # "kDisconnected")
    BY <2>2 DEF Settled
  <2>5. d \in Settled' => state_[d] \in Open
    BY <1>5, <2>1, <2>2, <2>4 DEF Known
  <2> QED
    BY <1>1, <2>2, <2>3, <2>4, <2>5, DisconnectingTracked
<1>7. CASE QueueFunctor(t)
  <2>1. PICK d \in Conns : d = tpc[t].conn
    BY <1>2, <1>7 DEF QueueFunctor
  <2>2. tpc[t].call \in CallNames /\ tpc[t].at # "idle"
    BY <1>2, <1>7, ServerAssumption DEF CallNames, QueueFunctor
  <2>3. PICK f \in Functors : f = Functor(tpc[t].call, d, TRUE)
    BY <2>2 DEF Functors, Functor
  <2>4. f.fn \in CallNames /\ f.conn = d /\ f.raw
    BY <2>2, <2>3 DEF Functor
  <2>5. /\ queue' = Push(queue, ioLoop[d], f) /\ tpc' = [tpc EXCEPT ![t] = Idle]
        /\ UNCHANGED <<state_, index, ups, downs, undone, ioLoop, connections_, revived, refs>>
    BY <1>7, <2>1, <2>3 DEF QueueFunctor, serverVars, connVars
  <2>6. HeldBy' \subseteq HeldBy
    <3>1. \A u \in Threads : Held(u)' \subseteq Held(u)
      BY <1>2, <2>5 DEF Held, Idle
    <3> QED
      BY <3>1 DEF HeldBy
  <2>7. PICK q, p, ld : q = queue /\ p = queue' /\ ld = ioLoop[d]
    OBVIOUS
  <2>8. q \in [Loops -> Seq(Functors)] /\ ld \in Loops /\ p = Push(q, ld, f)
    BY <2>5, <2>7, TrackTypes
  <2>9. p \in [Loops -> Seq(Functors)]
    BY <2>8, PushIs
  <2>10. ASSUME NEW c \in Settled PROVE Keeps(q, p, c, ioLoop[c], state_[c])
    <3>1. PICK lc, st : lc = ioLoop[c] /\ lc \in Loops /\ st = state_[c]
      BY TrackTypes DEF Settled
    <3>2. f.conn = c => FunctorOK(f, lc, ld, st) /\ f.fn # "connectEstablished"
      BY <1>5, <2>1, <2>2, <2>4, <2>7, <3>1 DEF FunctorOK, CallNames, Known, Open
    <3>3. Keeps(q, p, c, lc, st)
      BY <2>8, <3>1, <3>2, PushTracked
    <3> QED
      BY <3>1, <3>3
  <2>11. Remaining(queue')
    BY <2>7, <2>9, <2>10 DEF Remaining
  <2> QED
    BY <1>1, <2>5, <2>6, <2>11, Idling
<1> QED
  BY <1>3, <1>4, <1>6, <1>7 DEF ThreadStep

\* One round of the loop of ~TcpServer().
LEMMA DtorTracked ==
  ASSUME IInv, TrackInv, NEW d \in Conns, DtorConn(d)
  PROVE  TrackInv'
<1>1. /\ d \in connections_ /\ connections_' = connections_ \ {d}
      /\ UNCHANGED <<ioLoop, refs, tpc, revived, phase>>
  BY DEF DtorConn, threadVars, loopVars
<1>2. /\ queue \in [Loops -> Seq(Functors)] /\ ioLoop \in [Conns -> Loops] /\ ioLoop[d] \in Loops
  BY TrackTypes
<1>3. \A c \in Settled : Tracked(c) /\ c \in Conns
  BY DEF TrackInv, Settled
<1>4. d \in Settled => state_[d] # "none"
  BY <1>1, <1>3 DEF Tracked, Track
<1>5. CASE ioLoop[d] = base
  <2>1. ConnectDestroyed(d) /\ queue' = queue
    BY <1>5 DEF DtorConn
  <2>2. PICK q : q = queue
    OBVIOUS
  <2>3. \A c \in Settled : c # d => Keeps(queue, q, c, ioLoop[c], state_[c])
    BY <2>2 DEF Keeps
  <2>4. d \in Settled => QueueOf(q, d, ioLoop[d], state_[d]) /\ state_[d] # "kConnecting"
    BY <1>3, <1>5, <2>2 DEF Tracked, Track
  <2> QED
    BY <1>1, <1>4, <2>1, <2>2, <2>3, <2>4, DestroyedTracked
<1>6. CASE ioLoop[d] # base
  <2>1. PICK f \in Functors : f = DtorFunctor(d)
    BY DEF Functors, Functor, DtorFunctor
  <2>2. f.fn = "connectDestroyed" /\ f.conn = d /\ ~f.raw
    BY <2>1 DEF Functor, DtorFunctor
  <2>3. queue' = Push(queue, ioLoop[d], f) /\ UNCHANGED <<state_, index, ups, downs, undone>>
    BY <1>6, <2>1 DEF DtorConn, connVars
  <2>4. HeldBy' = HeldBy /\ Settled' = Settled
    BY <1>1, <2>3, HeldSame DEF Settled
  <2>5. ASSUME NEW c \in Settled PROVE Tracked(c)'
    <3>1. PICK q, p, lc, ld, st :
            /\ q = queue /\ p = queue' /\ lc = ioLoop[c] /\ lc \in Loops /\ st = state_[c]
            /\ ld = ioLoop[d] /\ ld \in Loops
      BY <1>2, <1>3
    <3>2. f.conn = c => FunctorOK(f, lc, ld, st) /\ f.fn # "connectEstablished"
      BY <1>4, <2>2, <3>1 DEF FunctorOK, CallNames
    <3>3. Keeps(q, p, c, lc, st) /\ Waits(p, ld, f.fn, f.conn)
      BY <1>2, <2>3, <3>1, <3>2, PushTracked
    <3>4. /\ Same(c) /\ (c \in connections_' => c \in connections_)
          /\ c \in connections_ => c \in connections_' \/ Waits(queue', ioLoop[c], "connectDestroyed", c)
      BY <1>1, <2>2, <2>3, <3>1, <3>3 DEF Same
    <3> QED
      BY <1>1, <1>3, <2>4, <3>1, <3>3, <3>4, Bystander
  <2> QED
    BY <1>1, <2>3, <2>4, <2>5 DEF TrackInv
<1> QED
  BY <1>5, <1>6

\* start() and the destructor.
LEMMA ServerTracked ==
  ASSUME IInv, TrackInv, Start \/ Destroy \/ DtorStep
  PROVE  TrackInv'
<1>1. CASE \E c \in Conns : DtorConn(c)
  BY <1>1, DtorTracked
<1>2. CASE Start \/ Destroy \/ (\E l \in IoLoops \ {base} : DtorQuit(l)) \/ DtorEnd
  <2>1. UNCHANGED <<state_, index, ups, downs, undone, ioLoop, connections_, refs, tpc, revived,
                    queue, phase>>
    BY <1>2 DEF Start, Destroy, DtorQuit, DtorEnd, serverVars, connVars, threadVars
  <2>2. HeldBy' = HeldBy /\ Remaining(queue') /\ phase' \in [Loops -> {"poll", "run", "done"}]
    BY <2>1, HeldSame, RemainingAll DEF TrackInv
  <2> QED
    BY <2>1, <2>2, Idling
<1> QED
  BY <1>1, <1>2 DEF DtorStep

\* A server with no connections.
LEMMA InitTracked ==
  ASSUME Init
  PROVE  TrackInv
<1>1. /\ \A c \in Conns : /\ ioLoop[c] = base /\ state_[c] = "none" /\ index[c] = "kNew"
                          /\ ups[c] = 0 /\ downs[c] = 0
      /\ connections_ = {} /\ ups \in [Conns -> Nat] /\ downs \in [Conns -> Nat]
      /\ phase \in [Loops -> {"poll", "run", "done"}]
  BY DEF Init
<1>2. HeldBy = {}
  <2>1. \A t \in Threads : Held(t) = {}
    BY DEF Init, Held, Idle
  <2> QED
    BY <2>1 DEF HeldBy
<1>3. ASSUME NEW c \in Settled PROVE Tracked(c)
  <2>1. c \in Conns
    BY DEF Settled
  <2>2. QueueOf(queue, c, base, "none")
    <3>1. \A l \in Loops : queue[l] = <<>>
      BY DEF Init
    <3>2. DOMAIN <<>> = {}
      BY SMT
    <3> QED
      BY <3>1, <3>2 DEF QueueOf
  <2>3. Values("none", "kNew", 0, 0)
    BY DEF Values, Known, Open
  <2> QED
    BY <1>1, <1>2, <2>1, <2>2, <2>3 DEF Tracked, Track
<1> QED
  BY <1>1, <1>3 DEF TrackInv

\* Every step keeps what is known of the settled connections.
LEMMA NextTracked == IInv /\ TrackInv /\ [Next]_vars => TrackInv'
<1> SUFFICES ASSUME IInv, TrackInv, [Next]_vars PROVE TrackInv'
  OBVIOUS
<1>1. CASE UNCHANGED vars
  <2>1. UNCHANGED <<state_, index, ups, downs, undone, ioLoop, connections_, refs, tpc, revived,
                    queue, phase>>
    BY <1>1 DEF vars, serverVars, connVars, threadVars, loopVars
  <2>2. HeldBy' = HeldBy /\ Remaining(queue') /\ phase' \in [Loops -> {"poll", "run", "done"}]
    BY <2>1, HeldSame, RemainingAll DEF TrackInv
  <2> QED
    BY <2>1, <2>2, Idling
<1>2. CASE Next
  BY <1>2, EventTracked, LoopTracked, ThreadTracked, ServerTracked DEF Next
<1> QED
  BY <1>1, <1>2

\* The functors queued for a connection, its channel, its pointers and the calls of
\* connectionCallback_ fit its state, until another thread overwrites it.
THEOREM Tracking == Spec => []TrackInv
<1>1. Init => TrackInv
  BY InitTracked
<1> QED
  BY <1>1, NextTracked, Invariance, PTL DEF Spec

\* A connection in the map or about to be destroyed exists.
LEMMA KeptAlive ==
  ASSUME IInv, NEW c \in Conns, Tracked(c),
         c \in connections_ \/ Waits(queue, ioLoop[c], "connectDestroyed", c)
  PROVE  Alive(c)
<1>1. CASE c \in connections_
  BY <1>1 DEF Alive
<1>2. CASE Waits(queue, ioLoop[c], "connectDestroyed", c)
  <2>1. ioLoop[c] \in Loops
    BY TrackTypes
  <2>2. PICK i \in DOMAIN queue[ioLoop[c]] :
          queue[ioLoop[c]][i].fn = "connectDestroyed" /\ queue[ioLoop[c]][i].conn = c
    BY <1>2 DEF Waits
  <2>3. FunctorOK(queue[ioLoop[c]][i], ioLoop[c], ioLoop[c], state_[c])
    BY <2>1, <2>2 DEF Tracked, Track, QueueOf
  <2>4. ~queue[ioLoop[c]][i].raw
    BY <1>2, <2>2, <2>3 DEF FunctorOK, CallNames
  <2> QED
    BY <2>1, <2>2, <2>4 DEF Alive
<1> QED
  BY <1>1, <1>2

\* A channel known to the poller belongs to a connection that exists, also while
\* ~TcpServer() gives up its references: epoll never reports a freed channel.
THEOREM WatchedConnectionsLive == Spec => []WatchedIsAlive
<1>1. IInv /\ TrackInv => WatchedIsAlive
  <2> SUFFICES ASSUME IInv, TrackInv, NEW c \in Settled, index[c] # "kNew", LoopLives(c)
               PROVE  Alive(c)
    BY DEF WatchedIsAlive
  <2>1. c \in Conns /\ Tracked(c)
    BY DEF Settled, TrackInv
  <2>2. c \in connections_ \/ Waits(queue, ioLoop[c], "connectDestroyed", c)
    BY <2>1 DEF Tracked, Track, LoopLives
  <2> QED
    BY <2>1, <2>2, KeptAlive
<1> QED
  BY <1>1, Invariance, Tracking, PTL

\* connectionCallback_ reports each connection up once and down once, in that
\* order, and down before the connection is destroyed.
THEOREM CallbacksInOrder == Spec => []UpThenDown
<1>1. IInv /\ TrackInv => UpThenDown
  <2> SUFFICES ASSUME IInv, TrackInv, NEW c \in Settled
               PROVE  /\ downs[c] <= ups[c] /\ ups[c] <= 1
                      /\ state_[c] # "none" /\ ~Alive(c) /\ LoopLives(c) => downs[c] = 1
    BY DEF UpThenDown
  <2>1. c \in Conns /\ Tracked(c)
    BY DEF Settled, TrackInv
  <2>2. Values(state_[c], index[c], ups[c], downs[c])
    BY <2>1 DEF Tracked, Track
  <2>3. downs[c] <= ups[c] /\ ups[c] <= 1
    BY <2>2, SMT DEF Values, Known, Open
  <2>4. ASSUME state_[c] # "none", ~Alive(c), LoopLives(c) PROVE downs[c] = 1
    <3>1. index[c] = "kNew" /\ state_[c] # "kConnecting"
      BY <2>1, <2>4, KeptAlive DEF Tracked, Track, LoopLives
    <3>2. state_[c] \in Known
      BY <2>1, <2>4, <3>1, TrackTypes
    <3>3. state_[c] \notin Open
      BY <2>2, <3>1 DEF Values
    <3> QED
      BY <2>2, <3>2, <3>3 DEF Values, Known
  <2> QED
    BY <2>3, <2>4
<1> QED
  BY <1>1, Invariance, Tracking, PTL
-----------------------------------------------------------------------------
(* What ClosedIsReleased rests on.                                           *)

\* A connection that is closed and whose loop runs has left the map and epoll, or
\* its connectDestroyed() is queued in its loop, or the base loop has still to
\* remove it from the map, which queues that.
Released(c, ix, q, lc, con) ==
  \/ c \notin con /\ ix = "kNew"
  \/ Waits(q, lc, "connectDestroyed", c) \/ Waits(q, base, "remove", c)

ReleaseOwed ==
  Running => \A c \in Conns :
               state_[c] = "kDisconnected" /\ LoopLives(c)
                 => Released(c, index[c], queue, ioLoop[c], connections_)

\* A connection that is about to be destroyed is not in the map any more, and what
\* the map or a functor knows was made.
DestroyWaits(q, c) == \E l \in Loops : Waits(q, l, "connectDestroyed", c)
Releasing(c, st, ix, q, lc, con, ph) ==
  /\ c \in con \/ DestroyWaits(q, c) \/ Waits(q, base, "remove", c) => st # "none"
  /\ DestroyWaits(q, c) => c \notin con
  /\ st = "kDisconnected" /\ ph[lc] # "done" => Released(c, ix, q, lc, con)

Owed(c) == Releasing(c, state_[c], index[c], queue, ioLoop[c], connections_, phase)
AllOwed == \A c \in Conns : Owed(c)

\* No step follows one that ends the process, and the base loop is not told to quit.
ReleaseInv == Running => base \notin quit_ /\ AllOwed

\* The functors p are those of q with f added to the loop l, ...
Added(q, p, l, f) ==
  \A k \in Loops : \A fn, c :
    Waits(p, k, fn, c) <=> Waits(q, k, fn, c) \/ (k = l /\ f.fn = fn /\ f.conn = c)

\* ... or with f taken from it, ...
Removed(q, p, l, f) ==
  \A k \in Loops : \A fn, c :
    /\ Waits(p, k, fn, c) => Waits(q, k, fn, c)
    /\ Waits(q, k, fn, c) => Waits(p, k, fn, c) \/ (k = l /\ f.fn = fn /\ f.conn = c)

\* ... or the same, as far as destroying and removing the connection c goes.
Alike(q, p, c) ==
  \A k \in Loops : \A fn \in {"connectDestroyed", "remove"} : Waits(p, k, fn, c) <=> Waits(q, k, fn, c)

\* queueInLoop() adds a functor.
LEMMA PushAdds ==
  ASSUME NEW q \in [Loops -> Seq(Functors)], NEW l \in Loops, NEW f \in Functors,
         NEW p, p = Push(q, l, f)
  PROVE  Added(q, p, l, f)
<1>1. /\ \A k \in Loops : k # l => p[k] = q[k]
      /\ Len(q[l]) + 1 \in DOMAIN p[l] /\ p[l][Len(q[l]) + 1] = f
      /\ \A i \in DOMAIN q[l] : i \in DOMAIN p[l] /\ p[l][i] = q[l][i]
  <2>1. q[l] \in Seq(Functors) /\ p[l] = Append(q[l], f) /\ \A k \in Loops : k # l => p[k] = q[k]
    BY DEF Push
  <2> QED
    BY <2>1, AppendProperties, LenProperties, SMTT(30)
<1> SUFFICES ASSUME NEW k \in Loops, NEW fn, NEW c
             PROVE  Waits(p, k, fn, c) <=> Waits(q, k, fn, c) \/ (k = l /\ f.fn = fn /\ f.conn = c)
  BY DEF Added
<1>2. ASSUME Waits(p, k, fn, c) PROVE Waits(q, k, fn, c) \/ (k = l /\ f.fn = fn /\ f.conn = c)
  <2>1. PICK i \in DOMAIN p[k] : p[k][i].fn = fn /\ p[k][i].conn = c
    BY <1>2 DEF Waits
  <2>2. (i \in DOMAIN q[k] /\ p[k][i] = q[k][i]) \/ (k = l /\ p[k][i] = f)
    BY PushFrom, SMT
  <2> QED
    BY <2>1, <2>2 DEF Waits
<1>3. ASSUME Waits(q, k, fn, c) PROVE Waits(p, k, fn, c)
  <2>1. PICK i \in DOMAIN q[k] : q[k][i].fn = fn /\ q[k][i].conn = c
    BY <1>3 DEF Waits
  <2>2. i \in DOMAIN p[k] /\ p[k][i] = q[k][i]
    BY <1>1
  <2> QED
    BY <2>1, <2>2 DEF Waits
<1>4. ASSUME k = l, f.fn = fn, f.conn = c PROVE Waits(p, k, fn, c)
  BY <1>1, <1>4 DEF Waits
<1> QED
  BY <1>2, <1>3, <1>4

\* doPendingFunctors() takes one.
LEMMA PopRemoves ==
  ASSUME NEW q \in [Loops -> Seq(Functors)], NEW l \in Loops, q[l] # <<>>,
         NEW p, p = [q EXCEPT ![l] = Tail(@)], NEW f, f = Head(q[l])
  PROVE  Removed(q, p, l, f) /\ Waits(q, l, f.fn, f.conn)
<1>1. /\ \A k \in Loops : k # l => p[k] = q[k]
      /\ 1 \in DOMAIN q[l] /\ f = q[l][1]
      /\ \A i \in DOMAIN q[l] : i # 1 => i - 1 \in DOMAIN p[l] /\ p[l][i - 1] = q[l][i]
  <2>1. q[l] \in Seq(Functors) /\ p[l] = Tail(q[l]) /\ \A k \in Loops : k # l => p[k] = q[k]
    OBVIOUS
  <2> QED
    BY <2>1, HeadTailProperties, LenProperties, SMTT(30)
<1>5. Waits(q, l, f.fn, f.conn)
  BY <1>1 DEF Waits
<1> SUFFICES ASSUME NEW k \in Loops, NEW fn, NEW c
             PROVE  /\ Waits(p, k, fn, c) => Waits(q, k, fn, c)
                    /\ Waits(q, k, fn, c) =>
                         Waits(p, k, fn, c) \/ (k = l /\ f.fn = fn /\ f.conn = c)
  BY <1>5 DEF Removed
<1>2. ASSUME Waits(p, k, fn, c) PROVE Waits(q, k, fn, c)
  <2>1. PICK i \in DOMAIN p[k] : p[k][i].fn = fn /\ p[k][i].conn = c
    BY <1>2 DEF Waits
  <2>2. PICK j \in DOMAIN q[k] : p[k][i] = q[k][j]
    BY PopFrom, SMT
  <2> QED
    BY <2>1, <2>2 DEF Waits
<1>3. ASSUME Waits(q, k, fn, c) PROVE Waits(p, k, fn, c) \/ (k = l /\ f.fn = fn /\ f.conn = c)
  <2>1. PICK i \in DOMAIN q[k] : q[k][i].fn = fn /\ q[k][i].conn = c
    BY <1>3 DEF Waits
  <2>2. CASE k = l /\ i = 1
    BY <1>1, <2>1, <2>2
  <2>3. CASE k = l /\ i # 1
    BY <1>1, <2>1, <2>3 DEF Waits
  <2>4. CASE k # l
    BY <1>1, <2>1, <2>4 DEF Waits
  <2> QED
    BY <2>2, <2>3, <2>4
<1> QED
  BY <1>2, <1>3

\* Only functors that destroy or remove a connection matter to it.
LEMMA AddedAlike ==
  ASSUME NEW q, NEW p, NEW l, NEW f, NEW c, Added(q, p, l, f) \/ Removed(q, p, l, f),
         f.conn # c \/ f.fn \notin {"connectDestroyed", "remove"}
  PROVE  Alike(q, p, c)
BY DEF Added, Removed, Alike

\* A step that leaves the connection and its functors alone keeps what is known of it.
LEMMA ReleasingFrame ==
  ASSUME NEW c, NEW st, NEW ix, NEW ix2, NEW q, NEW p, NEW lc \in Loops, NEW con, NEW con2,
         NEW ph, NEW ph2,
         Releasing(c, st, ix, q, lc, con, ph), Alike(q, p, c), c \in con2 <=> c \in con,
         ix2 = ix \/ st # "kDisconnected", ph2[lc] # "done" => ph[lc] # "done"
  PROVE  Releasing(c, st, ix2, p, lc, con2, ph2)
<1>1. base \in Loops
  BY DEF Loops
<1>2. /\ \A k \in Loops : Waits(p, k, "connectDestroyed", c) <=> Waits(q, k, "connectDestroyed", c)
      /\ Waits(p, base, "remove", c) <=> Waits(q, base, "remove", c)
  BY <1>1 DEF Alike
<1>3. DestroyWaits(p, c) <=> DestroyWaits(q, c)
  BY <1>2 DEF DestroyWaits
<1> QED
  BY <1>2, <1>3 DEF Releasing, Released
\* A step that does nothing to c, other than to the channel of one that is not closed.
LEMMA Unmoved ==
  ASSUME IInv, NEW c \in Conns, Owed(c), Alike(queue, queue', c),
         state_'[c] = state_[c], index'[c] = index[c] \/ state_[c] # "kDisconnected",
         ioLoop'[c] = ioLoop[c], c \in connections_' <=> c \in connections_,
         phase'[ioLoop[c]] # "done" => phase[ioLoop[c]] # "done"
  PROVE  Owed(c)'
<1>1. PICK q, st, ix, lc, con, ph :
        /\ q = queue /\ st = state_[c] /\ ix = index[c] /\ lc = ioLoop[c] /\ lc \in Loops
        /\ con = connections_ /\ ph = phase
  BY TrackTypes
<1>2. PICK p, ix2, con2, ph2 : p = queue' /\ ix2 = index'[c] /\ con2 = connections_' /\ ph2 = phase'
  OBVIOUS
<1>3. Releasing(c, st, ix, q, lc, con, ph)
  BY <1>1 DEF Owed
<1>4. Releasing(c, st, ix2, p, lc, con2, ph2)
  BY <1>1, <1>2, <1>3, ReleasingFrame
<1> QED
  BY <1>1, <1>2, <1>4 DEF Owed

\* The functors of c may stay alike in two steps.
LEMMA AlikeTwice ==
  ASSUME NEW q, NEW r, NEW p, NEW c, Alike(q, r, c), Alike(r, p, c)
  PROVE  Alike(q, p, c)
BY DEF Alike

\* The loop l runs the functor f and keeps the functors q.
Drawn(l, f, q) ==
  /\ f = Head(queue[l]) /\ q = Pop(l) /\ f \in Functors /\ q \in [Loops -> Seq(Functors)]
  /\ f.fn = "remove" => l = base
  /\ Removed(queue, q, l, f) /\ Waits(queue, l, f.fn, f.conn)

\* What a loop takes from its queue was waiting there.
LEMMA DrawNext ==
  ASSUME IInv, NEW l \in Loops, Runs(l)
  PROVE  \E f, q : Drawn(l, f, q)
<1>1. PICK f, q : f = Head(queue[l]) /\ q = Pop(l) /\ Taken(l, f, q)
  BY TakeNext
<1>2. PICK p, b : p = queue /\ b = batch
  OBVIOUS
<1>3. /\ QueueOK(p, b) /\ p \in [Loops -> Seq(Functors)] /\ q = [p EXCEPT ![l] = Tail(@)]
      /\ f = Head(p[l]) /\ batch[l] > 0 /\ batch' = [batch EXCEPT ![l] = @ - 1]
  BY <1>1, <1>2 DEF IInv, TypeOK, QueueOK, Pop, Runs
<1>4. p[l] # <<>>
  BY <1>2, <1>3, PopQueue
<1>5. Removed(p, q, l, f) /\ Waits(p, l, f.fn, f.conn)
  BY <1>3, <1>4, PopRemoves
<1> QED
  BY <1>1, <1>2, <1>5 DEF Drawn, Taken, QueueOK

\* A closed connection is owed connectDestroyed() as soon as it is known where.
LEMMA OwedEnd ==
  ASSUME NEW c, NEW st, NEW ix, NEW q, NEW lc, NEW con, NEW ph, st # "none",
         DestroyWaits(q, c) => c \notin con, st = "kDisconnected" => Released(c, ix, q, lc, con)
  PROVE  Releasing(c, st, ix, q, lc, con, ph)
BY DEF Releasing
\* handleClose() of d queues what releases it, or fails the assertion.
LEMMA CloseOwes ==
  ASSUME IInv, AllOwed, NEW d \in Conns, NEW l \in Loops, NEW q \in [Loops -> Seq(Functors)],
         \A c \in Conns : Alike(queue, q, c), HandleClose(d, q, l), Running',
         UNCHANGED <<ioLoop, phase>>
  PROVE  AllOwed'
<1>1. /\ state_' = [state_ EXCEPT ![d] = "kDisconnected"]
      /\ index' = [index EXCEPT ![d] = IndexWhenDisabled(d)]
  BY DEF HandleClose, Disabled
<1>2. /\ ioLoop \in [Conns -> Loops] /\ ioLoop[d] \in Loops /\ base \in Loops
      /\ state_ \in [Conns -> {"none", "kConnecting"} \cup Known]
      /\ index \in [Conns -> {"kNew", "kAdded", "kDeleted"}]
  BY TrackTypes DEF Loops
<1>3. PICK k \in Loops, g \in Functors :
        /\ queue' = Push(q, k, g) /\ g.conn = d
        /\ \/ g.fn = "connectDestroyed" /\ k = ioLoop[d] /\ connections_' = connections_ \ {d}
           \/ g.fn = "remove" /\ k = base /\ connections_' = connections_
  <2>1. CASE RemoveConnectionInLoop(d, q)
    <3>1. PICK g \in Functors : g = Functor("connectDestroyed", d, FALSE)
      BY DEF Functors, Functor
    <3>2. g.conn = d /\ g.fn = "connectDestroyed"
      BY <3>1 DEF Functor
    <3> QED
      BY <1>2, <2>1, <3>1, <3>2 DEF RemoveConnectionInLoop
  <2>2. CASE queue' = Push(q, base, Functor("remove", d, FALSE)) /\ UNCHANGED serverVars
    <3>1. PICK g \in Functors : g = Functor("remove", d, FALSE)
      BY DEF Functors, Functor
    <3>2. g.conn = d /\ g.fn = "remove"
      BY <3>1 DEF Functor
    <3> QED
      BY <1>2, <2>2, <3>1, <3>2 DEF serverVars
  <2> QED
    BY <2>1, <2>2 DEF HandleClose, Running
<1>4. PICK p : p = queue'
  OBVIOUS
<1>5. Added(q, p, k, g)
  BY <1>3, <1>4, PushAdds
<1>6. ASSUME NEW c \in Conns, c # d PROVE Owed(c)'
  <2>1. Alike(q, p, c)
    BY <1>3, <1>5, <1>6, AddedAlike
  <2>2. Alike(queue, queue', c)
    BY <1>4, <2>1, AlikeTwice
  <2>3. /\ Owed(c) /\ state_'[c] = state_[c] /\ index'[c] = index[c]
        /\ c \in connections_' <=> c \in connections_
    BY <1>1, <1>2, <1>3, <1>6 DEF AllOwed
  <2> QED
    BY <2>2, <2>3, Unmoved
<1>7. Owed(d)'
  <2>1. Waits(p, k, g.fn, d)
    BY <1>3, <1>5 DEF Added
  <2>2. PICK con, con2 : con = connections_ /\ con2 = connections_'
    OBVIOUS
  <2>3. DestroyWaits(queue, d) => d \notin con
    BY <2>2 DEF AllOwed, Owed, Releasing
  <2>4. DestroyWaits(q, d) => DestroyWaits(queue, d)
    BY DEF Alike, DestroyWaits
  <2>5. ASSUME g.fn = "remove", DestroyWaits(p, d) PROVE DestroyWaits(q, d)
    <3>1. PICK m \in Loops : Waits(p, m, "connectDestroyed", d)
      BY <2>5 DEF DestroyWaits
    <3>2. Waits(q, m, "connectDestroyed", d)
      BY <1>5, <2>5, <3>1 DEF Added
    <3> QED
      BY <3>2 DEF DestroyWaits
  <2>6. DestroyWaits(p, d) => d \notin con2
    BY <1>3, <2>2, <2>3, <2>4, <2>5
  <2>7. PICK lc, ix2, ph : lc = ioLoop[d] /\ ix2 = index'[d] /\ ph = phase
    OBVIOUS
  <2>8. Released(d, ix2, p, lc, con2)
    BY <1>3, <2>1, <2>7 DEF Released
  <2>9. Releasing(d, "kDisconnected", ix2, p, lc, con2, ph)
    BY <2>6, <2>8, OwedEnd
  <2> QED
    BY <1>1, <1>2, <1>4, <2>2, <2>7, <2>9 DEF Owed
<1> QED
  BY <1>6, <1>7 DEF AllOwed

\* removeConnectionInLoop() as a functor of d.
LEMMA RemoveOwes ==
  ASSUME IInv, AllOwed, NEW l \in Loops, NEW f, NEW q, Drawn(l, f, q), f.fn = "remove",
         NEW d \in Conns, d = f.conn, RemoveConnectionInLoop(d, q),
         UNCHANGED <<state_, index, ioLoop, phase>>
  PROVE  AllOwed'
<1>1. ioLoop \in [Conns -> Loops] /\ ioLoop[d] \in Loops
  BY TrackTypes
<1>2. PICK g \in Functors : g = Functor("connectDestroyed", d, FALSE)
  BY DEF Functors, Functor
<1>3. g.conn = d /\ g.fn = "connectDestroyed"
  BY <1>2 DEF Functor
<1>4. PICK p, k : p = queue' /\ k = ioLoop[d] /\ k \in Loops
  BY <1>1
<1>5. p = Push(q, k, g) /\ connections_' = connections_ \ {d} /\ q \in [Loops -> Seq(Functors)]
  BY <1>2, <1>4 DEF RemoveConnectionInLoop, Drawn
<1>6. Added(q, p, k, g)
  BY <1>4, <1>5, PushAdds
<1>7. ASSUME NEW c \in Conns, c # d PROVE Owed(c)'
  <2>1. Alike(q, p, c)
    BY <1>3, <1>6, <1>7, AddedAlike
  <2>2. PICK q0 : q0 = queue
    OBVIOUS
  <2>3. Removed(q0, q, l, f) /\ f.conn # c
    BY <1>7, <2>2 DEF Drawn
  <2>4. Alike(q0, q, c)
    BY <2>3, AddedAlike
  <2>5. Alike(queue, queue', c)
    BY <1>4, <2>1, <2>2, <2>4, AlikeTwice
  <2>6. Owed(c) /\ (c \in connections_' <=> c \in connections_)
    BY <1>5, <1>7 DEF AllOwed
  <2> QED
    BY <2>5, <2>6, Unmoved
<1>8. Owed(d)'
  <2>1. Waits(p, k, "connectDestroyed", d)
    BY <1>3, <1>4, <1>6 DEF Added
  <2>2. state_[d] # "none"
    <3>1. Waits(queue, base, "remove", d)
      BY DEF Drawn
    <3> QED
      BY <3>1 DEF AllOwed, Owed, Releasing
  <2>3. PICK st, ix, con2, ph : st = state_[d] /\ ix = index[d] /\ con2 = connections_' /\ ph = phase
    OBVIOUS
  <2>4. d \notin con2 /\ st # "none"
    BY <1>5, <2>2, <2>3
  <2>5. Released(d, ix, p, k, con2)
    BY <2>1 DEF Released
  <2>6. Releasing(d, st, ix, p, k, con2, ph)
    BY <2>4, <2>5, OwedEnd
  <2> QED
    BY <1>4, <2>3, <2>6 DEF Owed
<1> QED
  BY <1>7, <1>8 DEF AllOwed

\* connectDestroyed() of d, which has left the map; q are the functors left.
LEMMA DestroyedOwes ==
  ASSUME IInv, AllOwed, NEW d \in Conns, ConnectDestroyed(d), state_[d] # "none",
         connections_' \in {connections_, connections_ \ {d}}, d \notin connections_',
         \A c \in Conns : c # d => Alike(queue, queue', c), UNCHANGED <<ioLoop, phase>>
  PROVE  AllOwed'
<1>1. /\ state_ \in [Conns -> {"none", "kConnecting"} \cup Known]
      /\ index \in [Conns -> {"kNew", "kAdded", "kDeleted"}]
  BY TrackTypes
<1>2. /\ state_' = state_ \/ state_' = [state_ EXCEPT ![d] = "kDisconnected"]
      /\ index' = [index EXCEPT ![d] = "kNew"]
  BY DEF ConnectDestroyed
<1>3. ASSUME NEW c \in Conns, c # d PROVE Owed(c)'
  <2>1. /\ Owed(c) /\ state_'[c] = state_[c] /\ index'[c] = index[c] /\ Alike(queue, queue', c)
        /\ c \in connections_' <=> c \in connections_
    BY <1>1, <1>2, <1>3 DEF AllOwed
  <2> QED
    BY <2>1, Unmoved
<1>4. Owed(d)'
  <2>1. state_'[d] # "none" /\ index'[d] = "kNew"
    BY <1>1, <1>2
  <2> QED
    BY <2>1 DEF Owed, Releasing, Released
<1> QED
  BY <1>3, <1>4 DEF AllOwed
\* The functors that hold a TcpConnectionPtr.
LEMMA OwningOwes ==
  ASSUME IInv, AllOwed, NEW l \in Loops, RunOwning(l)
  PROVE  AllOwed'
<1>1. Runs(l) /\ UNCHANGED <<ioLoop, phase>>
  BY DEF RunOwning, Runs
<1>2. PICK f, q : Drawn(l, f, q)
  BY <1>1, DrawNext
<1>3. PICK d \in Conns : d = f.conn
  BY <1>2 DEF Drawn, Functors
<1>4. \/ /\ f.fn = "connectEstablished" /\ ConnectEstablished(d) /\ queue' = q
         /\ connections_' = connections_
      \/ f.fn = "remove" /\ RemoveConnectionInLoop(d, q) /\ UNCHANGED <<state_, index>>
      \/ /\ f.fn = "connectDestroyed" /\ ConnectDestroyed(d) /\ queue' = q
         /\ connections_' = connections_
  BY <1>2, <1>3 DEF RunOwning, Drawn, serverVars, connVars
<1>5. PICK q0 : q0 = queue
  OBVIOUS
<1>6. Removed(q0, q, l, f) /\ Waits(queue, l, f.fn, d)
  BY <1>2, <1>3, <1>5 DEF Drawn
<1>7. ASSUME NEW c \in Conns, c # d \/ f.fn = "connectEstablished" PROVE Alike(queue, q, c)
  <2>1. f.conn # c \/ f.fn \notin {"connectDestroyed", "remove"}
    BY <1>3, <1>7
  <2> QED
    BY <1>5, <1>6, <2>1, AddedAlike
<1>8. CASE /\ f.fn = "connectEstablished" /\ ConnectEstablished(d) /\ queue' = q
           /\ connections_' = connections_
  <2>1. /\ state_ \in [Conns -> {"none", "kConnecting"} \cup Known]
        /\ index \in [Conns -> {"kNew", "kAdded", "kDeleted"}]
        /\ state_' = [state_ EXCEPT ![d] = "kConnected"] /\ index' = [index EXCEPT ![d] = "kAdded"]
    BY <1>8, TrackTypes DEF ConnectEstablished
  <2>2. ASSUME NEW c \in Conns, c # d PROVE Owed(c)'
    <3>1. /\ Owed(c) /\ state_'[c] = state_[c] /\ index'[c] = index[c] /\ Alike(queue, queue', c)
      BY <1>7, <1>8, <2>1, <2>2 DEF AllOwed
    <3> QED
      BY <1>1, <1>8, <3>1, Unmoved
  <2>3. Owed(d)'
    <3>1. DestroyWaits(queue', d) => DestroyWaits(queue, d)
      BY <1>7, <1>8 DEF Alike, DestroyWaits
    <3>2. DestroyWaits(queue, d) => d \notin connections_
      BY DEF AllOwed, Owed, Releasing
    <3>3. state_'[d] = "kConnected"
      BY <2>1
    <3> QED
      BY <1>8, <3>1, <3>2, <3>3 DEF Owed, Releasing
  <2> QED
    BY <2>2, <2>3 DEF AllOwed
<1>9. CASE f.fn = "remove" /\ RemoveConnectionInLoop(d, q) /\ UNCHANGED <<state_, index>>
  BY <1>1, <1>2, <1>3, <1>9, RemoveOwes
<1>10. CASE /\ f.fn = "connectDestroyed" /\ ConnectDestroyed(d) /\ queue' = q
            /\ connections_' = connections_
  <2>1. DestroyWaits(queue, d)
    BY <1>6, <1>10 DEF DestroyWaits
  <2>2. state_[d] # "none" /\ d \notin connections_
    BY <2>1 DEF AllOwed, Owed, Releasing
  <2> QED
    BY <1>1, <1>7, <1>10, <2>2, DestroyedOwes
<1> QED
  BY <1>4, <1>8, <1>9, <1>10

\* A step that changes no connection and no map.
LEMMA OthersOwe ==
  ASSUME IInv, AllOwed, UNCHANGED <<state_, ioLoop, connections_>>,
         \A c \in Conns : Alike(queue, queue', c),
         \A c \in Conns : index'[c] = index[c] \/ state_[c] # "kDisconnected",
         \A l \in Loops : phase'[l] # "done" => phase[l] # "done"
  PROVE  AllOwed'
<1> SUFFICES ASSUME NEW c \in Conns PROVE Owed(c)'
  BY DEF AllOwed
<1>1. Owed(c) /\ ioLoop[c] \in Loops
  BY TrackTypes DEF AllOwed
<1> QED
  BY <1>1, Unmoved

\* The functors with a plain `this'.
LEMMA RawOwes ==
  ASSUME IInv, AllOwed, NEW l \in Loops, RunRaw(l), Running'
  PROVE  AllOwed'
<1>1. Runs(l) /\ UNCHANGED <<ioLoop, phase>>
  BY DEF RunRaw, Runs
<1>2. PICK f, q : Drawn(l, f, q)
  BY <1>1, DrawNext
<1>3. PICK d \in Conns : d = f.conn
  BY <1>2 DEF Drawn, Functors
<1>4. /\ f.fn \in CallNames /\ q \in [Loops -> Seq(Functors)]
      /\ \/ HandleClose(d, q, l)
         \/ /\ queue' = q /\ UNCHANGED <<state_, connections_>>
            /\ index' = index \/ (state_[d] # "kDisconnected" /\ index' = [index EXCEPT ![d] = "kAdded"])
  BY <1>2, <1>3 DEF RunRaw, Drawn, connVars, serverVars, CallNames
<1>5. ASSUME NEW c \in Conns PROVE Alike(queue, q, c)
  <2>1. PICK q0 : q0 = queue
    OBVIOUS
  <2>2. Removed(q0, q, l, f) /\ f.fn \notin {"connectDestroyed", "remove"}
    BY <1>2, <1>4, <2>1 DEF Drawn, CallNames
  <2> QED
    BY <2>1, <2>2, AddedAlike
<1>6. CASE HandleClose(d, q, l)
  BY <1>1, <1>4, <1>5, <1>6, CloseOwes
<1>7. CASE /\ queue' = q /\ UNCHANGED <<state_, connections_>>
           /\ index' = index \/ (state_[d] # "kDisconnected" /\ index' = [index EXCEPT ![d] = "kAdded"])
  <2>1. \A c \in Conns : index'[c] = index[c] \/ state_[c] # "kDisconnected"
    BY <1>7, TrackTypes
  <2> QED
    BY <1>1, <1>5, <1>7, <2>1, OthersOwe
<1> QED
  BY <1>4, <1>6, <1>7
\* A loop that quits drops its functors and is not the base loop: the connections
\* of the loops that run lose none.
LEMMA EndOwes ==
  ASSUME IInv, TrackInv, AllOwed, base \notin quit_, NEW l \in Loops, EndBatch(l)
  PROVE  AllOwed'
<1>1. /\ phase[l] = "run" /\ phase' = [phase EXCEPT ![l] = IF l \in quit_ THEN "done" ELSE "poll"]
      /\ queue' = IF l \in quit_ THEN [queue EXCEPT ![l] = <<>>] ELSE queue
      /\ UNCHANGED <<state_, index, ioLoop, connections_>>
  BY DEF EndBatch, Quits, serverVars, connVars
<1>2. /\ queue \in [Loops -> Seq(Functors)] /\ ioLoop \in [Conns -> Loops] /\ base \in Loops
      /\ phase \in [Loops -> {"poll", "run", "done"}]
  BY TrackTypes DEF Loops, TrackInv
<1>3. CASE l \notin quit_
  <2>1. \A c \in Conns : Alike(queue, queue', c)
    BY <1>1, <1>3 DEF Alike
  <2>2. \A k \in Loops : phase'[k] # "done" => phase[k] # "done"
    <3> SUFFICES ASSUME NEW k \in Loops, phase[k] = "done" PROVE phase'[k] = "done"
      OBVIOUS
    <3> QED
      BY <1>1, <1>2
  <2> QED
    BY <1>1, <2>1, <2>2, OthersOwe
<1>4. CASE l \in quit_
  <2>1. l # base /\ queue' = [queue EXCEPT ![l] = <<>>] /\ phase' = [phase EXCEPT ![l] = "done"]
    BY <1>1, <1>4
  <2>2. PICK p, q : p = queue' /\ q = queue
    OBVIOUS
  <2>3. \A k \in Loops : \A fn, c : /\ Waits(p, k, fn, c) => Waits(q, k, fn, c)
                                    /\ k # l => (Waits(q, k, fn, c) => Waits(p, k, fn, c))
    <3>1. p[l] = <<>> /\ \A k \in Loops : k # l => p[k] = q[k]
      BY <1>2, <2>1, <2>2
    <3>2. DOMAIN <<>> = {}
      BY SMT
    <3> QED
      BY <3>1, <3>2 DEF Waits
  <2> SUFFICES ASSUME NEW c \in Conns PROVE Owed(c)'
    BY DEF AllOwed
  <2>4. PICK st, ix, lc, con, ph : /\ st = state_[c] /\ ix = index[c] /\ lc = ioLoop[c] /\ lc \in Loops
                                   /\ con = connections_ /\ ph = phase
    BY <1>2
  <2>5. Releasing(c, st, ix, q, lc, con, ph)
    BY <2>2, <2>4 DEF AllOwed, Owed
  <2>6. PICK ph2 : ph2 = phase'
    OBVIOUS
  <2>7. DestroyWaits(p, c) => DestroyWaits(q, c)
    BY <2>3 DEF DestroyWaits
  <2>8. c \in con \/ DestroyWaits(p, c) \/ Waits(p, base, "remove", c) => st # "none"
    BY <1>2, <2>3, <2>5, <2>7 DEF Releasing
  <2>9. ASSUME st = "kDisconnected", ph2[lc] # "done" PROVE Released(c, ix, p, lc, con)
    <3>1. lc # l /\ ph[lc] # "done"
      BY <1>2, <2>1, <2>4, <2>6, <2>9
    <3>2. Released(c, ix, q, lc, con)
      BY <2>5, <2>9, <3>1 DEF Releasing
    <3> QED
      BY <1>2, <2>1, <2>3, <2>4, <3>1, <3>2 DEF Released
  <2>10. Releasing(c, st, ix, p, lc, con, ph2)
    BY <2>5, <2>7, <2>8, <2>9 DEF Releasing
  <2> QED
    BY <1>1, <2>2, <2>4, <2>6, <2>10 DEF Owed
<1> QED
  BY <1>3, <1>4

\* The steps of a loop.
LEMMA LoopOwes ==
  ASSUME IInv, TrackInv, AllOwed, base \notin quit_, NEW l \in Loops, LoopStep(l), Running'
  PROVE  AllOwed'
<1>1. CASE Swap(l)
  <2>1. /\ phase[l] = "poll" /\ phase' = [phase EXCEPT ![l] = "run"]
        /\ UNCHANGED <<state_, index, ioLoop, connections_, queue>>
    BY <1>1 DEF Swap, serverVars, connVars
  <2>2. \A c \in Conns : Alike(queue, queue', c)
    BY <2>1 DEF Alike
  <2>3. ASSUME NEW k \in Loops, phase[k] = "done" PROVE phase'[k] = "done"
    BY <2>1, <2>3 DEF TrackInv
  <2> QED
    BY <2>1, <2>2, <2>3, OthersOwe
<1>2. ~RunStray(l)
  BY DEF RunStray, Running
<1> QED
  BY <1>1, <1>2, EndOwes, OwningOwes, RawOwes DEF LoopStep
\* newConnection() of d: no functor knows d yet.
LEMMA AcceptOwes ==
  ASSUME IInv, AllOwed, NEW d \in Conns, NEW l \in IoLoops, NewConnection(d, l), UNCHANGED phase
  PROVE  AllOwed'
<1>1. /\ state_[d] = "none" /\ connections_' = connections_ \cup {d}
      /\ ioLoop' = [ioLoop EXCEPT ![d] = l]
  BY DEF NewConnection
<1>2. /\ queue \in [Loops -> Seq(Functors)] /\ ioLoop \in [Conns -> Loops] /\ l \in Loops
      /\ state_ \in [Conns -> {"none", "kConnecting"} \cup Known]
      /\ index \in [Conns -> {"kNew", "kAdded", "kDeleted"}]
  BY TrackTypes DEF Loops
<1>3. /\ \A c \in Conns : c # d => state_'[c] = state_[c] /\ index'[c] = index[c]
      /\ state_'[d] \in {"kConnected", "kConnecting"}
  <2>1. CASE l = base
    BY <1>2, <2>1 DEF NewConnection, ConnectEstablished
  <2>2. CASE l # base
    BY <1>2, <2>2 DEF NewConnection
  <2> QED
    BY <2>1, <2>2
<1>4. ASSUME NEW c \in Conns PROVE Alike(queue, queue', c)
  <2>1. CASE l = base
    BY <2>1 DEF NewConnection, Alike
  <2>2. CASE l # base
    <3>1. PICK g \in Functors : g = Functor("connectEstablished", d, FALSE)
      BY DEF Functors, Functor
    <3>2. g.fn \notin {"connectDestroyed", "remove"}
      BY <3>1 DEF Functor
    <3>3. PICK q, p : q = queue /\ p = queue'
      OBVIOUS
    <3>4. p = Push(q, l, g) /\ q \in [Loops -> Seq(Functors)]
      BY <1>2, <2>2, <3>1, <3>3 DEF NewConnection
    <3>5. Added(q, p, l, g)
      BY <1>2, <3>4, PushAdds
    <3>6. Alike(q, p, c)
      BY <3>2, <3>5, AddedAlike
    <3> QED
      BY <3>3, <3>6
  <2> QED
    BY <2>1, <2>2
<1>5. ASSUME NEW c \in Conns, c # d PROVE Owed(c)'
  <2>1. /\ Owed(c) /\ state_'[c] = state_[c] /\ index'[c] = index[c] /\ Alike(queue, queue', c)
        /\ ioLoop'[c] = ioLoop[c] /\ (c \in connections_' <=> c \in connections_)
    BY <1>1, <1>2, <1>3, <1>4, <1>5 DEF AllOwed
  <2> QED
    BY <2>1, Unmoved
<1>6. Owed(d)'
  <2>1. ~DestroyWaits(queue, d)
    BY <1>1 DEF AllOwed, Owed, Releasing
  <2>2. ~DestroyWaits(queue', d)
    BY <1>4, <2>1 DEF Alike, DestroyWaits
  <2> QED
    BY <1>3, <2>2 DEF Owed, Releasing
<1> QED
  BY <1>5, <1>6 DEF AllOwed

\* shutdown() or forceClose() sets the state of d, which is not closed then.
LEMMA DisconnectingOwes ==
  ASSUME IInv, AllOwed, NEW d \in Conns, state_' = [state_ EXCEPT ![d] = "kDisconnecting"],
         UNCHANGED <<index, ioLoop, connections_, queue, phase>>
  PROVE  AllOwed'
<1>1. state_ \in [Conns -> {"none", "kConnecting"} \cup Known]
  BY TrackTypes
<1>2. ASSUME NEW c \in Conns, c # d PROVE Owed(c)'
  <2>1. Owed(c) /\ state_'[c] = state_[c] /\ Alike(queue, queue', c)
    BY <1>1, <1>2 DEF AllOwed, Alike
  <2> QED
    BY <2>1, Unmoved
<1>3. Owed(d)'
  <2>1. DestroyWaits(queue, d) => d \notin connections_
    BY DEF AllOwed, Owed, Releasing
  <2>2. state_'[d] = "kDisconnecting"
    BY <1>1
  <2>3. DestroyWaits(queue', d) = DestroyWaits(queue, d)
    BY DEF DestroyWaits, Waits
  <2> QED
    BY <2>1, <2>2, <2>3 DEF Owed, Releasing
<1> QED
  BY <1>2, <1>3 DEF AllOwed

\* The handlers of a loop.
LEMMA EventOwes ==
  ASSUME IInv, AllOwed, NEW d \in Conns, Event(d), Running'
  PROVE  AllOwed'
<1>1. phase' = phase
  BY DEF Event, loopVars
<1>2. CASE HandleReadEof(d) \/ HandleHangup(d) \/ MessageForceClose(d)
  <2>1. HandleClose(d, queue, ioLoop[d]) /\ ioLoop' = ioLoop
    BY <1>2 DEF HandleReadEof, HandleHangup, MessageForceClose
  <2>2. PICK q, l : q = queue /\ l = ioLoop[d]
    OBVIOUS
  <2>3. /\ HandleClose(d, q, l) /\ l \in Loops /\ q \in [Loops -> Seq(Functors)]
        /\ \A c \in Conns : Alike(queue, q, c)
    BY <2>1, <2>2, TrackTypes DEF Alike
  <2> QED
    BY <1>1, <2>1, <2>3, CloseOwes
<1>3. CASE MessageShutdown(d)
  BY <1>1, <1>3, DisconnectingOwes DEF MessageShutdown, serverVars
<1>4. CASE Accept(d)
  BY <1>1, <1>4, AcceptOwes DEF Accept
<1> QED
  BY <1>2, <1>3, <1>4 DEF Event
\* The calls of other threads queue no functor that destroys or removes.
LEMMA ThreadOwes ==
  ASSUME IInv, AllOwed, NEW t \in Threads, ThreadStep(t)
  PROVE  AllOwed'
<1>1. phase' = phase
  BY DEF ThreadStep, loopVars
<1>2. \A u \in Threads : tpc[u].at # "idle" => tpc[u].conn \in Conns /\ tpc[u].call \in Calls
  BY DEF IInv, TypeOK, ThreadsOK
<1>3. CASE \E c \in Conns : DropRef(t, c) \/ \E call \in Calls : Test(t, c, call)
  <2>1. UNCHANGED <<state_, index, ioLoop, connections_, queue>>
    BY <1>3 DEF DropRef, Test, serverVars, connVars
  <2>2. \A c \in Conns : Alike(queue, queue', c)
    BY <2>1 DEF Alike
  <2> QED
    BY <1>1, <2>1, <2>2, OthersOwe
<1>4. CASE SetDisconnecting(t)
  <2>1. PICK d \in Conns : d = tpc[t].conn
    BY <1>2, <1>4 DEF SetDisconnecting
  <2>2. /\ state_' = [state_ EXCEPT ![d] = "kDisconnecting"]
        /\ UNCHANGED <<index, ioLoop, connections_, queue>>
    BY <1>4, <2>1 DEF SetDisconnecting, serverVars
  <2> QED
    BY <1>1, <2>2, DisconnectingOwes
<1>5. CASE QueueFunctor(t)
  <2>1. PICK d \in Conns : d = tpc[t].conn
    BY <1>2, <1>5 DEF QueueFunctor
  <2>2. tpc[t].call \in CallNames
    BY <1>2, <1>5, ServerAssumption DEF CallNames, QueueFunctor
  <2>3. PICK f \in Functors : f = Functor(tpc[t].call, d, TRUE)
    BY <2>2 DEF Functors, Functor
  <2>4. f.fn \notin {"connectDestroyed", "remove"}
    BY <2>2, <2>3 DEF Functor, CallNames
  <2>5. queue' = Push(queue, ioLoop[d], f) /\ UNCHANGED <<state_, index, ioLoop, connections_>>
    BY <1>5, <2>1, <2>3 DEF QueueFunctor, serverVars, connVars
  <2>6. PICK q, p, ld : q = queue /\ p = queue' /\ ld = ioLoop[d]
    OBVIOUS
  <2>7. q \in [Loops -> Seq(Functors)] /\ ld \in Loops /\ p = Push(q, ld, f)
    BY <2>5, <2>6, TrackTypes
  <2>8. Added(q, p, ld, f)
    BY <2>7, PushAdds
  <2>9. \A c \in Conns : Alike(q, p, c)
    BY <2>4, <2>8, AddedAlike
  <2>10. \A c \in Conns : Alike(queue, queue', c)
    BY <2>6, <2>9
  <2> QED
    BY <1>1, <2>5, <2>10, OthersOwe
<1> QED
  BY <1>3, <1>4, <1>5 DEF ThreadStep

\* One round of the loop of ~TcpServer() takes d from the map.
LEMMA DtorOwes ==
  ASSUME IInv, AllOwed, NEW d \in Conns, DtorConn(d)
  PROVE  AllOwed'
<1>1. /\ d \in connections_ /\ connections_' = connections_ \ {d} /\ UNCHANGED <<ioLoop, phase>>
  BY DEF DtorConn, loopVars
<1>2. /\ queue \in [Loops -> Seq(Functors)] /\ ioLoop \in [Conns -> Loops] /\ ioLoop[d] \in Loops
  BY TrackTypes
<1>3. state_[d] # "none"
  BY <1>1 DEF AllOwed, Owed, Releasing
<1>4. CASE ioLoop[d] = base
  <2>1. ConnectDestroyed(d) /\ \A c \in Conns : Alike(queue, queue', c)
    BY <1>4 DEF DtorConn, Alike
  <2> QED
    BY <1>1, <1>3, <2>1, DestroyedOwes
<1>5. CASE ioLoop[d] # base
  <2>1. PICK g \in Functors : g = DtorFunctor(d)
    BY DEF Functors, Functor, DtorFunctor
  <2>2. g.fn = "connectDestroyed" /\ g.conn = d
    BY <2>1 DEF Functor, DtorFunctor
  <2>3. queue' = Push(queue, ioLoop[d], g) /\ UNCHANGED <<state_, index>>
    BY <1>5, <2>1 DEF DtorConn, connVars
  <2>4. PICK q, p, k : q = queue /\ p = queue' /\ k = ioLoop[d]
    OBVIOUS
  <2>5. q \in [Loops -> Seq(Functors)] /\ k \in Loops /\ p = Push(q, k, g)
    BY <1>2, <2>3, <2>4
  <2>6. Added(q, p, k, g)
    BY <2>5, PushAdds
  <2>7. ASSUME NEW c \in Conns, c # d PROVE Owed(c)'
    <3>1. Alike(q, p, c)
      BY <2>2, <2>6, <2>7, AddedAlike
    <3>2. Owed(c) /\ Alike(queue, queue', c) /\ (c \in connections_' <=> c \in connections_)
      BY <1>1, <2>4, <2>7, <3>1 DEF AllOwed
    <3> QED
      BY <1>1, <2>3, <3>2, Unmoved
  <2>8. Owed(d)'
    <3>1. Waits(p, k, "connectDestroyed", d)
      BY <2>2, <2>5, <2>6 DEF Added
    <3>2. PICK st, ix, con2, ph : st = state_[d] /\ ix = index[d] /\ con2 = connections_' /\ ph = phase
      OBVIOUS
    <3>3. d \notin con2 /\ st # "none"
      BY <1>1, <1>3, <3>2
    <3>4. Released(d, ix, p, k, con2)
      BY <3>1 DEF Released
    <3>5. Releasing(d, st, ix, p, k, con2, ph)
      BY <3>3, <3>4, OwedEnd
    <3> QED
      BY <1>1, <2>3, <2>4, <3>2, <3>5 DEF Owed
  <2> QED
    BY <2>7, <2>8 DEF AllOwed
<1> QED
  BY <1>4, <1>5

\* Every step keeps what closed connections are owed.
LEMMA NextOwes == IInv /\ TrackInv /\ ReleaseInv /\ [Next]_vars => ReleaseInv'
<1> SUFFICES ASSUME IInv, TrackInv, ReleaseInv, [Next]_vars, Running' PROVE base \notin quit_' /\ AllOwed'
  BY DEF ReleaseInv
<1>1. CASE UNCHANGED vars
  <2>1. /\ UNCHANGED <<state_, index, ioLoop, connections_, queue, phase, quit_, missed, stray>>
    BY <1>1 DEF vars, serverVars, connVars, loopVars
  <2>2. AllOwed /\ base \notin quit_
    BY <2>1 DEF ReleaseInv, Running
  <2>3. \A c \in Conns : Alike(queue, queue', c)
    BY <2>1 DEF Alike
  <2> QED
    BY <2>1, <2>2, <2>3, OthersOwe
<1>2. CASE Next
  <2>1. AllOwed /\ base \notin quit_
    BY <1>2 DEF Next, Event, LoopStep, ThreadStep, DtorStep, ReleaseInv
  <2>2. base \notin quit_'
    <3>1. quit_' = quit_ \/ \E l \in IoLoops \ {base} : DtorQuit(l)
      BY <1>2 DEF Next, Event, LoopStep, Swap, RunOwning, RunRaw, RunStray, EndBatch, Runs, ThreadStep,
                  Start, Destroy, DtorStep, DtorConn, DtorEnd, loopVars
    <3> QED
      BY <2>1, <3>1 DEF DtorQuit
  <2>3. CASE Start \/ Destroy \/ (\E l \in IoLoops \ {base} : DtorQuit(l)) \/ DtorEnd
    <3>1. UNCHANGED <<state_, index, ioLoop, connections_, queue, phase>>
      BY <2>3 DEF Start, Destroy, DtorQuit, DtorEnd, serverVars, connVars
    <3>2. \A c \in Conns : Alike(queue, queue', c)
      BY <3>1 DEF Alike
    <3> QED
      BY <2>1, <2>2, <3>1, <3>2, OthersOwe
  <2>4. CASE \E c \in Conns : DtorConn(c)
    BY <2>1, <2>2, <2>4, DtorOwes
  <2> QED
    BY <1>2, <2>1, <2>2, <2>3, <2>4, EventOwes, LoopOwes, ThreadOwes DEF Next, DtorStep
<1> QED
  BY <1>1, <1>2

\* A closed connection is never forgotten: until it has left the map and epoll, a
\* functor that takes it there is queued in a loop that runs, whatever the order of
\* handleClose(), the calls of other threads and ~TcpServer().
THEOREM ClosedNotForgotten == Spec => []ReleaseOwed
<1>1. Init => ReleaseInv
  <2> SUFFICES ASSUME Init PROVE base \notin quit_ /\ AllOwed
    BY DEF ReleaseInv
  <2>1. base \notin quit_ /\ connections_ = {} /\ \A c \in Conns : state_[c] = "none"
    BY DEF Init
  <2>2. base \in Loops /\ \A l \in Loops : DOMAIN queue[l] = {}
    <3>1. DOMAIN <<>> = {}
      BY SMT
    <3> QED
      BY <3>1 DEF Init, Loops
  <2>3. \A c \in Conns : ~DestroyWaits(queue, c) /\ ~Waits(queue, base, "remove", c)
    BY <2>2 DEF DestroyWaits, Waits
  <2> QED
    BY <2>1, <2>3 DEF AllOwed, Owed, Releasing
<1>2. ReleaseInv => ReleaseOwed
  BY DEF ReleaseInv, ReleaseOwed, AllOwed, Owed, Releasing, LoopLives
<1> QED
  BY <1>1, <1>2, NextOwes, Invariance, Tracking, PTL DEF Spec
=============================================================================
