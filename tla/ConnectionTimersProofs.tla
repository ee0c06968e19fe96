------------------------ MODULE ConnectionTimersProofs ------------------------
(***************************************************************************)
(* Proofs about ConnectionTimers, for any configuration of the server, any *)
(* calls of the user and any bounds: a timeout can be cancelled, and the   *)
(* idle timeout is on, or off, as it was set.                              *)
(*                                                                         *)
(* Invariants are stated of a connection c, the step l of its loop, the    *)
(* queue q of the loop, what newConnection() has still to queue, s, and    *)
(* the user's thread u; a step makes d, m, p, r and v of them.             *)
(***************************************************************************)
EXTENDS ConnectionTimers, SequenceTheorems, TLAPS

\* Most leaves are about sets and records only; the others name their prover.
USE Zenon

Timer == [id : Nat \ {0}, kind : Kinds, zero : BOOLEAN]
Connection ==
  [state : {"kConnecting", "kConnected", "kDisconnecting", "kDisconnected"},
   idle : BOOLEAN, keepAlive : BOOLEAN, ids : [Kinds -> Int], created : Nat,
   timers : SUBSET Timer, batch : SUBSET Timer, todo : SUBSET Timer,
   canceling : SUBSET Nat, early : BOOLEAN, orphans : SUBSET Int, late : SUBSET Int,
   mixed : BOOLEAN]
Shared == {"idle", "keepAlive"}
Loop ==
  [step : {"free", "test", "cancel", "start", "assign", "drop", "clear", "close"},
   kind : Shared, more : BOOLEAN]
User ==
  [step : {"free", "post", "test", "cancel", "clear"}, kind : Shared, id : Int, calls : Nat]
Functors ==
  ({"connection"} \X BOOLEAN) \cup ({"cancel"} \X Int)
    \cup {<<"idle">>, <<"keepAlive">>, <<"connectEstablished">>}
Types(c, l, q, s, u) ==
  c \in Connection /\ l \in Loop /\ q \in Seq(Functors) /\ s \in Seq(Functors) /\ u \in User

Waiting(c) == c.timers \cup c.todo
CancelQueued(q, id) == \E i \in DOMAIN q : q[i] = <<"cancel", id>>
StartQueued(q) == \E i \in DOMAIN q : q[i] = <<"idle">>
Off(u) == u.kind = "idle" /\ u.step \in {"test", "cancel", "clear"}
On(u) == u.kind = "idle" /\ u.step = "post"

\* The loop is about to assign the id of t, or to cancel the idle timer t for good.
Assigns(c, l, t) == l.step = "assign" /\ l.kind = t.kind /\ t.id = c.created
Drops(c, l, t) == l.step = "drop" /\ l.kind = "idle" /\ t.id = c.ids["idle"]

\* An id the connection keeps, or will, is the id of a timer of that kind, if of any.
IdsInv(c, l) ==
  /\ c.todo \subseteq c.batch
  /\ \A k \in Kinds : c.ids[k] <= c.created
  /\ \A t \in c.timers \cup c.batch :
       /\ t.id <= c.created
       /\ \A k \in Kinds : t.id = c.ids[k] => t.kind = k
       /\ l.step = "assign" /\ t.id = c.created => t.kind = l.kind

\* The loop sets timers outside of a batch only.  Before it writes an id, the
\* timer that has the old one is cancelled.
Writes(l) == l.step = "clear" \/ (l.step \in {"start", "assign"} /\ l.kind = "idle")
BusyInv(c, l) ==
  /\ l.step \notin {"free", "close"} \/ l.more => c.batch = {}
  /\ l.step \in {"test", "cancel"} => l.kind = "idle"
  /\ l.step = "close" /\ l.kind = "idle" => c.state = "kDisconnected"
  /\ Writes(l) => \A t \in Waiting(c) : t.id # c.ids[l.kind]

\* The queued functors and the id the user's thread has read are of old timers.
OldIds(c, q, u) ==
  /\ u.id <= c.created
  /\ \A i \in DOMAIN q : q[i][1] = "cancel" => q[i][2] <= c.created

\* TimeoutsCancellable, and what it needs: the thread that is about to forget
\* the id it has read has its timer cancelled.
Known(c, l, q, t) ==
  t.id = c.ids[t.kind] \/ Assigns(c, l, t) \/ CancelQueued(q, t.id) \/ t.id \in c.orphans
CancelInv(c, l, q, u) ==
  /\ \A t \in Waiting(c) : t.kind # "keepAlive" => Known(c, l, q, t)
  /\ u.step = "clear" =>
       CancelQueued(q, u.id) \/ \A t \in Waiting(c) : t.kind # "keepAlive" => t.id # u.id

\* With the timeout off a timer is about to be cancelled, unless a race left it.
Harmless(c, l, q, u, t) ==
  \/ t.zero \/ t.id \in c.orphans \cup c.late \/ Assigns(c, l, t)
  \/ CancelQueued(q, t.id) \/ Off(u) \/ Drops(c, l, t)
OffInv(c, l, q, u) ==
  ~c.idle => \A t \in Waiting(c) : t.kind = "idle" => Harmless(c, l, q, u, t)

\* With the timeout on, a timer about to be cancelled is about to be replaced.
Replaced(q, u, i) == On(u) \/ \E j \in DOMAIN q : j > i /\ q[j] = <<"idle">>
OnInv(c, l, q, u) ==
  c.idle /\ ~c.mixed =>
    /\ ~Off(u)
    /\ \A i \in DOMAIN q : \A t \in Waiting(c) :
         t.kind = "idle" /\ q[i] = <<"cancel", t.id>> => Replaced(q, u, i)
    /\ l.step = "drop" /\ l.kind = "idle" => On(u) \/ StartQueued(q)

Starts(l) == l.kind = "idle" /\ l.step \in {"test", "cancel", "start"}
ArmedInv(c, l, q, s, u) ==
  c.state # "kDisconnected" /\ c.idle /\ ~c.early /\ ~c.mixed
    => \/ \E t \in Waiting(c) : t.kind = "idle"
       \/ StartQueued(q) \/ StartQueued(s) \/ On(u) \/ Starts(l)

\* connectEstablished() is the last of the functors that newConnection() queues,
\* which cancel nothing, and no thread of the user calls before it has run.
Established == <<"connectEstablished">>
Ends(q) == q # <<>> /\ q[Len(q)] = Established /\ \A i \in 1 .. Len(q) - 1 : q[i] # Established
Without(q) == \A i \in DOMAIN q : q[i] # Established
SetupInv(c, q, s, u) ==
  /\ \A i \in DOMAIN s : s[i][1] # "cancel"
  /\ IF c.state = "kConnecting"
     THEN u.step = "free" /\ (IF s = <<>> THEN Ends(q) ELSE Ends(s) /\ Without(q))
     ELSE s = <<>> /\ Without(q)

\* What is said of the timers, and the whole invariant.
Timers(c, l, q, u) ==
  IdsInv(c, l) /\ OldIds(c, q, u) /\ CancelInv(c, l, q, u) /\ OffInv(c, l, q, u) /\ OnInv(c, l, q, u)
Whole(c, l, q, s, u) ==
  /\ Types(c, l, q, s, u) /\ Timers(c, l, q, u) /\ BusyInv(c, l)
  /\ ArmedInv(c, l, q, s, u) /\ SetupInv(c, q, s, u)
IInv == Whole(conn, loop, queue, setup, user)

-----------------------------------------------------------------------------
\* loop_->cancel() changes the timers and loop_->runAfter() adds one.
Rest(c, d) ==
  /\ d \in Connection /\ d.state = c.state /\ d.idle = c.idle /\ d.batch = c.batch
  /\ d.todo = c.todo /\ d.early = c.early /\ d.orphans = c.orphans /\ d.late = c.late
  /\ d.mixed = c.mixed /\ d.ids = c.ids
Cancelled(c, d, id) ==
  Rest(c, d) /\ d.created = c.created /\ d.timers = {t \in c.timers : t.id # id}
Started(c, d, k) ==
  /\ Rest(c, d) /\ d.created = c.created + 1
  /\ d.timers = c.timers \cup {[id |-> c.created + 1, kind |-> k, zero |-> k = "idle" /\ ~c.idle]}

\* The result of Cancel.
LEMMA CancelIs ==
  ASSUME NEW c \in Connection, NEW id \in Int, NEW d, d = Cancel(c, id)
  PROVE  Cancelled(c, d, id)
<1>1. \A t \in c.timers \cup c.batch : t \in Timer /\ t.id \in Nat
  BY DEF Connection, Timer
<1>2. {t.id : t \in {b1 \in c.batch : b1.id = id}} \subseteq Nat
  BY <1>1
<1>3. {t \in c.timers : t.id # id} \subseteq Timer
  BY <1>1
<1>4. PICK T, C : /\ T \in SUBSET Timer /\ C \in SUBSET Nat /\ T = {t \in c.timers : t.id # id}
                  /\ d = [c EXCEPT !.timers = T, !.canceling = C]
  <2>1. c.canceling \in SUBSET Nat
    BY SMT DEF Connection
  <2> QED
    BY <1>2, <1>3, <2>1 DEF Cancel
<1>5. d \in Connection
  BY <1>4 DEF Connection
<1> QED
  BY <1>4, <1>5 DEF Cancelled, Rest, Connection

\* The result of Start.
LEMMA StartIs ==
  ASSUME NEW c \in Connection, NEW k \in Kinds, NEW d, d = Start(c, k)
  PROVE  Started(c, d, k)
<1>1. PICK n : n = [id |-> c.created + 1, kind |-> k, zero |-> k = "idle" /\ ~c.idle]
  OBVIOUS
<1>2. (k = "idle" /\ ~c.idle) \in BOOLEAN
  OBVIOUS
<1>3. c.created \in Nat /\ c.created + 1 \in Nat \ {0}
  BY SMT DEF Connection
<1>4. n \in Timer
  BY <1>1, <1>2, <1>3, SMT DEF Timer
<1>5. c.timers \cup {n} \in SUBSET Timer
  BY <1>4 DEF Connection
<1>6. PICK T, m : /\ T \in SUBSET Timer /\ m \in Nat /\ T = c.timers \cup {n} /\ m = c.created + 1
                  /\ d = [c EXCEPT !.created = m, !.timers = T]
  <2>1. d = [c EXCEPT !.created = c.created + 1, !.timers = c.timers \cup {n}]
    BY <1>1 DEF Start, Connection
  <2> QED
    BY <1>3, <1>5, <2>1
<1>7. d \in Connection
  BY <1>6 DEF Connection
<1> QED
  BY <1>1, <1>6, <1>7 DEF Started, Rest, Connection

\* The types of the ids.
LEMMA IdTypes ==
  ASSUME NEW c \in Connection, c.todo \subseteq c.batch
  PROVE  /\ c.created \in Nat /\ \A k \in Kinds : c.ids[k] \in Int
         /\ \A t \in c.timers \cup c.batch \cup Waiting(c) :
              t \in Timer /\ t.id \in Nat \ {0} /\ t.kind \in Kinds /\ t.id # NoId /\ t.id # Torn
<1>1. c.created \in Nat /\ c.ids \in [Kinds -> Int] /\ c.timers \cup c.batch \subseteq Timer
  BY DEF Connection
<1>2. \A t \in Timer : t.id \in Nat \ {0} /\ t.kind \in Kinds
  BY DEF Timer
<1>3. \A n \in Nat \ {0} : n # NoId /\ n # Torn
  BY SMT DEF NoId, Torn
<1>4. \A t \in c.timers \cup c.batch \cup Waiting(c) : t \in Timer
  BY <1>1 DEF Waiting
<1> QED
  BY <1>1, <1>2, <1>3, <1>4

\* The loop leaves a setter.
Left(m, b) ==
  /\ m \in Loop /\ m.kind = "idle" /\ ~m.more
  /\ m.step = IF b THEN "test" ELSE "free"
LEMMA AfterIs ==
  ASSUME NEW b \in BOOLEAN, NEW m, m = After(b)
  PROVE  Left(m, b)
BY DEF After, Free, At, Loop, Left, Shared

-----------------------------------------------------------------------------
\* d has no timer that c has not.
Less(c, d) ==
  /\ d \in Connection /\ d.ids = c.ids /\ d.created = c.created /\ d.orphans = c.orphans
  /\ d.late = c.late /\ d.idle = c.idle /\ d.mixed = c.mixed /\ d.batch = c.batch
  /\ d.timers \subseteq c.timers /\ d.todo \subseteq c.todo

\* That keeps what is said of all timers.
LEMMA LessKeeps ==
  ASSUME NEW c, NEW l, NEW q, NEW u, Timers(c, l, q, u), NEW d, Less(c, d)
  PROVE  Timers(d, l, q, u)
<1>1. Waiting(d) \subseteq Waiting(c) /\ d.timers \cup d.batch \subseteq c.timers \cup c.batch
  BY DEF Waiting, Less
<1>2. IdsInv(d, l)
  BY <1>1 DEF Timers, IdsInv, Less
<1>3. OldIds(d, q, u)
  BY DEF Timers, OldIds, Less
<1>4. \A t : Known(c, l, q, t) => Known(d, l, q, t)
  BY DEF Known, Assigns, Less
<1>5. CancelInv(d, l, q, u)
  BY <1>1, <1>4 DEF Timers, CancelInv
<1>6. \A t : Harmless(c, l, q, u, t) => Harmless(d, l, q, u, t)
  BY DEF Harmless, Assigns, Drops, Less
<1>7. OffInv(d, l, q, u)
  BY <1>1, <1>6 DEF Timers, OffInv, Less
<1>8. OnInv(d, l, q, u)
  BY <1>1 DEF Timers, OnInv, Less
<1> QED
  BY <1>2, <1>3, <1>5, <1>7, <1>8 DEF Timers

\* loop_->cancel() is such a step.
LEMMA CancelLess ==
  ASSUME NEW c \in Connection, NEW id \in Int, NEW d, d = Cancel(c, id)
  PROVE  Less(c, d) /\ Cancelled(c, d, id)
<1>1. Cancelled(c, d, id)
  BY CancelIs
<1>2. d.timers \subseteq c.timers
  BY <1>1 DEF Cancelled
<1> QED
  BY <1>1, <1>2 DEF Less, Cancelled, Rest

\* The loop goes from l to m and has nothing to assign, before or after.
Moves(l, m) ==
  l.step # "assign" /\ m.step # "assign" /\ ~(m.step = "drop" /\ m.kind = "idle")
LEMMA MoveKeeps ==
  ASSUME NEW c, NEW l, NEW q, NEW u, Timers(c, l, q, u), NEW m, Moves(l, m),
         ~c.idle => \A t \in Waiting(c) : ~Drops(c, l, t)
  PROVE  Timers(c, m, q, u)
<1>1. IdsInv(c, m) /\ OldIds(c, q, u)
  BY DEF Timers, IdsInv, Moves
<1>2. CancelInv(c, m, q, u)
  BY DEF Timers, CancelInv, Known, Assigns, Moves
<1>3. OffInv(c, m, q, u)
  BY DEF Timers, OffInv, Harmless, Assigns, Moves
<1>4. OnInv(c, m, q, u)
  BY DEF Timers, OnInv, Moves
<1> QED
  BY <1>1, <1>2, <1>3, <1>4 DEF Timers


\* No timer has the id that the connection keeps for the kind k.
Gone(c, k) == \A t \in Waiting(c) : t.id # c.ids[k]

\* The ids of d are those of c but for that of the kind k.
NewId(c, d, k, id) ==
  /\ d \in Connection /\ d.created = c.created /\ d.idle = c.idle /\ d.mixed = c.mixed
  /\ d.timers = c.timers /\ d.batch = c.batch /\ d.todo = c.todo
  /\ d.ids[k] = id /\ \A j \in Kinds : j # k => d.ids[j] = c.ids[j]
  /\ c.orphans \subseteq d.orphans /\ c.late \subseteq d.late

\* A timer is started whose id nobody has seen.
LEMMA StartKeeps ==
  ASSUME NEW c \in Connection, NEW l, NEW q \in Seq(Functors), NEW u \in User, Timers(c, l, q, u),
         l.step \notin {"assign", "drop"}, NEW k \in Kinds, NEW d, Started(c, d, k),
         NEW m, m.step = "assign", m.kind = k
  PROVE  Timers(d, m, q, u)
<1>1. PICK n : n = [id |-> c.created + 1, kind |-> k, zero |-> k = "idle" /\ ~c.idle]
  OBVIOUS
<1>2. /\ n.id = c.created + 1 /\ n.kind = k /\ n.zero = (k = "idle" /\ ~c.idle)
      /\ d.timers = c.timers \cup {n} /\ Waiting(d) = Waiting(c) \cup {n}
      /\ d.created = c.created + 1 /\ d.ids = c.ids /\ d.batch = c.batch /\ d.todo = c.todo
      /\ d.idle = c.idle /\ d.mixed = c.mixed /\ d.orphans = c.orphans /\ d.late = c.late
  BY <1>1 DEF Started, Rest, Waiting
<1>3. c.todo \subseteq c.batch /\ \A j \in Kinds : c.ids[j] <= c.created
  BY DEF Timers, IdsInv
<1>4. /\ c.created \in Nat /\ \A j \in Kinds : c.ids[j] \in Int
      /\ \A t \in c.timers \cup c.batch \cup Waiting(c) : t.id \in Nat \ {0}
  BY <1>3, IdTypes
<1>5. \A t \in c.timers \cup c.batch : t.id <= c.created /\ \A j \in Kinds : t.id = c.ids[j] => t.kind = j
  BY DEF Timers, IdsInv
<1>6. Waiting(c) \subseteq c.timers \cup c.batch
  BY <1>3 DEF Waiting
<1>7. \A i \in Int : i <= c.created => i <= c.created + 1 /\ i # c.created + 1
  BY <1>4, SMT
<1>8. IdsInv(d, m)
  <2>1. \A j \in Kinds : d.ids[j] <= d.created /\ d.ids[j] # n.id
    BY <1>2, <1>3, <1>4, <1>7
  <2>2. ASSUME NEW t \in c.timers \cup c.batch
        PROVE  t.id <= d.created /\ t.id # d.created
    BY <1>2, <1>4, <1>5, <1>7, SMT
  <2>3. n.id <= d.created
    BY <1>2, <1>4, SMT
  <2>4. ASSUME NEW t \in d.timers \cup d.batch
        PROVE  /\ t.id <= d.created /\ \A j \in Kinds : t.id = d.ids[j] => t.kind = j
               /\ t.id = d.created => t.kind = m.kind
    <3>1. t = n \/ t \in c.timers \cup c.batch
      BY <1>2
    <3>2. CASE t = n
      BY <1>2, <2>1, <2>3, <3>2
    <3>3. CASE t \in c.timers \cup c.batch
      BY <1>2, <1>5, <2>2, <3>3, ZenonT(30)
    <3> QED
      BY <3>1, <3>2, <3>3
  <2> QED
    BY <1>2, <1>3, <2>1, <2>4 DEF IdsInv
<1>9. OldIds(d, q, u)
  <2>1. u.id \in Int /\ u.id <= c.created
    BY DEF User, Timers, OldIds
  <2>2. \A i \in DOMAIN q : q[i][1] = "cancel" => q[i][2] \in Int
    <3>1. \A i \in DOMAIN q : q[i] \in Functors
      BY ElementOfSeq, SMT
    <3> QED
      BY <3>1, SMT DEF Functors
  <2>3. \A i \in DOMAIN q : q[i][1] = "cancel" => q[i][2] <= c.created
    BY DEF Timers, OldIds
  <2> QED
    BY <1>2, <1>7, <2>1, <2>2, <2>3 DEF OldIds
<1>10. CancelInv(d, m, q, u)
  <2>1. Known(d, m, q, n)
    BY <1>2 DEF Known, Assigns
  <2>2. \A t \in Waiting(c) : t.kind # "keepAlive" => Known(d, m, q, t)
    BY <1>2 DEF Timers, CancelInv, Known, Assigns
  <2>3. u.id # n.id
    BY <1>2, <1>7 DEF User, Timers, OldIds
  <2> QED
    BY <1>2, <2>1, <2>2, <2>3 DEF Timers, CancelInv
<1>11. OffInv(d, m, q, u)
  <2>1. ~c.idle /\ n.kind = "idle" => Harmless(d, m, q, u, n)
    BY <1>2 DEF Harmless
  <2>2. \A t \in Waiting(c) : Harmless(c, l, q, u, t) => Harmless(d, m, q, u, t)
    BY <1>2 DEF Harmless, Assigns, Drops
  <2> QED
    BY <1>2, <2>1, <2>2 DEF Timers, OffInv
<1>12. OnInv(d, m, q, u)
  <2>1. ASSUME NEW i \in DOMAIN q, q[i] = <<"cancel", n.id>>
        PROVE  FALSE
    <3>1. q[i][1] = "cancel" /\ q[i][2] = n.id
      BY <2>1, SMT
    <3>2. n.id <= c.created
      BY <3>1 DEF Timers, OldIds
    <3> QED
      BY <1>2, <1>4, <3>2, SMT
  <2> QED
    BY <1>2, <2>1 DEF Timers, OnInv
<1> QED
  BY <1>8, <1>9, <1>10, <1>11, <1>12 DEF Timers

\* The id of a new timer is assigned.
LEMMA AssignKeeps ==
  ASSUME NEW c \in Connection, NEW l, NEW q, NEW u, Timers(c, l, q, u), l.step = "assign",
         NEW k \in Kinds, l.kind = k,
         k = "keepAlive" \/ Gone(c, k), NEW d, NewId(c, d, k, c.created),
         k = "idle" /\ ~c.idle => Off(u) \/ c.created \in d.late,
         NEW m, m.step \notin {"assign", "drop"}
  PROVE  Timers(d, m, q, u)
<1>1. Waiting(d) = Waiting(c) /\ d.timers \cup d.batch = c.timers \cup c.batch
  BY DEF NewId, Waiting
<1>2. c.created <= c.created /\ \A t \in Waiting(c) : t.kind \in Kinds
  <2>1. c.created \in Nat /\ \A t \in Waiting(c) : t.kind \in Kinds
    BY IdTypes DEF Timers, IdsInv
  <2> QED
    BY <2>1, SMT
<1>3. IdsInv(d, m) /\ OldIds(d, q, u)
  <2>1. IdsInv(d, m)
    BY <1>1, <1>2, ZenonT(60) DEF Timers, IdsInv, NewId
  <2>2. OldIds(d, q, u)
    BY DEF Timers, OldIds, NewId
  <2> QED
    BY <2>1, <2>2
<1>4. CancelInv(d, m, q, u)
  <2>1. ASSUME NEW t \in Waiting(c), t.kind # "keepAlive", Known(c, l, q, t)
        PROVE  Known(d, m, q, t)
    <3>1. CASE t.id = c.ids[t.kind]
      <4>1. t.kind # k /\ t.kind \in Kinds
        BY <1>2, <2>1, <3>1 DEF Gone
      <4> QED
        BY <3>1, <4>1 DEF Known, NewId
    <3>2. CASE Assigns(c, l, t)
      BY <3>2 DEF Known, Assigns, NewId
    <3>3. CASE CancelQueued(q, t.id) \/ t.id \in c.orphans
      BY <3>3 DEF Known, NewId
    <3> QED
      BY <2>1, <3>1, <3>2, <3>3 DEF Known
  <2> QED
    BY <1>1, <2>1 DEF Timers, CancelInv
<1>5. OffInv(d, m, q, u)
  <2>1. ASSUME NEW t \in Waiting(c), t.kind = "idle", ~c.idle, Harmless(c, l, q, u, t)
        PROVE  Harmless(d, m, q, u, t)
    <3>1. CASE Assigns(c, l, t)
      BY <2>1, <3>1 DEF Harmless, Assigns
    <3>2. CASE ~Assigns(c, l, t)
      BY <2>1, <3>2 DEF Harmless, Drops, NewId
    <3> QED
      BY <3>1, <3>2
  <2> QED
    BY <1>1, <2>1 DEF Timers, OffInv, NewId
<1>6. OnInv(d, m, q, u)
  BY <1>1 DEF Timers, OnInv, NewId
<1> QED
  BY <1>3, <1>4, <1>5, <1>6 DEF Timers

\* An id is forgotten; if its timer waits, that is noted or about to be cancelled.
LEMMA ForgetKeeps ==
  ASSUME NEW c \in Connection, NEW l, NEW q, NEW u, Timers(c, l, q, u), NEW k \in Shared,
         NEW d, NEW x \in {NoId, Torn}, NewId(c, d, k, x),
         k = "keepAlive" \/ \A t \in Waiting(c) :
           t.id = c.ids[k] => CancelQueued(q, t.id) \/ t.id \in d.orphans
  PROVE  Timers(d, l, q, u)
<1>1. Waiting(d) = Waiting(c) /\ d.timers \cup d.batch = c.timers \cup c.batch
  BY DEF NewId, Waiting
<1>2. c.created \in Nat /\ \A t \in c.timers \cup c.batch \cup Waiting(c) : t.id # x /\ t.kind \in Kinds
  BY IdTypes DEF Timers, IdsInv
<1>3. x <= c.created
  BY <1>2, SMT DEF NoId, Torn
<1>4. IdsInv(d, l) /\ OldIds(d, q, u)
  BY <1>1, <1>2, <1>3, ZenonT(30) DEF Timers, IdsInv, OldIds, NewId
<1>5. \A t \in Waiting(c) : t.kind # "keepAlive" /\ Known(c, l, q, t) => Known(d, l, q, t)
  BY <1>2 DEF Known, Assigns, NewId
<1>6. CancelInv(d, l, q, u)
  BY <1>1, <1>5 DEF Timers, CancelInv
<1>7. \A t \in Waiting(c) : t.kind = "idle" /\ Harmless(c, l, q, u, t) => Harmless(d, l, q, u, t)
  <2>1. ASSUME NEW t \in Waiting(c), Drops(c, l, t)
        PROVE  Harmless(d, l, q, u, t)
    <3>1. CASE k = "idle"
      BY <2>1, <3>1 DEF Harmless, Drops
    <3>2. CASE k # "idle"
      BY <2>1, <3>2 DEF Harmless, Drops, NewId, Kinds
    <3> QED
      BY <3>1, <3>2
  <2> QED
    BY <2>1 DEF Harmless, Assigns, NewId
<1>8. OffInv(d, l, q, u)
  BY <1>1, <1>7 DEF Timers, OffInv, NewId
<1>9. OnInv(d, l, q, u)
  BY <1>1 DEF Timers, OnInv, NewId
<1> QED
  BY <1>4, <1>6, <1>8, <1>9 DEF Timers

\* The user's thread goes from u to v; what it has read is old.
UserMoves(c, q, u, v) ==
  /\ v.id <= c.created
  /\ v.step = "clear" => CancelQueued(q, v.id)
  /\ c.idle /\ ~c.mixed => ~Off(v) /\ (On(u) => On(v))
LEMMA UserKeeps ==
  ASSUME NEW c, NEW l, NEW q, NEW u, Timers(c, l, q, u), NEW v, UserMoves(c, q, u, v),
         \/ c.idle \/ Off(v) \/ ~Off(u)
         \/ \A t \in Waiting(c) : t.kind = "idle" => Harmless(c, l, q, v, t)
  PROVE  Timers(c, l, q, v)
<1>1. IdsInv(c, l) /\ OldIds(c, q, v) /\ CancelInv(c, l, q, v)
  BY DEF Timers, OldIds, CancelInv, UserMoves
<1>2. OffInv(c, l, q, v)
  BY DEF Timers, OffInv, Harmless
<1>3. OnInv(c, l, q, v)
  BY DEF Timers, OnInv, Replaced, UserMoves
<1> QED
  BY <1>1, <1>2, <1>3 DEF Timers


-----------------------------------------------------------------------------
\* Outside of a setter the loop owes nothing.
LEMMA LeftBusy ==
  ASSUME NEW d, NEW b \in BOOLEAN, NEW m, Left(m, b), b => d.batch = {}
  PROVE  BusyInv(d, m) /\ m.step \notin {"assign", "drop"} /\ (b => Starts(m))
BY DEF Left, BusyInv, Writes, Starts

\* Nothing is established or closed.
LEMMA StaysSetUp ==
  ASSUME NEW c, NEW q, NEW s, NEW u, SetupInv(c, q, s, u),
         NEW d, (d.state = "kConnecting") <=> (c.state = "kConnecting")
  PROVE  SetupInv(d, q, s, u)
BY DEF SetupInv

\* The types in a step of a setter.
LEMMA StepTypes ==
  ASSUME NEW c, NEW l, NEW q, NEW s, NEW u, Whole(c, l, q, s, u)
  PROVE  /\ c \in Connection /\ l \in Loop /\ q \in Seq(Functors) /\ s \in Seq(Functors) /\ u \in User
         /\ l.more \in BOOLEAN /\ l.kind \in Shared /\ l.kind \in Kinds /\ c.todo \subseteq c.batch
         /\ c.created \in Nat /\ \A k \in Kinds : c.ids[k] \in Int
         /\ \A t \in Waiting(c) : t.id \in Nat \ {0} /\ t.kind \in Kinds /\ t.id # NoId /\ t.id # Torn
<1>1. /\ c \in Connection /\ l \in Loop /\ q \in Seq(Functors) /\ s \in Seq(Functors) /\ u \in User
      /\ c.todo \subseteq c.batch
  BY DEF Whole, Types, Timers, IdsInv
<1>2. l.more \in BOOLEAN /\ l.kind \in Shared /\ l.kind \in Kinds
  BY <1>1 DEF Loop, Shared, Kinds
<1> QED
  BY <1>1, <1>2, IdTypes

\* idleTimeout_ is tested.
LEMMA LoopTestKeeps ==
  ASSUME NEW c, NEW l, NEW q, NEW s, NEW u, Whole(c, l, q, s, u), l.step = "test",
         NEW m, m = IF c.idle THEN At("cancel", "idle", l.more) ELSE After(l.more)
  PROVE  Whole(c, m, q, s, u)
<1>1. l.more \in BOOLEAN /\ c.batch = {} /\ Timers(c, l, q, u)
  BY StepTypes DEF Whole, BusyInv
<1>2. \A t : ~Drops(c, l, t)
  BY DEF Drops
<1>3. CASE c.idle
  <2>1. m \in Loop /\ m.step = "cancel" /\ m.kind = "idle" /\ m.more = l.more
    BY <1>1, <1>3 DEF At, Loop, Shared
  <2>2. Timers(c, m, q, u)
    BY <1>1, <1>2, <2>1, MoveKeeps DEF Moves
  <2>3. BusyInv(c, m) /\ ArmedInv(c, m, q, s, u)
    BY <1>1, <2>1 DEF BusyInv, Writes, ArmedInv, Starts
  <2> QED
    BY <2>1, <2>2, <2>3 DEF Whole, Types
<1>4. CASE ~c.idle
  <2>1. Left(m, l.more)
    BY <1>1, <1>4, AfterIs
  <2>2. BusyInv(c, m) /\ m.step \notin {"assign", "drop"}
    BY <1>1, <2>1, LeftBusy
  <2>3. Timers(c, m, q, u)
    BY <1>1, <1>2, <2>2, MoveKeeps DEF Moves
  <2>4. ArmedInv(c, m, q, s, u)
    BY <1>4 DEF ArmedInv
  <2> QED
    BY <2>1, <2>2, <2>3, <2>4 DEF Whole, Types, Left
<1> QED
  BY <1>3, <1>4

\* Once a timer is cancelled outside of a batch none waits with its id.
LEMMA CancelGone ==
  ASSUME NEW c \in Connection, c.todo = {}, NEW k \in Kinds, NEW d, Cancelled(c, d, c.ids[k])
  PROVE  Gone(d, k)
<1>1. Waiting(d) = {t \in c.timers : t.id # c.ids[k]} /\ d.ids = c.ids
  BY DEF Cancelled, Rest, Waiting
<1> QED
  BY <1>1 DEF Gone

\* The old idle timer is cancelled.
LEMMA LoopCancelKeeps ==
  ASSUME NEW c, NEW l, NEW q, NEW s, NEW u, Whole(c, l, q, s, u), l.step = "cancel",
         NEW d, d = Cancel(c, c.ids["idle"]), NEW m, m = At("start", "idle", l.more)
  PROVE  Whole(d, m, q, s, u)
<1>1. /\ c \in Connection /\ l.more \in BOOLEAN /\ c.batch = {} /\ c.todo = {}
      /\ Timers(c, l, q, u) /\ "idle" \in Kinds /\ c.ids["idle"] \in Int
  BY StepTypes DEF Whole, BusyInv, Kinds
<1>2. Less(c, d) /\ Cancelled(c, d, c.ids["idle"])
  BY <1>1, CancelLess
<1>3. m \in Loop /\ m.step = "start" /\ m.kind = "idle" /\ m.more = l.more
  BY <1>1 DEF At, Loop, Shared
<1>4. Timers(d, l, q, u)
  BY <1>1, <1>2, LessKeeps
<1>5. Timers(d, m, q, u)
  BY <1>3, <1>4, MoveKeeps DEF Moves, Drops
<1>6. Gone(d, "idle")
  BY <1>1, <1>2, CancelGone
<1>7. BusyInv(d, m)
  BY <1>1, <1>2, <1>3, <1>6 DEF BusyInv, Writes, Gone, Less
<1>8. ArmedInv(d, m, q, s, u)
  BY <1>3 DEF ArmedInv, Starts
<1>9. SetupInv(d, q, s, u)
  BY <1>2, StaysSetUp DEF Whole, Cancelled, Rest
<1> QED
  BY <1>2, <1>3, <1>5, <1>7, <1>8, <1>9 DEF Whole, Types, Less

\* A new timer is started.
LEMMA LoopStartKeeps ==
  ASSUME NEW c, NEW l, NEW q, NEW s, NEW u, Whole(c, l, q, s, u), l.step = "start",
         NEW d, d = Start(c, l.kind), NEW m, m = At("assign", l.kind, l.more)
  PROVE  Whole(d, m, q, s, u)
<1>1. /\ c \in Connection /\ l.more \in BOOLEAN /\ l.kind \in Shared /\ l.kind \in Kinds
      /\ c.batch = {} /\ c.todo = {} /\ Timers(c, l, q, u) /\ q \in Seq(Functors) /\ u \in User
      /\ c.created \in Nat /\ \A k \in Kinds : c.ids[k] \in Int
  BY StepTypes DEF Whole, BusyInv
<1>2. Started(c, d, l.kind)
  BY <1>1, StartIs
<1>3. m \in Loop /\ m.step = "assign" /\ m.kind = l.kind /\ m.more = l.more
  BY <1>1 DEF At, Loop
<1>4. Timers(d, m, q, u)
  BY <1>1, <1>2, <1>3, StartKeeps
<1>5. PICK n : d.timers = c.timers \cup {n} /\ n.id = c.created + 1 /\ n.kind = l.kind
  <2>1. PICK n : n = [id |-> c.created + 1, kind |-> l.kind, zero |-> l.kind = "idle" /\ ~c.idle]
    OBVIOUS
  <2>2. d.timers = c.timers \cup {n} /\ n.id = c.created + 1 /\ n.kind = l.kind
    BY <1>2, <2>1 DEF Started
  <2> QED
    BY <2>2
<1>6. Waiting(d) = Waiting(c) \cup {n} /\ d.ids = c.ids /\ d.batch = {} /\ d.state = c.state
      /\ d.idle = c.idle /\ d.early = c.early /\ d.mixed = c.mixed /\ d \in Connection
  BY <1>1, <1>2, <1>5 DEF Started, Rest, Waiting
<1>7. BusyInv(d, m)
  <2>1. c.ids[l.kind] <= c.created /\ c.ids[l.kind] \in Int
    BY <1>1 DEF Timers, IdsInv
  <2>2. n.id # c.ids[l.kind]
    BY <1>1, <1>5, <2>1, SMT
  <2>3. l.kind = "idle" => \A t \in Waiting(c) : t.id # c.ids[l.kind]
    BY DEF Whole, BusyInv, Writes
  <2> QED
    BY <1>1, <1>3, <1>6, <2>2, <2>3 DEF BusyInv, Writes
<1>8. ArmedInv(d, m, q, s, u)
  BY <1>5, <1>6 DEF Whole, ArmedInv, Starts
<1>9. SetupInv(d, q, s, u)
  BY <1>6, StaysSetUp DEF Whole
<1> QED
  BY <1>3, <1>4, <1>6, <1>7, <1>8, <1>9 DEF Whole, Types

\* The keep-alive timer is not started.
LEMMA LoopSkipsKeeps ==
  ASSUME NEW c, NEW l, NEW q, NEW s, NEW u, Whole(c, l, q, s, u),
         \/ l.step = "start" /\ l.kind = "keepAlive"
         \/ l.step = "drop" /\ c.ids[l.kind] = NoId,
         NEW m, m = After(l.more)
  PROVE  Whole(c, m, q, s, u)
<1>1. /\ l.more \in BOOLEAN /\ c.batch = {} /\ Timers(c, l, q, u)
      /\ \A t \in Waiting(c) : t.id # NoId
  BY StepTypes DEF Whole, BusyInv
<1>2. Left(m, l.more)
  BY <1>1, AfterIs
<1>3. BusyInv(c, m) /\ m.step \notin {"assign", "drop"}
  BY <1>1, <1>2, LeftBusy
<1>4. \A t \in Waiting(c) : ~Drops(c, l, t)
  BY <1>1 DEF Drops
<1>5. Timers(c, m, q, u)
  BY <1>1, <1>3, <1>4, MoveKeeps DEF Moves
<1>6. ArmedInv(c, m, q, s, u)
  BY DEF Whole, ArmedInv, Starts
<1> QED
  BY <1>2, <1>3, <1>5, <1>6 DEF Whole, Types, Left


\* No idle timer goes.
KeepsIdle(c, d) == \A t \in Waiting(c) : t.kind = "idle" => t \in Waiting(d)

\* The idle timer that waits, or is on its way, is there after the step.
LEMMA StaysArmed ==
  ASSUME NEW c, NEW l, NEW q, NEW s, NEW u, ArmedInv(c, l, q, s, u), NEW d, NEW m,
         d.idle = c.idle, d.mixed = c.mixed, d.early = c.early,
         c.state = "kDisconnected" => d.state = "kDisconnected",
         KeepsIdle(c, d), Starts(l) => Starts(m)
  PROVE  ArmedInv(d, m, q, s, u)
BY DEF ArmedInv, KeepsIdle

\* Cancelling a timer of another kind leaves the idle timers.
LEMMA OtherKind ==
  ASSUME NEW c, NEW l, IdsInv(c, l), NEW k \in Kinds, k # "idle", NEW d, Cancelled(c, d, c.ids[k])
  PROVE  KeepsIdle(c, d)
<1>1. \A t \in c.timers : t.id = c.ids[k] => t.kind = k
  BY DEF IdsInv
<1> QED
  BY <1>1 DEF Waiting, Cancelled, Rest, KeepsIdle

\* Assigning an id, and what else is noted.
Noted(c, k, id, O, L) ==
  [c EXCEPT !.ids[k] = id, !.orphans = c.orphans \cup O, !.late = c.late \cup L]
IdSets == SUBSET Int
Rewritten(c, d, k, id, O, L) ==
  /\ NewId(c, d, k, id) /\ d.orphans = c.orphans \cup O /\ d.late = c.late \cup L
  /\ d.state = c.state /\ d.early = c.early /\ Waiting(d) = Waiting(c)
LEMMA NewIdIs ==
  ASSUME NEW c \in Connection, NEW k \in Kinds, NEW id \in Int, NEW O \in IdSets, NEW L \in IdSets,
         NEW d, d = Noted(c, k, id, O, L)
  PROVE  Rewritten(c, d, k, id, O, L)
<1>1. c.ids \in [Kinds -> Int] /\ c.orphans \cup O \in SUBSET Int /\ c.late \cup L \in SUBSET Int
  BY DEF Connection, IdSets
<1>2. PICK I : /\ I \in [Kinds -> Int] /\ I = [c.ids EXCEPT ![k] = id]
               /\ I[k] = id /\ \A j \in Kinds : j # k => I[j] = c.ids[j]
  <2>1. PICK I : I = [c.ids EXCEPT ![k] = id]
    OBVIOUS
  <2>2. I \in [Kinds -> Int] /\ I[k] = id /\ \A j \in Kinds : j # k => I[j] = c.ids[j]
    BY <1>1, <2>1, SMT
  <2> QED
    BY <2>1, <2>2
<1>3. PICK A, B : /\ A \in SUBSET Int /\ B \in SUBSET Int /\ A = c.orphans \cup O /\ B = c.late \cup L
                  /\ d = [c EXCEPT !.ids = I, !.orphans = A, !.late = B]
  BY <1>1, <1>2 DEF Noted
<1>4. d \in Connection
  BY <1>2, <1>3 DEF Connection
<1>5. /\ d.ids = I /\ d.orphans = A /\ d.late = B /\ d.state = c.state /\ d.early = c.early
      /\ d.created = c.created /\ d.idle = c.idle /\ d.mixed = c.mixed
      /\ d.timers = c.timers /\ d.batch = c.batch /\ d.todo = c.todo
  BY <1>3 DEF Connection
<1> QED
  BY <1>2, <1>3, <1>4, <1>5 DEF NewId, Waiting, Rewritten

\* The id of the new timer is assigned.
LEMMA LoopAssignKeeps ==
  ASSUME NEW c, NEW l, NEW q, NEW s, NEW u, Whole(c, l, q, s, u), l.step = "assign",
         NEW L, L = {i \in {c.created} : l.kind = "idle" /\ ~c.idle /\ ~Off(u)},
         NEW d, d = [c EXCEPT !.ids[l.kind] = c.created, !.late = c.late \cup L],
         NEW m, m = After(l.more)
  PROVE  Whole(d, m, q, s, u)
<1>1. /\ c \in Connection /\ l.more \in BOOLEAN /\ l.kind \in Shared /\ l.kind \in Kinds
      /\ c.batch = {} /\ Timers(c, l, q, u) /\ c.created \in Int
  BY StepTypes, SMT DEF Whole, BusyInv
<1>2. L \in IdSets
  BY <1>1 DEF IdSets
<1>3. /\ NewId(c, d, l.kind, c.created) /\ d.late = c.late \cup L
      /\ d.state = c.state /\ d.early = c.early /\ Waiting(d) = Waiting(c)
  <2>1. c.orphans \cup {} = c.orphans /\ {} \in IdSets
    BY DEF IdSets
  <2>2. d = Noted(c, l.kind, c.created, {}, L)
    BY <1>1, <2>1 DEF Noted, Connection
  <2>3. Rewritten(c, d, l.kind, c.created, {}, L)
    BY <1>1, <1>2, <2>1, <2>2, NewIdIs
  <2> QED
    BY <2>3 DEF Rewritten
<1>4. Left(m, l.more) /\ BusyInv(d, m) /\ m.step \notin {"assign", "drop"}
  <2>1. Left(m, l.more) /\ d.batch = {}
    BY <1>1, <1>3, AfterIs DEF NewId
  <2> QED
    BY <1>1, <2>1, LeftBusy
<1>5. l.kind = "keepAlive" \/ Gone(c, l.kind)
  BY <1>1 DEF Whole, BusyInv, Writes, Gone, Shared
<1>6. l.kind = "idle" /\ ~c.idle => Off(u) \/ c.created \in d.late
  BY <1>3
<1>7. Timers(d, m, q, u)
  BY <1>1, <1>3, <1>4, <1>5, <1>6, AssignKeeps
<1>8. ArmedInv(d, m, q, s, u)
  <2>1. d.idle = c.idle /\ d.mixed = c.mixed /\ ~Starts(l)
    BY <1>3 DEF NewId, Starts
  <2> QED
    BY <1>3, <2>1, StaysArmed DEF Whole, KeepsIdle
<1>9. SetupInv(d, q, s, u)
  <2>1. SetupInv(c, q, s, u) /\ d.state = c.state
    BY <1>3 DEF Whole
  <2> QED
    BY <2>1, StaysSetUp
<1> QED
  BY <1>3, <1>4, <1>7, <1>8, <1>9 DEF Whole, Types, Left, NewId

\* A timer that is turned off is cancelled.
LEMMA LoopDropKeeps ==
  ASSUME NEW c, NEW l, NEW q, NEW s, NEW u, Whole(c, l, q, s, u), l.step = "drop",
         NEW d, d = Cancel(c, c.ids[l.kind]), NEW m, m = At("clear", l.kind, l.more)
  PROVE  Whole(d, m, q, s, u)
<1>1. /\ c \in Connection /\ l.more \in BOOLEAN /\ l.kind \in Shared /\ l.kind \in Kinds
      /\ c.batch = {} /\ c.todo = {} /\ Timers(c, l, q, u) /\ IdsInv(c, l)
      /\ c.ids[l.kind] \in Int
  BY StepTypes DEF Whole, BusyInv, Timers
<1>2. Less(c, d) /\ Cancelled(c, d, c.ids[l.kind]) /\ d.state = c.state /\ d.early = c.early
  <2>1. Less(c, d) /\ Cancelled(c, d, c.ids[l.kind])
    BY <1>1, CancelLess
  <2> QED
    BY <2>1 DEF Cancelled, Rest
<1>3. m \in Loop /\ m.step = "clear" /\ m.kind = l.kind /\ m.more = l.more
  BY <1>1 DEF At, Loop
<1>4. Gone(d, l.kind)
  BY <1>1, <1>2, CancelGone
<1>5. Timers(d, m, q, u)
  <2>1. Timers(d, l, q, u)
    BY <1>1, <1>2, LessKeeps
  <2>2. \A t \in Waiting(d) : ~Drops(d, l, t)
    BY <1>4 DEF Drops, Gone
  <2> QED
    BY <1>3, <2>1, <2>2, MoveKeeps DEF Moves
<1>6. BusyInv(d, m)
  BY <1>1, <1>2, <1>3, <1>4 DEF BusyInv, Gone, Less
<1>7. ArmedInv(d, m, q, s, u)
  <2>1. CASE l.kind = "idle"
    BY <1>1, <1>2, <2>1 DEF ArmedInv, Less, Timers, OnInv
  <2>2. CASE l.kind # "idle"
    <3>1. KeepsIdle(c, d)
      BY <1>1, <1>2, <2>2, OtherKind
    <3> QED
      BY <1>2, <3>1, StaysArmed DEF Whole, Less, Starts
  <2> QED
    BY <2>1, <2>2
<1>8. SetupInv(d, q, s, u)
  BY <1>2, StaysSetUp DEF Whole
<1> QED
  BY <1>2, <1>3, <1>5, <1>6, <1>7, <1>8 DEF Whole, Types, Less

\* Its id is forgotten.
LEMMA LoopClearKeeps ==
  ASSUME NEW c, NEW l, NEW q, NEW s, NEW u, Whole(c, l, q, s, u), l.step = "clear",
         NEW d, d = [c EXCEPT !.ids[l.kind] = NoId], NEW m, m = After(l.more)
  PROVE  Whole(d, m, q, s, u)
<1>1. /\ c \in Connection /\ l.more \in BOOLEAN /\ l.kind \in Shared /\ l.kind \in Kinds
      /\ c.batch = {} /\ Timers(c, l, q, u) /\ Gone(c, l.kind)
  BY StepTypes DEF Whole, BusyInv, Writes, Gone
<1>2. NewId(c, d, l.kind, NoId) /\ d.state = c.state /\ d.early = c.early /\ Waiting(d) = Waiting(c)
  <2>1. /\ c.orphans \cup {} = c.orphans /\ c.late \cup {} = c.late /\ {} \in IdSets
        /\ NoId \in Int
    BY SMT DEF NoId, IdSets
  <2>2. d = Noted(c, l.kind, NoId, {}, {})
    BY <1>1, <2>1 DEF Noted, Connection
  <2>3. Rewritten(c, d, l.kind, NoId, {}, {})
    BY <1>1, <2>1, <2>2, NewIdIs
  <2> QED
    BY <2>3 DEF Rewritten
<1>3. Left(m, l.more) /\ BusyInv(d, m) /\ m.step \notin {"assign", "drop"}
  BY <1>1, <1>2, AfterIs, LeftBusy DEF NewId
<1>4. Timers(d, l, q, u)
  BY <1>1, <1>2, ForgetKeeps DEF Gone
<1>5. Timers(d, m, q, u)
  BY <1>3, <1>4, MoveKeeps DEF Moves, Drops
<1>6. ArmedInv(d, m, q, s, u)
  BY <1>2, StaysArmed DEF Whole, NewId, Starts, KeepsIdle
<1>7. SetupInv(d, q, s, u)
  BY <1>2, StaysSetUp DEF Whole
<1> QED
  BY <1>2, <1>3, <1>5, <1>6, <1>7 DEF Whole, Types, Left, NewId

\* A closed connection, and a keep-alive that finds it closed, cancel a timer.
LEMMA LoopCloseKeeps ==
  ASSUME NEW c, NEW l, NEW q, NEW s, NEW u, Whole(c, l, q, s, u), l.step = "close",
         NEW d, d = Cancel(c, c.ids[l.kind]),
         NEW m, m = IF l.kind = "idle" THEN At("close", "keepAlive", l.more) ELSE After(l.more)
  PROVE  Whole(d, m, q, s, u)
<1>1. /\ c \in Connection /\ l.more \in BOOLEAN /\ l.kind \in Kinds /\ (l.more => c.batch = {})
      /\ Timers(c, l, q, u) /\ IdsInv(c, l) /\ c.ids[l.kind] \in Int
  BY StepTypes DEF Whole, BusyInv, Timers
<1>2. Less(c, d) /\ Cancelled(c, d, c.ids[l.kind]) /\ d.state = c.state /\ d.early = c.early
  <2>1. Less(c, d) /\ Cancelled(c, d, c.ids[l.kind])
    BY <1>1, CancelLess
  <2> QED
    BY <2>1 DEF Cancelled, Rest
<1>3. Timers(d, l, q, u)
  BY <1>1, <1>2, LessKeeps
<1>4. m \in Loop /\ BusyInv(d, m) /\ m.step \notin {"assign", "drop"}
  <2>1. CASE l.kind = "idle"
    <3>1. m \in Loop /\ m.step = "close" /\ m.kind = "keepAlive" /\ m.more = l.more
      BY <1>1, <2>1 DEF At, Loop, Shared
    <3> QED
      BY <1>1, <1>2, <3>1 DEF BusyInv, Writes, Less
  <2>2. CASE l.kind # "idle"
    BY <1>1, <1>2, <2>2, AfterIs, LeftBusy DEF Left, Less
  <2> QED
    BY <2>1, <2>2
<1>5. Timers(d, m, q, u)
  BY <1>3, <1>4, MoveKeeps DEF Moves, Drops
<1>6. ArmedInv(d, m, q, s, u)
  <2>1. CASE l.kind = "idle"
    BY <1>2, <2>1 DEF Whole, BusyInv, ArmedInv
  <2>2. CASE l.kind # "idle"
    <3>1. KeepsIdle(c, d)
      BY <1>1, <1>2, <2>2, OtherKind
    <3> QED
      BY <1>2, <3>1, StaysArmed DEF Whole, Less, Starts
  <2> QED
    BY <2>1, <2>2
<1>7. SetupInv(d, q, s, u)
  BY <1>2, StaysSetUp DEF Whole
<1> QED
  BY <1>2, <1>4, <1>5, <1>6, <1>7 DEF Whole, Types, Less


-----------------------------------------------------------------------------
\* The queue p is q with f appended, or q without its first functor.
Grown(q, p, f) ==
  /\ p \in Seq(Functors) /\ Len(p) = Len(q) + 1
  /\ \A i \in DOMAIN q : i \in DOMAIN p /\ p[i] = q[i] /\ Len(p) > i
  /\ Len(p) \in DOMAIN p /\ p[Len(p)] = f
  /\ \A i \in DOMAIN p : i \in DOMAIN q \/ i = Len(p)
Shrunk(q, p) ==
  /\ p \in Seq(Functors) /\ 1 \in DOMAIN q /\ Len(q) = Len(p) + 1
  /\ \A i \in DOMAIN p : i + 1 \in DOMAIN q /\ p[i] = q[i + 1]
  /\ \A j \in DOMAIN q : j = 1 \/ (j - 1 \in DOMAIN p /\ p[j - 1] = q[j])

\* The result of Append.
LEMMA AppendIs ==
  ASSUME NEW q \in Seq(Functors), NEW f \in Functors
  PROVE  Grown(q, Append(q, f), f)
<1>1. PICK p : p = Append(q, f)
  OBVIOUS
<1>2. /\ p \in Seq(Functors) /\ Len(p) = Len(q) + 1 /\ Len(q) \in Nat
      /\ \A i \in 1 .. Len(q) : p[i] = q[i]
      /\ p[Len(q) + 1] = f /\ DOMAIN q = 1 .. Len(q) /\ DOMAIN p = 1 .. Len(p)
  BY <1>1, SMT
<1> QED
  BY <1>1, <1>2, SMT DEF Grown

\* The result of Tail.
LEMMA TailIs ==
  ASSUME NEW q \in Seq(Functors), q # <<>>
  PROVE  Shrunk(q, Tail(q)) /\ Head(q) = q[1] /\ q[1] \in Functors
<1>1. PICK p : p = Tail(q)
  OBVIOUS
<1>2. /\ p \in Seq(Functors) /\ Len(p) = Len(q) - 1 /\ Len(q) \in Nat /\ Len(q) > 0
      /\ \A i \in 1 .. Len(p) : p[i] = q[i + 1]
      /\ DOMAIN q = 1 .. Len(q) /\ DOMAIN p = 1 .. Len(p)
  BY <1>1, EmptySeq, HeadTailProperties, SMT
<1>3. Head(q) = q[1] /\ q[1] \in Functors
  BY <1>2, SMT
<1>4. Shrunk(q, p)
  BY <1>2, SMT DEF Shrunk
<1> QED
  BY <1>1, <1>3, <1>4

\* The elements of a queue.
LEMMA FunctorTypes ==
  ASSUME NEW q \in Seq(Functors), NEW i \in DOMAIN q
  PROVE  /\ i \in Nat /\ q[i] \in Functors
         /\ q[i][1] = "cancel" => q[i][2] \in Int /\ q[i] = <<"cancel", q[i][2]>>
<1>1. i \in Nat /\ q[i] \in Functors
  BY SMT
<1> QED
  BY <1>1, SMT DEF Functors

\* A functor queued behind the others.
LEMMA AppendKeeps ==
  ASSUME NEW c, NEW l, NEW q \in Seq(Functors), NEW u, Timers(c, l, q, u), NEW f \in Functors,
         f[1] = "cancel" =>
           f[2] <= c.created /\ (c.idle /\ ~c.mixed => \A t \in Waiting(c) : t.kind = "idle" => f[2] # t.id),
         NEW p, p = Append(q, f)
  PROVE  Timers(c, l, p, u) /\ Grown(q, p, f)
<1>1. Grown(q, p, f)
  BY AppendIs
<1>2. (\A id : CancelQueued(q, id) => CancelQueued(p, id)) /\ (StartQueued(q) => StartQueued(p))
  BY <1>1 DEF CancelQueued, StartQueued, Grown
<1>3. IdsInv(c, l) /\ OldIds(c, p, u)
  BY <1>1 DEF Timers, OldIds, Grown
<1>4. CancelInv(c, l, p, u)
  BY <1>2 DEF Timers, CancelInv, Known
<1>5. OffInv(c, l, p, u)
  BY <1>2 DEF Timers, OffInv, Harmless
<1>6. OnInv(c, l, p, u)
  <2>1. ASSUME c.idle /\ ~c.mixed, NEW i \in DOMAIN p, NEW t \in Waiting(c),
               t.kind = "idle", p[i] = <<"cancel", t.id>>
        PROVE  Replaced(p, u, i)
    <3>1. CASE i \in DOMAIN q
      <4>1. q[i] = <<"cancel", t.id>>
        BY <1>1, <2>1, <3>1 DEF Grown
      <4>2. Replaced(q, u, i)
        BY <2>1, <3>1, <4>1 DEF Timers, OnInv
      <4> QED
        BY <1>1, <4>2 DEF Grown, Replaced
    <3>2. CASE i = Len(p)
      <4>1. f = <<"cancel", t.id>>
        BY <1>1, <2>1, <3>2 DEF Grown
      <4> QED
        BY <2>1, <4>1
    <3> QED
      BY <1>1, <3>1, <3>2 DEF Grown
  <2> QED
    BY <1>2, <2>1 DEF Timers, OnInv
<1> QED
  BY <1>1, <1>3, <1>4, <1>5, <1>6 DEF Timers

\* The first functor leaves the queue once it has run.
LEMMA TailKeeps ==
  ASSUME NEW c, NEW l, NEW q \in Seq(Functors), NEW u, Timers(c, l, q, u), q # <<>>, l.step # "drop",
         q[1][1] = "cancel" => \A t \in Waiting(c) : t.id # q[1][2],
         NEW p, p = Tail(q)
  PROVE  Timers(c, l, p, u) /\ Shrunk(q, p)
<1>1. Shrunk(q, p) /\ p \in Seq(Functors)
  BY TailIs DEF Shrunk
<1>2. \A id : CancelQueued(q, id) => CancelQueued(p, id) \/ q[1] = <<"cancel", id>>
  <2> SUFFICES ASSUME NEW id, NEW j \in DOMAIN q, q[j] = <<"cancel", id>>, j # 1
               PROVE  CancelQueued(p, id)
    BY DEF CancelQueued
  <2>1. j - 1 \in DOMAIN p /\ p[j - 1] = <<"cancel", id>>
    BY <1>1 DEF Shrunk
  <2> QED
    BY <2>1 DEF CancelQueued
<1>3. \A id : q[1] = <<"cancel", id>> => q[1][1] = "cancel" /\ q[1][2] = id
  BY SMT
<1>4. \A t \in Waiting(c) : CancelQueued(q, t.id) => CancelQueued(p, t.id)
  BY <1>2, <1>3
<1>5. OldIds(c, p, u)
  <2>1. \A i \in DOMAIN p : p[i][1] = "cancel" => p[i][2] <= c.created
    <3> SUFFICES ASSUME NEW i \in DOMAIN p, p[i][1] = "cancel"
                 PROVE  p[i][2] <= c.created
      OBVIOUS
    <3>1. PICK j : j = i + 1 /\ j \in DOMAIN q /\ p[i] = q[j]
      BY <1>1 DEF Shrunk
    <3>2. \A k \in DOMAIN q : q[k][1] = "cancel" => q[k][2] <= c.created
      BY DEF Timers, OldIds
    <3> QED
      BY <3>1, <3>2
  <2> QED
    BY <2>1 DEF Timers, OldIds
<1>6. CancelInv(c, l, p, u)
  BY <1>2, <1>3, <1>4 DEF Timers, CancelInv, Known
<1>7. OffInv(c, l, p, u)
  BY <1>4 DEF Timers, OffInv, Harmless
<1>8. OnInv(c, l, p, u)
  <2>1. ASSUME c.idle /\ ~c.mixed, NEW i \in DOMAIN p, NEW t \in Waiting(c),
               t.kind = "idle", p[i] = <<"cancel", t.id>>
        PROVE  Replaced(p, u, i)
    <3>1. i + 1 \in DOMAIN q /\ q[i + 1] = <<"cancel", t.id>>
      BY <1>1, <2>1 DEF Shrunk
    <3>2. Replaced(q, u, i + 1)
      BY <2>1, <3>1 DEF Timers, OnInv
    <3>3. ASSUME NEW j \in DOMAIN q, j > i + 1, q[j] = <<"idle">>
          PROVE  j - 1 \in DOMAIN p /\ j - 1 > i /\ p[j - 1] = <<"idle">>
      <4>1. i \in Nat /\ j \in Nat
        BY <1>1, FunctorTypes
      <4>2. j # 1 /\ j - 1 > i
        BY <3>3, <4>1, SMT
      <4> QED
        BY <1>1, <3>3, <4>2 DEF Shrunk
    <3> QED
      BY <3>2, <3>3 DEF Replaced
  <2> QED
    BY <2>1 DEF Timers, OnInv
<1> QED
  BY <1>1, <1>5, <1>6, <1>7, <1>8 DEF Timers

\* newConnection() queues its next functor.
LEMMA QueueSetupKeeps ==
  ASSUME NEW c, NEW l, NEW q, NEW s, NEW u, Whole(c, l, q, s, u), s # <<>>,
         NEW p, p = Append(q, Head(s)), NEW r, r = Tail(s)
  PROVE  Whole(c, l, p, r, u)
<1>1. PICK f \in Functors : f = s[1] /\ f = Head(s) /\ Shrunk(s, r) /\ s \in Seq(Functors)
  BY StepTypes, TailIs
<1>2. f[1] # "cancel"
  BY <1>1 DEF Whole, SetupInv, Shrunk
<1>3. Timers(c, l, p, u) /\ Grown(q, p, f)
  <2>1. q \in Seq(Functors) /\ Timers(c, l, q, u)
    BY DEF Whole, Types
  <2> QED
    BY <1>1, <1>2, <2>1, AppendKeeps
<1>4. StartQueued(q) => StartQueued(p)
  BY <1>3 DEF StartQueued, Grown
<1>5. StartQueued(s) => StartQueued(p) \/ StartQueued(r)
  <2>1. ASSUME NEW j \in DOMAIN s, s[j] = <<"idle">>
        PROVE  StartQueued(p) \/ StartQueued(r)
    <3>1. CASE j = 1
      BY <1>1, <1>3, <2>1, <3>1 DEF StartQueued, Grown
    <3>2. CASE j # 1
      <4>1. j - 1 \in DOMAIN r /\ r[j - 1] = <<"idle">>
        BY <1>1, <2>1, <3>2 DEF Shrunk
      <4> QED
        BY <4>1 DEF StartQueued
    <3> QED
      BY <3>1, <3>2
  <2> QED
    BY <2>1 DEF StartQueued
<1>6. ArmedInv(c, l, p, r, u)
  BY <1>4, <1>5 DEF Whole, ArmedInv
<1>7. \A i \in DOMAIN r : r[i][1] # "cancel"
  <2> SUFFICES ASSUME NEW i \in DOMAIN r
               PROVE  r[i][1] # "cancel"
    OBVIOUS
  <2>1. PICK j : j = i + 1 /\ j \in DOMAIN s /\ r[i] = s[j]
    BY <1>1 DEF Shrunk
  <2> QED
    BY <2>1 DEF Whole, SetupInv
<1>8. c.state = "kConnecting" /\ u.step = "free" /\ Ends(s) /\ Without(q)
  BY DEF Whole, SetupInv
<1>9. q \in Seq(Functors)
  BY DEF Whole, Types
<1>10. CASE r = <<>>
  <2>1. Len(s) = 1
    BY <1>1, <1>10, SMT DEF Shrunk
  <2>2. f = Established
    BY <1>1, <1>8, <2>1 DEF Ends
  <2>3. Ends(p)
    <3>1. p # <<>> /\ Len(p) \in Nat /\ DOMAIN q = 1 .. Len(p) - 1
      BY <1>3, <1>9, SMT DEF Grown
    <3>2. p[Len(p)] = Established /\ \A i \in DOMAIN q : p[i] # Established
      BY <1>3, <1>8, <2>2 DEF Grown, Without
    <3> QED
      BY <3>1, <3>2 DEF Ends
  <2>4. SetupInv(c, p, r, u)
    BY <1>7, <1>8, <1>10, <2>3 DEF SetupInv
  <2> QED
    BY <1>1, <1>3, <1>6, <2>4 DEF Whole, Types, Shrunk, Grown
<1>11. CASE r # <<>>
  <2>1. /\ Len(r) \in Nat /\ Len(r) > 0 /\ Len(s) = Len(r) + 1 /\ DOMAIN r = 1 .. Len(r)
        /\ 1 \in 1 .. Len(s) - 1 /\ \A i \in 1 .. Len(r) - 1 : i + 1 \in 1 .. Len(s) - 1
    BY <1>1, <1>11, EmptySeq, SMT DEF Shrunk
  <2>2. f # Established
    BY <1>1, <1>8, <2>1 DEF Ends
  <2>3. Without(p)
    BY <1>3, <1>8, <2>2 DEF Without, Grown
  <2>4. Ends(r)
    <3>1. \A i \in DOMAIN r : r[i] = s[i + 1]
      BY <1>1 DEF Shrunk
    <3>2. Len(r) \in DOMAIN r /\ \A i \in 1 .. Len(r) - 1 : i \in DOMAIN r
      BY <2>1, SMT
    <3>3. r[Len(r)] = Established
      BY <1>8, <2>1, <3>1, <3>2 DEF Ends
    <3>4. \A i \in 1 .. Len(r) - 1 : r[i] # Established
      BY <1>8, <2>1, <3>1, <3>2 DEF Ends
    <3> QED
      BY <1>11, <3>3, <3>4 DEF Ends
  <2>5. SetupInv(c, p, r, u)
    BY <1>7, <1>8, <1>11, <2>3, <2>4 DEF SetupInv
  <2> QED
    BY <1>1, <1>3, <1>6, <2>5 DEF Whole, Types, Shrunk, Grown
<1> QED
  BY <1>10, <1>11


-----------------------------------------------------------------------------
\* The user's thread calls, or is in a call: the connection is established.
LEMMA UserSetUp ==
  ASSUME NEW c, NEW q, NEW s, NEW u, SetupInv(c, q, s, u),
         c.state # "kConnecting" \/ u.step # "free",
         NEW p, p = q \/ \E f : f # Established /\ Grown(q, p, f),
         NEW d, d.state = c.state, NEW v
  PROVE  SetupInv(d, p, s, v)
<1>1. c.state # "kConnecting" /\ s = <<>> /\ Without(q)
  BY DEF SetupInv
<1>2. Without(p)
  BY <1>1 DEF Without, Grown
<1> QED
  BY <1>1, <1>2 DEF SetupInv

\* setConnectionTimeout() queues its functor.
LEMMA UserSetConnectionTimeoutKeeps ==
  ASSUME NEW c, NEW l, NEW q, NEW s, NEW u, Whole(c, l, q, s, u), u.step = "free",
         c.state # "kConnecting", NEW on \in BOOLEAN, NEW p, p = Append(q, <<"connection", on>>),
         NEW v, v = [u EXCEPT !.calls = u.calls + 1]
  PROVE  Whole(c, l, p, s, v)
<1>1. PICK f \in Functors : f = <<"connection", on>> /\ f[1] # "cancel" /\ f # Established /\ f # <<"idle">>
  <2>1. <<"connection", on>> \in Functors /\ <<"connection", on>>[1] # "cancel"
    BY SMT DEF Functors
  <2>2. <<"connection", on>> # Established /\ <<"connection", on>> # <<"idle">>
    BY SMT DEF Established
  <2> QED
    BY <2>1, <2>2
<1>2. q \in Seq(Functors) /\ u \in User /\ Timers(c, l, q, u) /\ c.created \in Nat
  BY StepTypes DEF Whole
<1>3. v \in User /\ v.step = "free" /\ v.id = u.id
  <2>1. u.calls + 1 \in Nat
    BY <1>2, SMT DEF User
  <2> QED
    BY <1>2, <2>1 DEF User
<1>4. Timers(c, l, p, u) /\ Grown(q, p, f)
  BY <1>1, <1>2, AppendKeeps
<1>5. Timers(c, l, p, v)
  <2>1. UserMoves(c, p, u, v)
    BY <1>2, <1>3 DEF UserMoves, Off, On, Timers, OldIds
  <2>2. ~Off(u)
    BY DEF Off
  <2> QED
    BY <1>4, <2>1, <2>2, UserKeeps
<1>6. ArmedInv(c, l, p, s, v)
  <2>1. StartQueued(q) => StartQueued(p)
    BY <1>4 DEF StartQueued, Grown
  <2> QED
    BY <2>1 DEF Whole, ArmedInv, On
<1>7. SetupInv(c, p, s, v)
  BY <1>1, <1>4, UserSetUp DEF Whole
<1> QED
  BY <1>3, <1>4, <1>5, <1>6, <1>7 DEF Whole, Types, Grown

\* The ids do not depend on the settings.
LEMMA SameIds ==
  ASSUME NEW c, NEW l, IdsInv(c, l), NEW d, d.ids = c.ids, d.created = c.created,
         d.timers = c.timers, d.batch = c.batch, d.todo = c.todo
  PROVE  IdsInv(d, l)
BY DEF IdsInv

\* idleTimeout_ or keepAliveEnabled_ is stored.
LEMMA UserStoreKeeps ==
  ASSUME NEW c, NEW l, NEW q, NEW s, NEW u, Whole(c, l, q, s, u), u.step = "free",
         c.state # "kConnecting", NEW k \in Shared, NEW on \in BOOLEAN,
         NEW d, d = IF k = "idle" THEN [c EXCEPT !.idle = on] ELSE [c EXCEPT !.keepAlive = on],
         NEW v, v = [step |-> IF on THEN "post" ELSE "test", kind |-> k, id |-> NoId,
                     calls |-> u.calls + 1]
  PROVE  Whole(d, l, q, s, v)
<1>1. c \in Connection /\ u \in User /\ Timers(c, l, q, u) /\ c.created \in Nat
  BY StepTypes DEF Whole
<1>2. /\ v \in User /\ v.step = (IF on THEN "post" ELSE "test") /\ v.kind = k /\ v.id = NoId
      /\ NoId <= c.created
  <2>1. u.calls + 1 \in Nat /\ NoId \in Int /\ NoId <= c.created
    BY <1>1, SMT DEF User, NoId
  <2> QED
    BY <2>1 DEF User
<1>3. /\ d \in Connection /\ d.idle = (IF k = "idle" THEN on ELSE c.idle) /\ d.state = c.state
      /\ d.early = c.early /\ d.mixed = c.mixed /\ d.ids = c.ids /\ d.created = c.created
      /\ d.timers = c.timers /\ d.batch = c.batch /\ d.todo = c.todo
      /\ d.orphans = c.orphans /\ d.late = c.late
  <2>1. CASE k = "idle"
    BY <1>1, <2>1 DEF Connection
  <2>2. CASE k # "idle"
    BY <1>1, <2>2 DEF Connection
  <2> QED
    BY <2>1, <2>2
<1>4. Waiting(d) = Waiting(c)
  BY <1>3 DEF Waiting
<1>5. ~Off(u) /\ ~On(u)
  BY DEF Off, On
<1>6. IdsInv(d, l) /\ OldIds(d, q, v) /\ BusyInv(d, l)
  <2>1. IdsInv(d, l)
    BY <1>1, <1>3, SameIds DEF Timers
  <2>2. OldIds(d, q, v)
    BY <1>1, <1>2, <1>3 DEF Timers, OldIds
  <2>3. BusyInv(d, l)
    BY <1>3, <1>4 DEF Whole, BusyInv
  <2> QED
    BY <2>1, <2>2, <2>3
<1>7. CancelInv(d, l, q, v)
  BY <1>1, <1>2, <1>3, <1>4 DEF Timers, CancelInv, Known, Assigns
<1>8. OffInv(d, l, q, v)
  <2>1. CASE k = "idle"
    BY <1>2, <1>3, <2>1 DEF OffInv, Harmless, Off
  <2>2. CASE k # "idle"
    BY <1>1, <1>3, <1>4, <1>5, <2>2 DEF Timers, OffInv, Harmless, Assigns, Drops
  <2> QED
    BY <2>1, <2>2
<1>9. OnInv(d, l, q, v)
  <2>1. CASE k = "idle"
    BY <1>2, <1>3, <2>1 DEF OnInv, Replaced, On, Off
  <2>2. CASE k # "idle"
    <3>1. ~Off(v)
      BY <1>2, <2>2 DEF Off
    <3> QED
      BY <1>1, <1>3, <1>4, <1>5, <2>2, <3>1 DEF Timers, OnInv, Replaced
  <2> QED
    BY <2>1, <2>2
<1>10. ArmedInv(d, l, q, s, v)
  <2>1. CASE k = "idle"
    BY <1>2, <1>3, <2>1 DEF ArmedInv, On
  <2>2. CASE k # "idle"
    BY <1>3, <1>4, <1>5, <2>2 DEF Whole, ArmedInv
  <2> QED
    BY <2>1, <2>2
<1>11. SetupInv(d, q, s, v)
  BY <1>3, UserSetUp, ZenonT(30) DEF Whole
<1> QED
  BY <1>2, <1>3, <1>6, <1>7, <1>8, <1>9, <1>10, <1>11 DEF Whole, Types, Timers

\* The user's thread leaves its setter.
LEMMA ReturnedIs ==
  ASSUME NEW u \in User, NEW v, v = [u EXCEPT !.step = "free", !.kind = "idle", !.id = NoId]
  PROVE  v \in User /\ v.step = "free" /\ v.id = NoId /\ ~On(v) /\ ~Off(v)
<1>1. NoId \in Int
  BY SMT DEF NoId
<1>2. v \in User /\ v.step = "free" /\ v.id = NoId
  BY <1>1 DEF User, Shared
<1> QED
  BY <1>2 DEF On, Off

\* The functor that starts the timer is queued, unless the timeout is off again.
LEMMA UserPostKeeps ==
  ASSUME NEW c, NEW l, NEW q, NEW s, NEW u, Whole(c, l, q, s, u), u.step = "post",
         NEW p, p = IF u.kind = "idle" /\ ~c.idle THEN q ELSE Append(q, <<u.kind>>),
         NEW v, v = [u EXCEPT !.step = "free", !.kind = "idle", !.id = NoId]
  PROVE  Whole(c, l, p, s, v)
<1>1. q \in Seq(Functors) /\ u \in User /\ Timers(c, l, q, u) /\ c.created \in Nat /\ u.kind \in Shared
  <2>1. q \in Seq(Functors) /\ u \in User /\ Timers(c, l, q, u) /\ c.created \in Nat
    BY StepTypes DEF Whole
  <2> QED
    BY <2>1 DEF User
<1>2. v \in User /\ v.step = "free" /\ v.id = NoId /\ ~On(v) /\ ~Off(v) /\ NoId <= c.created
  <2>1. NoId <= c.created
    BY <1>1, SMT DEF NoId
  <2> QED
    BY <1>1, <2>1, ReturnedIs
<1>3. ~Off(u)
  BY DEF Off
<1>4. CASE u.kind = "idle" /\ ~c.idle
  <2>1. UserMoves(c, q, u, v)
    BY <1>2, <1>4 DEF UserMoves
  <2>2. Timers(c, l, q, v)
    BY <1>1, <1>3, <2>1, UserKeeps
  <2>3. ArmedInv(c, l, q, s, v)
    BY <1>4 DEF ArmedInv
  <2>4. SetupInv(c, q, s, v)
    BY UserSetUp DEF Whole
  <2> QED
    BY <1>2, <1>4, <2>2, <2>3, <2>4 DEF Whole, Types
<1>5. CASE ~(u.kind = "idle" /\ ~c.idle)
  <2>1. PICK f \in Functors : /\ f = <<u.kind>> /\ f[1] # "cancel" /\ f # Established
                              /\ p = Append(q, f)
    <3>1. <<"idle">> \in Functors /\ <<"idle">>[1] # "cancel" /\ <<"idle">> # Established
      BY SMT DEF Functors, Established
    <3>2. <<"keepAlive">> \in Functors /\ <<"keepAlive">>[1] # "cancel" /\ <<"keepAlive">> # Established
      BY SMT DEF Functors, Established
    <3> QED
      BY <1>1, <1>5, <3>1, <3>2 DEF Shared
  <2>2. Timers(c, l, p, u) /\ Grown(q, p, f)
    BY <1>1, <2>1, AppendKeeps
  <2>3. StartQueued(q) \/ On(u) => StartQueued(p)
    BY <2>1, <2>2 DEF StartQueued, On, Grown
  <2>4. Timers(c, l, p, v)
    <3>1. OldIds(c, p, v) /\ CancelInv(c, l, p, v) /\ IdsInv(c, l)
      BY <1>2, <2>2 DEF Timers, OldIds, CancelInv
    <3>2. OffInv(c, l, p, v)
      BY <1>3, <2>2 DEF Timers, OffInv, Harmless
    <3>3. ASSUME c.idle /\ ~c.mixed, NEW i \in DOMAIN p, NEW t \in Waiting(c),
                 t.kind = "idle", p[i] = <<"cancel", t.id>>
          PROVE  Replaced(p, v, i)
      <4>1. Replaced(p, u, i)
        BY <2>2, <3>3 DEF Timers, OnInv
      <4>2. CASE On(u)
        <5>1. f = <<"idle">>
          BY <2>1, <4>2 DEF On
        <5>2. i # Len(p)
          <6>1. p[Len(p)] = <<"idle">>
            BY <2>2, <5>1 DEF Grown
          <6>2. <<"idle">> # <<"cancel", t.id>>
            BY SMT
          <6> QED
            BY <3>3, <6>1, <6>2
        <5>3. Len(p) \in DOMAIN p /\ Len(p) > i /\ p[Len(p)] = <<"idle">>
          BY <2>2, <3>3, <5>1, <5>2 DEF Grown
        <5> QED
          BY <5>3 DEF Replaced
      <4>3. CASE ~On(u)
        BY <4>1, <4>3 DEF Replaced
      <4> QED
        BY <4>2, <4>3
    <3>4. OnInv(c, l, p, v)
      BY <1>2, <2>2, <2>3, <3>3 DEF Timers, OnInv
    <3> QED
      BY <3>1, <3>2, <3>4 DEF Timers
  <2>5. ArmedInv(c, l, p, s, v)
    BY <2>3 DEF Whole, ArmedInv
  <2>6. SetupInv(c, p, s, v)
    BY <2>1, <2>2, UserSetUp DEF Whole
  <2> QED
    BY <1>2, <2>2, <2>4, <2>5, <2>6 DEF Whole, Types, Grown
<1> QED
  BY <1>4, <1>5


\* The types in a step of the user's thread.
LEMMA UserTypes ==
  ASSUME NEW c, NEW l, NEW q, NEW s, NEW u, Whole(c, l, q, s, u)
  PROVE  /\ c \in Connection /\ q \in Seq(Functors) /\ u \in User /\ Timers(c, l, q, u)
         /\ c.created \in Nat /\ NoId <= c.created /\ Torn <= c.created /\ Torn \in Int /\ NoId \in Int
         /\ u.kind \in Shared /\ u.kind \in Kinds /\ u.id \in Int
<1>1. c \in Connection /\ q \in Seq(Functors) /\ u \in User /\ Timers(c, l, q, u) /\ c.created \in Nat
  BY StepTypes DEF Whole
<1>2. u.kind \in Shared /\ u.kind \in Kinds /\ u.id \in Int
  BY <1>1 DEF User, Shared, Kinds
<1>3. NoId <= c.created /\ Torn <= c.created /\ Torn \in Int /\ NoId \in Int
  BY <1>1, SMT DEF NoId, Torn
<1> QED
  BY <1>1, <1>2, <1>3

\* The id is valid: the setter goes on.
LEMMA UserFindsKeeps ==
  ASSUME NEW c, NEW l, NEW q, NEW s, NEW u, Whole(c, l, q, s, u), u.step = "test",
         NEW v, v = [u EXCEPT !.step = "cancel"]
  PROVE  Whole(c, l, q, s, v)
<1>1. u \in User /\ Timers(c, l, q, u)
  BY UserTypes
<1>2. v \in User /\ v.step = "cancel" /\ v.kind = u.kind /\ v.id = u.id
  BY <1>1 DEF User
<1>3. (Off(v) <=> Off(u)) /\ ~On(v) /\ ~On(u)
  BY <1>2 DEF On, Off
<1>4. UserMoves(c, q, u, v)
  BY <1>1, <1>2, <1>3 DEF UserMoves, Timers, OldIds, OnInv
<1>5. Timers(c, l, q, v)
  BY <1>1, <1>3, <1>4, UserKeeps
<1>6. ArmedInv(c, l, q, s, v) /\ SetupInv(c, q, s, v)
  BY <1>3, UserSetUp DEF Whole, ArmedInv
<1> QED
  BY <1>2, <1>5, <1>6 DEF Whole, Types

\* It is not: the timer, if there is one, is about to be assigned.
LEMMA UserFindsNoneKeeps ==
  ASSUME NEW c, NEW l, NEW q, NEW s, NEW u, Whole(c, l, q, s, u), u.step = "test",
         c.ids[u.kind] = NoId, NEW v, v = [u EXCEPT !.step = "free", !.kind = "idle", !.id = NoId]
  PROVE  Whole(c, l, q, s, v)
<1>1. u \in User /\ Timers(c, l, q, u) /\ NoId <= c.created /\ \A t \in Waiting(c) : t.id # NoId
  BY UserTypes, StepTypes
<1>2. v \in User /\ v.step = "free" /\ v.id = NoId /\ ~On(v) /\ ~Off(v)
  BY <1>1, ReturnedIs
<1>3. ~On(u)
  BY DEF On
<1>4. UserMoves(c, q, u, v)
  BY <1>1, <1>2, <1>3 DEF UserMoves
<1>5. ~Off(u) \/ \A t \in Waiting(c) : t.kind = "idle" => Harmless(c, l, q, v, t)
  <2> SUFFICES ASSUME Off(u), NEW t \in Waiting(c), t.kind = "idle"
               PROVE  Harmless(c, l, q, v, t)
    OBVIOUS
  <2>1. t.id # c.ids["idle"]
    BY <1>1 DEF Off
  <2>2. Known(c, l, q, t)
    BY <1>1 DEF Timers, CancelInv
  <2> QED
    BY <2>1, <2>2 DEF Known, Harmless
<1>6. Timers(c, l, q, v)
  BY <1>1, <1>4, <1>5, UserKeeps
<1>7. ArmedInv(c, l, q, s, v) /\ SetupInv(c, q, s, v)
  BY <1>2, <1>3, UserSetUp DEF Whole, ArmedInv
<1> QED
  BY <1>2, <1>6, <1>7 DEF Whole, Types

\* The cancellation of the id is queued.
LEMMA UserCancelKeeps ==
  ASSUME NEW c, NEW l, NEW q, NEW s, NEW u, Whole(c, l, q, s, u), u.step = "cancel",
         NEW id \in {c.ids[u.kind], Torn}, NEW p, p = Append(q, <<"cancel", id>>),
         NEW v, v = [u EXCEPT !.step = "clear", !.id = id]
  PROVE  Whole(c, l, p, s, v)
<1>1. /\ q \in Seq(Functors) /\ u \in User /\ Timers(c, l, q, u) /\ u.kind \in Kinds /\ u.kind \in Shared
      /\ c.todo \subseteq c.batch /\ \A t \in Waiting(c) : t.id # Torn
  BY UserTypes, StepTypes
<1>2. id \in Int /\ id <= c.created
  <2>1. Torn \in Int /\ Torn <= c.created
    BY UserTypes
  <2>2. c.ids[u.kind] \in Int /\ c.ids[u.kind] <= c.created
    BY <1>1, StepTypes DEF Timers, IdsInv
  <2> QED
    BY <2>1, <2>2
<1>3. v \in User /\ v.step = "clear" /\ v.kind = u.kind /\ v.id = id
  BY <1>1, <1>2 DEF User
<1>4. (Off(v) <=> Off(u)) /\ ~On(v) /\ ~On(u)
  BY <1>3 DEF On, Off
<1>5. PICK f \in Functors : f = <<"cancel", id>> /\ f[1] = "cancel" /\ f[2] = id /\ f # Established
  <2>1. <<"cancel", id>> \in Functors
    BY <1>2, SMT DEF Functors
  <2>2. <<"cancel", id>>[1] = "cancel" /\ <<"cancel", id>>[2] = id /\ <<"cancel", id>> # Established
    BY SMT DEF Established
  <2> QED
    BY <2>1, <2>2
<1>6. c.idle /\ ~c.mixed => \A t \in Waiting(c) : t.kind = "idle" => id # t.id
  <2> SUFFICES ASSUME c.idle /\ ~c.mixed, NEW t \in Waiting(c), t.kind = "idle"
               PROVE  id # t.id
    OBVIOUS
  <2>1. u.kind = "keepAlive"
    BY <1>1 DEF Timers, OnInv, Off, Shared
  <2>2. t \in c.timers \cup c.batch
    BY <1>1 DEF Waiting
  <2>3. t.id = c.ids["keepAlive"] => t.kind = "keepAlive"
    BY <1>1, <2>1, <2>2 DEF Timers, IdsInv
  <2> QED
    BY <1>1, <2>1, <2>3
<1>7. Timers(c, l, p, u) /\ Grown(q, p, f)
  BY <1>1, <1>2, <1>5, <1>6, AppendKeeps
<1>8. Timers(c, l, p, v)
  <2>1. CancelQueued(p, id)
    BY <1>5, <1>7 DEF CancelQueued, Grown
  <2>2. UserMoves(c, p, u, v)
    BY <1>2, <1>3, <1>4, <1>7, <2>1 DEF UserMoves, Timers, OnInv
  <2> QED
    BY <1>4, <1>7, <2>2, UserKeeps
<1>9. ArmedInv(c, l, p, s, v)
  <2>1. StartQueued(q) => StartQueued(p)
    BY <1>7 DEF StartQueued, Grown
  <2> QED
    BY <1>4, <2>1 DEF Whole, ArmedInv
<1>10. SetupInv(c, p, s, v)
  BY <1>5, <1>7, UserSetUp DEF Whole
<1> QED
  BY <1>3, <1>7, <1>8, <1>9, <1>10 DEF Whole, Types, Grown

\* The idle timer whose id is forgotten is about to be cancelled, or noted.
Blank == {NoId, Torn}
Accounts(c, d, q, u) ==
  u.kind = "idle" => \A t \in Waiting(c) :
    t.id = c.ids["idle"] => CancelQueued(q, t.id) \/ t.id \in d.orphans

Forgets(c, d, l, q, v) ==
  /\ Timers(d, l, q, v) /\ v \in User /\ ~On(v)
  /\ d.idle = c.idle /\ d.mixed = c.mixed /\ d.batch = c.batch

\* After the id is forgotten and the thread has left.
LEMMA UserForgets ==
  ASSUME NEW c, NEW l, NEW q, NEW s, NEW u, Whole(c, l, q, s, u), u.step = "clear",
         NEW x \in Blank, NEW d, NewId(c, d, u.kind, x), Waiting(d) = Waiting(c),
         Accounts(c, d, q, u),
         NEW v \in User, v.step = "free", v.id = NoId, ~On(v), ~Off(v)
  PROVE  Forgets(c, d, l, q, v)
<1>1. /\ c \in Connection /\ u \in User /\ Timers(c, l, q, u) /\ u.kind \in Shared
      /\ NoId <= c.created /\ \A t \in Waiting(c) : t.id # NoId /\ t.id # Torn
  BY UserTypes, StepTypes
<1>3. /\ d.idle = c.idle /\ d.mixed = c.mixed /\ d.batch = c.batch /\ d.created = c.created
      /\ d.ids[u.kind] = x
  BY DEF NewId
<1>4. u.kind = "keepAlive" \/ \A t \in Waiting(c) :
        t.id = c.ids[u.kind] => CancelQueued(q, t.id) \/ t.id \in d.orphans
  BY <1>1 DEF Shared, Accounts
<1>5. Timers(d, l, q, u)
  BY <1>1, <1>4, ForgetKeeps DEF Blank
<1>6. UserMoves(d, q, u, v)
  BY <1>1, <1>3 DEF UserMoves, On
<1>7. ~Off(u) \/ \A t \in Waiting(d) : t.kind = "idle" => Harmless(d, l, q, v, t)
  <2> SUFFICES ASSUME Off(u), NEW t \in Waiting(d), t.kind = "idle"
               PROVE  Harmless(d, l, q, v, t)
    OBVIOUS
  <2>1. t.id # d.ids["idle"]
    BY <1>1, <1>3 DEF Off, Blank
  <2>2. Known(d, l, q, t)
    BY <1>5 DEF Timers, CancelInv
  <2> QED
    BY <2>1, <2>2 DEF Known, Harmless
<1>8. Timers(d, l, q, v)
  BY <1>5, <1>6, <1>7, UserKeeps
<1> QED
  BY <1>3, <1>8 DEF Forgets


\* The id is forgotten, which may be that of a new timer.
LEMMA UserClearKeeps ==
  ASSUME NEW c, NEW l, NEW q, NEW s, NEW u, Whole(c, l, q, s, u), u.step = "clear",
         NEW O, O = {c.ids[u.kind]} \ {u.id, NoId, Torn},
         NEW d, d = [c EXCEPT !.ids[u.kind] = NoId, !.orphans = c.orphans \cup O],
         NEW v, v = [u EXCEPT !.step = "free", !.kind = "idle", !.id = NoId]
  PROVE  Whole(d, l, q, s, v)
<1>1. /\ c \in Connection /\ Timers(c, l, q, u) /\ u.kind \in Kinds /\ NoId \in Int
      /\ c.ids[u.kind] \in Int /\ \A t \in Waiting(c) : t.id # NoId /\ t.id # Torn /\ t.kind \in Kinds
  BY UserTypes, StepTypes
<1>2. O \in IdSets
  BY <1>1 DEF IdSets
<1>3. Rewritten(c, d, u.kind, NoId, O, {})
  <2>1. c.late \cup {} = c.late /\ {} \in IdSets
    BY DEF IdSets
  <2>2. d = Noted(c, u.kind, NoId, O, {})
    BY <1>1, <2>1 DEF Noted, Connection
  <2> QED
    BY <1>1, <1>2, <2>1, <2>2, NewIdIs
<1>4. /\ NewId(c, d, u.kind, NoId) /\ Waiting(d) = Waiting(c) /\ d.late = c.late /\ O \subseteq d.orphans
      /\ d.state = c.state /\ d.early = c.early /\ d \in Connection
  BY <1>3 DEF Rewritten, NewId
<1>5. Accounts(c, d, q, u) /\ NoId \in Blank
  <2> SUFFICES ASSUME u.kind = "idle", NEW t \in Waiting(c), t.id = c.ids["idle"]
               PROVE  CancelQueued(q, t.id) \/ t.id \in d.orphans
    BY DEF Accounts, Blank
  <2>1. CASE t.id = u.id
    <3>1. t.kind = "idle"
      <4>1. t \in c.timers \cup c.batch
        BY StepTypes DEF Waiting
      <4> QED
        BY <1>1, <4>1 DEF Timers, IdsInv
    <3> QED
      BY <1>1, <2>1, <3>1 DEF Timers, CancelInv
  <2>2. CASE t.id # u.id
    BY <1>1, <1>4, <2>2
  <2> QED
    BY <2>1, <2>2
<1>6. /\ Timers(d, l, q, v) /\ v \in User /\ ~On(v)
      /\ d.idle = c.idle /\ d.mixed = c.mixed /\ d.batch = c.batch
  <2>1. v \in User /\ v.step = "free" /\ v.id = NoId /\ ~On(v) /\ ~Off(v)
    BY UserTypes, ReturnedIs
  <2>2. Forgets(c, d, l, q, v)
    BY <1>4, <1>5, <2>1, UserForgets
  <2> QED
    BY <2>2 DEF Forgets
<1>7. BusyInv(d, l)
  <2>1. Writes(l) => \A t \in Waiting(d) : t.id # d.ids[l.kind]
    <3>1. l.kind \in Kinds
      BY StepTypes
    <3>2. CASE l.kind = u.kind
      BY <1>1, <1>4, <3>2 DEF NewId
    <3>3. CASE l.kind # u.kind
      BY <1>4, <3>1, <3>3 DEF Whole, BusyInv, NewId
    <3> QED
      BY <3>2, <3>3
  <2> QED
    BY <1>4, <1>6, <2>1 DEF Whole, BusyInv
<1>8. ArmedInv(d, l, q, s, v)
  <2>1. ~On(u)
    BY DEF On
  <2> QED
    BY <1>4, <1>6, <2>1 DEF Whole, ArmedInv
<1>9. SetupInv(d, q, s, v)
  BY <1>4, UserSetUp DEF Whole
<1> QED
  BY <1>4, <1>6, <1>7, <1>8, <1>9 DEF Whole, Types

\* The two threads write the id at once: that of the new timer is lost.
LEMMA UserClearTornKeeps ==
  ASSUME NEW c, NEW l, NEW q, NEW s, NEW u, Whole(c, l, q, s, u), u.step = "clear",
         l.step = "assign", l.kind = u.kind,
         NEW d, d = [c EXCEPT !.ids[u.kind] = Torn, !.orphans = c.orphans \cup {c.created}],
         NEW v, v = [u EXCEPT !.step = "free", !.kind = "idle", !.id = NoId],
         NEW m, m = After(l.more)
  PROVE  Whole(d, m, q, s, v)
<1>1. /\ c \in Connection /\ Timers(c, l, q, u) /\ u.kind \in Kinds /\ Torn \in Int /\ l.more \in BOOLEAN
      /\ c.created \in Int /\ c.batch = {}
  <2>1. c \in Connection /\ Timers(c, l, q, u) /\ u.kind \in Kinds /\ Torn \in Int /\ c.created \in Nat
    BY UserTypes
  <2>2. l.more \in BOOLEAN /\ c.batch = {}
    BY StepTypes DEF Whole, BusyInv
  <2> QED
    BY <2>1, <2>2, SMT
<1>2. Rewritten(c, d, u.kind, Torn, {c.created}, {})
  <2>1. c.late \cup {} = c.late /\ {} \in IdSets /\ {c.created} \in IdSets
    BY <1>1 DEF IdSets
  <2>2. d = Noted(c, u.kind, Torn, {c.created}, {})
    BY <1>1, <2>1 DEF Noted, Connection
  <2> QED
    BY <1>1, <2>1, <2>2, NewIdIs
<1>3. /\ NewId(c, d, u.kind, Torn) /\ Waiting(d) = Waiting(c) /\ d.late = c.late /\ c.created \in d.orphans
      /\ d.state = c.state /\ d.early = c.early /\ d \in Connection /\ d.created = c.created
  BY <1>2 DEF Rewritten, NewId
<1>4. Accounts(c, d, q, u) /\ Torn \in Blank
  BY DEF Whole, BusyInv, Writes, Accounts, Blank
<1>5. /\ Timers(d, l, q, v) /\ v \in User /\ ~On(v)
      /\ d.idle = c.idle /\ d.mixed = c.mixed /\ d.batch = c.batch
  <2>1. v \in User /\ v.step = "free" /\ v.id = NoId /\ ~On(v) /\ ~Off(v)
    BY UserTypes, ReturnedIs
  <2>2. Forgets(c, d, l, q, v)
    BY <1>3, <1>4, <2>1, UserForgets
  <2> QED
    BY <2>2 DEF Forgets
<1>6. Left(m, l.more) /\ BusyInv(d, m) /\ m.step \notin {"assign", "drop"}
  BY <1>1, <1>5, AfterIs, LeftBusy
<1>7. Timers(d, m, q, v)
  <2>1. IdsInv(d, m) /\ OldIds(d, q, v)
    BY <1>5, <1>6 DEF Timers, IdsInv
  <2>2. CancelInv(d, m, q, v)
    BY <1>3, <1>5 DEF Timers, CancelInv, Known, Assigns
  <2>3. OffInv(d, m, q, v)
    BY <1>3, <1>5 DEF Timers, OffInv, Harmless, Assigns, Drops
  <2>4. OnInv(d, m, q, v)
    BY <1>5, <1>6 DEF Timers, OnInv
  <2> QED
    BY <2>1, <2>2, <2>3, <2>4 DEF Timers
<1>8. ArmedInv(d, m, q, s, v)
  <2>1. ~On(u) /\ ~Starts(l)
    BY DEF On, Starts
  <2> QED
    BY <1>3, <1>5, <2>1 DEF Whole, ArmedInv
<1>9. SetupInv(d, q, s, v)
  BY <1>3, UserSetUp DEF Whole
<1> QED
  BY <1>3, <1>5, <1>6, <1>7, <1>8, <1>9 DEF Whole, Types, Left


-----------------------------------------------------------------------------
\* The timers of the connection's idle timeout, and its state, stay as they are.
Quiet(c, d) ==
  /\ d \in Connection /\ KeepsIdle(c, d) /\ d.state = c.state /\ d.idle = c.idle
  /\ d.mixed = c.mixed /\ d.early = c.early /\ d.batch = c.batch

\* setConnectionTimeoutInLoop() replaces the connection timeout.
LEMMA ConnectionTimeoutGoes ==
  ASSUME NEW c \in Connection, NEW l, l.step \notin {"assign", "drop"}, NEW q \in Seq(Functors),
         NEW u \in User, Timers(c, l, q, u), c.todo = {}, NEW on \in BOOLEAN,
         NEW d, d = SetConnectionTimeoutInLoop(c, on)
  PROVE  Timers(d, l, q, u) /\ Quiet(c, d)
<1>1. PICK k \in Kinds : k = "connection" /\ c.ids[k] \in Int /\ IdsInv(c, l)
  <2>1. "connection" \in Kinds /\ IdsInv(c, l) /\ c.todo \subseteq c.batch
    BY DEF Kinds, Timers, IdsInv
  <2> QED
    BY <2>1, IdTypes
<1>2. PICK e : e = Cancel(c, c.ids[k]) /\ Less(c, e) /\ Cancelled(c, e, c.ids[k])
  BY <1>1, CancelLess
<1>3. Timers(e, l, q, u)
  BY <1>2, LessKeeps
<1>4. Gone(e, k)
  BY <1>1, <1>2, CancelGone
<1>5. KeepsIdle(c, e)
  BY <1>1, <1>2, OtherKind
<1>6. /\ e \in Connection /\ e.state = c.state /\ e.idle = c.idle /\ e.mixed = c.mixed
      /\ e.early = c.early /\ e.batch = c.batch /\ e.created = c.created
  BY <1>2 DEF Cancelled, Rest
<1>7. CASE ~on
  <2>1. d = e
    BY <1>1, <1>2, <1>7 DEF SetConnectionTimeoutInLoop
  <2> QED
    BY <1>3, <1>5, <1>6, <2>1 DEF Quiet
<1>8. CASE on
  <2>1. PICK g : g = Start(e, k) /\ Started(e, g, k)
    BY <1>6, StartIs
  <2>2. /\ g \in Connection /\ g.state = c.state /\ g.idle = c.idle /\ g.mixed = c.mixed
        /\ g.early = c.early /\ g.batch = c.batch /\ g.created = c.created + 1 /\ g.ids = e.ids
        /\ KeepsIdle(e, g)
    BY <1>6, <2>1 DEF Started, Rest, KeepsIdle, Waiting
  <2>3. PICK m : m.step = "assign" /\ m.kind = k
    <3>1. PICK m : m = [step |-> "assign", kind |-> k]
      OBVIOUS
    <3>2. m.step = "assign" /\ m.kind = k
      BY <3>1
    <3> QED
      BY <3>2
  <2>4. Timers(g, m, q, u)
    BY <1>3, <1>6, <2>1, <2>3, StartKeeps
  <2>5. Gone(g, k)
    <3>1. PICK n : Waiting(g) = Waiting(e) \cup {n} /\ n.id = e.created + 1
      <4>1. PICK n : n = [id |-> e.created + 1, kind |-> k, zero |-> k = "idle" /\ ~e.idle]
        OBVIOUS
      <4>2. Waiting(g) = Waiting(e) \cup {n} /\ n.id = e.created + 1
        BY <2>1, <4>1 DEF Started, Rest, Waiting
      <4> QED
        BY <4>2
    <3>2. e.created \in Nat /\ e.ids[k] \in Int /\ e.ids[k] <= e.created
      BY <1>3, <1>6, IdTypes DEF Timers, IdsInv
    <3>3. n.id # e.ids[k]
      BY <3>1, <3>2, SMT
    <3> QED
      BY <1>4, <2>2, <3>1, <3>3 DEF Gone
  <2>6. Rewritten(g, d, k, g.created, {}, {})
    <3>1. g.orphans \cup {} = g.orphans /\ g.late \cup {} = g.late /\ {} \in IdSets
      BY DEF IdSets
    <3>2. g.created \in Int
      <4>1. g.created \in Nat
        BY <2>2 DEF Connection
      <4> QED
        BY <4>1, SMT
    <3>3. d = [g EXCEPT !.ids[k] = g.created]
      BY <1>1, <1>2, <1>8, <2>1, <2>2 DEF SetConnectionTimeoutInLoop
    <3>4. d = Noted(g, k, g.created, {}, {})
      BY <2>2, <3>1, <3>3 DEF Noted, Connection
    <3> QED
      BY <2>2, <3>1, <3>2, <3>4, NewIdIs
  <2>7. NewId(g, d, k, g.created) /\ Waiting(d) = Waiting(g) /\ d.state = g.state /\ d.early = g.early
    BY <2>6 DEF Rewritten
  <2>8. k # "idle"
    BY <1>1
  <2>9. Timers(d, l, q, u)
    BY <2>2, <2>3, <2>4, <2>5, <2>7, <2>8, AssignKeeps
  <2>10. KeepsIdle(c, d)
    BY <1>5, <2>2, <2>7 DEF KeepsIdle
  <2> QED
    BY <2>2, <2>7, <2>9, <2>10 DEF Quiet, NewId
<1> QED
  BY <1>7, <1>8

\* The set-up when the first functor leaves the queue.
LEMMA TailSetUp ==
  ASSUME NEW c, NEW q, NEW s, NEW u, SetupInv(c, q, s, u), q \in Seq(Functors), q # <<>>,
         NEW p, p = Tail(q)
  PROVE  /\ q[1] # Established => SetupInv(c, p, s, u)
         /\ q[1] = Established => c.state = "kConnecting" /\ s = <<>> /\ Without(p)
<1>1. Shrunk(q, p)
  BY TailIs
<1>2. Without(q) => Without(p) /\ q[1] # Established
  <2> SUFFICES ASSUME Without(q)
               PROVE  Without(p) /\ q[1] # Established
    OBVIOUS
  <2>1. q[1] # Established
    BY <1>1 DEF Without, Shrunk
  <2>2. ASSUME NEW i \in DOMAIN p
        PROVE  p[i] # Established
    <3>1. PICK j : j \in DOMAIN q /\ p[i] = q[j]
      BY <1>1 DEF Shrunk
    <3> QED
      BY <3>1 DEF Without
  <2> QED
    BY <2>1, <2>2 DEF Without
<1>3. /\ Len(p) \in Nat /\ Len(q) = Len(p) + 1 /\ DOMAIN p = 1 .. Len(p)
      /\ \A i \in DOMAIN p : p[i] = q[i + 1]
  BY <1>1, SMT DEF Shrunk
<1>4. ASSUME Ends(q), q[1] # Established
      PROVE  Ends(p)
  <2>1. Len(q) # 1
    BY <1>4 DEF Ends
  <2>2. /\ p # <<>> /\ Len(p) \in DOMAIN p /\ q[Len(p) + 1] = q[Len(q)]
        /\ \A i \in 1 .. Len(p) - 1 : i \in DOMAIN p /\ i + 1 \in 1 .. Len(q) - 1
    BY <1>1, <1>3, <2>1, SMT DEF Shrunk
  <2>3. p[Len(p)] = Established
    BY <1>3, <1>4, <2>2 DEF Ends
  <2>4. \A i \in 1 .. Len(p) - 1 : p[i] # Established
    BY <1>3, <1>4, <2>2 DEF Ends
  <2> QED
    BY <2>2, <2>3, <2>4 DEF Ends
<1>5. ASSUME Ends(q), q[1] = Established
      PROVE  Without(p)
  <2>1. 1 \notin 1 .. Len(q) - 1
    BY <1>5 DEF Ends
  <2>2. DOMAIN p = {}
    BY <1>3, <2>1, SMT
  <2> QED
    BY <2>2 DEF Without
<1> QED
  BY <1>2, <1>4, <1>5 DEF SetupInv

\* When connectEstablished() runs nothing is left of the set-up.
LEMMA LastSetUp ==
  ASSUME NEW c, NEW q, NEW s, NEW u, SetupInv(c, q, s, u), q \in Seq(Functors), q # <<>>,
         q[1] = Established
  PROVE  c.state = "kConnecting" /\ s = <<>> /\ Without(Tail(q))
<1>1. PICK p : p = Tail(q)
  OBVIOUS
<1> QED
  BY <1>1, TailSetUp

\* A queued resetIdleTimerInLoop() other than the first stays queued.
LEMMA StartStays ==
  ASSUME NEW q \in Seq(Functors), q # <<>>, NEW p, p = Tail(q)
  PROVE  \A j \in DOMAIN q : q[j] = <<"idle">> => j = 1 \/ StartQueued(p)
<1>1. Shrunk(q, p)
  BY TailIs
<1> SUFFICES ASSUME NEW j \in DOMAIN q, q[j] = <<"idle">>, j # 1
             PROVE  StartQueued(p)
  OBVIOUS
<1>2. j - 1 \in DOMAIN p /\ p[j - 1] = <<"idle">>
  BY <1>1 DEF Shrunk
<1> QED
  BY <1>2 DEF StartQueued

\* A cancellation at the head of the queue is done.
Done(q, d) == q[1][1] = "cancel" => \A t \in Waiting(d) : t.id # q[1][2]

\* The queue shrinks, and the functor that has run did its part.
Ran(c, d, m, q, p, s, u) ==
  /\ q \in Seq(Functors) /\ q # <<>> /\ s \in Seq(Functors) /\ u \in User /\ m \in Loop
  /\ SetupInv(c, q, s, u) /\ q[1] # Established /\ p = Tail(q)
  /\ d \in Connection /\ d.state = c.state /\ Timers(d, m, q, u) /\ BusyInv(d, m)
  /\ m.step # "drop" /\ Done(q, d) /\ ArmedInv(d, m, p, s, u)
LEMMA FunctorRan ==
  ASSUME NEW c, NEW d, NEW m, NEW q, NEW p, NEW s, NEW u, Ran(c, d, m, q, p, s, u)
  PROVE  Whole(d, m, p, s, u)
<1>1. q \in Seq(Functors) /\ q # <<>> /\ p = Tail(q)
  BY DEF Ran
<1>2. Timers(d, m, p, u) /\ Shrunk(q, p)
  BY <1>1, TailKeeps DEF Done, Ran
<1>3. SetupInv(d, p, s, u)
  <2>1. SetupInv(d, q, s, u)
    BY StaysSetUp DEF Ran
  <2> QED
    BY <1>1, <2>1, TailSetUp DEF Ran
<1> QED
  BY <1>2, <1>3 DEF Whole, Types, Shrunk, Ran

\* connectEstablished() is the last functor of the set-up.
LEMMA EstablishedKeeps ==
  ASSUME NEW c, NEW l, NEW q, NEW s, NEW u, Whole(c, l, q, s, u), l.step = "free", ~l.more,
         q # <<>>, q[1] = Established,
         NEW d, d = [c EXCEPT !.state = "kConnected"], NEW p, p = Tail(q)
  PROVE  Whole(d, l, p, s, u)
<1>1. q \in Seq(Functors) /\ SetupInv(c, q, s, u) /\ c \in Connection /\ Timers(c, l, q, u)
  BY StepTypes DEF Whole
<1>2. Less(c, d) /\ d.state = "kConnected" /\ Waiting(d) = Waiting(c) /\ d.early = c.early
  BY <1>1 DEF Less, Connection, Waiting
<1>3. c.state = "kConnecting" /\ s = <<>> /\ Without(p)
  <2>1. c.state = "kConnecting" /\ s = <<>> /\ Without(Tail(q))
    BY <1>1, LastSetUp
  <2> QED
    BY <2>1
<1>4. Timers(d, l, q, u)
  BY <1>1, <1>2, LessKeeps
<1>5. q[1][1] # "cancel" /\ q[1] # <<"idle">>
  BY SMT DEF Established
<1>6. Timers(d, l, p, u) /\ Shrunk(q, p)
  BY <1>1, <1>4, <1>5, TailKeeps
<1>7. BusyInv(d, l)
  BY DEF BusyInv, Writes
<1>8. StartQueued(q) => StartQueued(p)
  BY <1>1, <1>5, StartStays DEF StartQueued
<1>9. ArmedInv(d, l, p, s, u)
  BY <1>2, <1>3, <1>8 DEF Whole, ArmedInv, Less
<1>10. SetupInv(d, p, s, u)
  BY <1>2, <1>3 DEF Whole, SetupInv
<1> QED
  BY <1>2, <1>6, <1>7, <1>9, <1>10 DEF Whole, Types, Less, Shrunk


\* What the loop finds at the head of the queue.
AtHead(f, q, p) ==
  /\ f = q[1] /\ 1 \in DOMAIN q
  /\ f[1] = "connection" => f[2] \in BOOLEAN
  /\ f[1] = "cancel" => f[2] \in Int /\ f = <<"cancel", f[2]>>
  /\ f[1] = "connectEstablished" <=> f = Established
  /\ f[1] = "idle" <=> f = <<"idle">>
  /\ StartQueued(q) => f = <<"idle">> \/ StartQueued(p)
LEMMA HeadTypes ==
  ASSUME NEW c, NEW l, NEW q, NEW s, NEW u, Whole(c, l, q, s, u), q # <<>>, NEW f, f = Head(q),
         NEW p, p = Tail(q)
  PROVE  AtHead(f, q, p)
<1>1. q \in Seq(Functors)
  BY StepTypes
<1>2. f = q[1] /\ f \in Functors /\ 1 \in DOMAIN q
  BY <1>1, TailIs DEF Shrunk
<1>3. /\ f[1] = "connection" => f[2] \in BOOLEAN
      /\ f[1] = "cancel" => f[2] \in Int /\ f = <<"cancel", f[2]>>
      /\ f[1] = "connectEstablished" <=> f = Established
      /\ f[1] = "idle" <=> f = <<"idle">>
  BY <1>2, SMT DEF Functors, Established
<1>4. StartQueued(q) => f = <<"idle">> \/ StartQueued(p)
  BY <1>1, <1>2, StartStays DEF StartQueued
<1> QED
  BY <1>2, <1>3, <1>4 DEF AtHead

\* resetIdleTimerInLoop() or setupKeepAliveTimer() begins.
LEMMA RunSetterKeeps ==
  ASSUME NEW c, NEW l, NEW q, NEW s, NEW u, Whole(c, l, q, s, u), l.step = "free", c.batch = {},
         q # <<>>, NEW f, f = Head(q), f[1] \in {"idle", "keepAlive"},
         NEW m, m = At(IF f[1] = "idle" THEN "cancel" ELSE "start", f[1], FALSE),
         NEW p, p = Tail(q)
  PROVE  Whole(c, m, p, s, u)
<1>1. /\ f = q[1] /\ f[1] # "cancel" /\ f # Established
      /\ f[1] # "idle" /\ StartQueued(q) => StartQueued(p)
  <2>1. AtHead(f, q, p)
    BY HeadTypes
  <2> QED
    BY <2>1 DEF AtHead
<1>2. /\ m \in Loop /\ m.kind = f[1] /\ m.step = (IF f[1] = "idle" THEN "cancel" ELSE "start")
      /\ m.more = FALSE
  BY DEF At, Loop, Shared
<1>3. c \in Connection /\ Timers(c, l, q, u)
  BY StepTypes DEF Whole
<1>4. Timers(c, m, q, u)
  <2>1. Moves(l, m) /\ \A t \in Waiting(c) : ~Drops(c, l, t)
    BY <1>2 DEF Moves, Drops
  <2> QED
    BY <1>3, <2>1, MoveKeeps
<1>5. BusyInv(c, m) /\ m.step # "drop" /\ Done(q, c)
  BY <1>1, <1>2 DEF BusyInv, Writes, Done
<1>6. ArmedInv(c, m, p, s, u)
  BY <1>1, <1>2 DEF Whole, ArmedInv, Starts
<1>7. Ran(c, c, m, q, p, s, u)
  BY <1>1, <1>2, <1>4, <1>5, <1>6, StepTypes DEF Ran, Whole
<1> QED
  BY <1>7, FunctorRan

\* setConnectionTimeoutInLoop() runs.
LEMMA RunConnectionKeeps ==
  ASSUME NEW c, NEW l, NEW q, NEW s, NEW u, Whole(c, l, q, s, u), l.step = "free", ~l.more,
         c.batch = {}, q # <<>>, NEW f, f = Head(q), f[1] = "connection",
         NEW d, d = SetConnectionTimeoutInLoop(c, f[2]), NEW p, p = Tail(q)
  PROVE  Whole(d, l, p, s, u)
<1>1. /\ f = q[1] /\ f[1] # "cancel" /\ f # Established /\ f[2] \in BOOLEAN
      /\ StartQueued(q) => StartQueued(p)
  <2>1. AtHead(f, q, p)
    BY HeadTypes
  <2> QED
    BY <2>1 DEF AtHead
<1>2. /\ c \in Connection /\ Timers(c, l, q, u) /\ q \in Seq(Functors) /\ u \in User /\ l \in Loop
      /\ c.todo = {}
  BY StepTypes DEF Whole
<1>3. Timers(d, l, q, u) /\ Quiet(c, d)
  BY <1>1, <1>2, ConnectionTimeoutGoes, ZenonT(30)
<1>4. BusyInv(d, l)
  BY DEF BusyInv, Writes
<1>5. ArmedInv(d, l, p, s, u)
  BY <1>1, <1>3 DEF Whole, ArmedInv, Quiet, KeepsIdle
<1>6. d \in Connection /\ d.state = c.state
  BY <1>3 DEF Quiet
<1>7. q[1] # Established /\ l.step # "drop" /\ Done(q, d)
  BY <1>1 DEF Done
<1>8. Ran(c, d, l, q, p, s, u)
  BY <1>2, <1>3, <1>4, <1>5, <1>6, <1>7, StepTypes DEF Ran, Whole
<1> QED
  BY <1>8, FunctorRan

\* TimerQueue::cancelInLoop() runs: with the timeout on another timer is on its way.
LEMMA RunCancelKeeps ==
  ASSUME NEW c, NEW l, NEW q, NEW s, NEW u, Whole(c, l, q, s, u), l.step = "free", ~l.more,
         c.batch = {}, q # <<>>, NEW f, f = Head(q), f[1] = "cancel",
         NEW d, d = Cancel(c, f[2]), NEW p, p = Tail(q)
  PROVE  Whole(d, l, p, s, u)
<1>1. /\ f = q[1] /\ 1 \in DOMAIN q /\ f[2] \in Int /\ f = <<"cancel", f[2]>>
      /\ f # Established /\ f # <<"idle">>
      /\ StartQueued(q) => StartQueued(p)
  <2>1. AtHead(f, q, p)
    BY HeadTypes
  <2> QED
    BY <2>1 DEF AtHead
<1>2. /\ c \in Connection /\ Timers(c, l, q, u) /\ q \in Seq(Functors) /\ l \in Loop
      /\ c.todo = {}
  BY StepTypes DEF Whole
<1>3. PICK id \in Int : id = f[2]
  BY <1>1
<1>4. Less(c, d) /\ Cancelled(c, d, id)
  BY <1>2, <1>3, CancelLess
<1>5. /\ Waiting(d) = {t \in Waiting(c) : t.id # id} /\ d.idle = c.idle /\ d.mixed = c.mixed
      /\ d.state = c.state /\ d.early = c.early /\ d \in Connection
  BY <1>2, <1>4 DEF Waiting, Cancelled, Rest
<1>6. Timers(d, l, q, u)
  BY <1>2, <1>4, LessKeeps
<1>7. BusyInv(d, l)
  BY DEF BusyInv, Writes
<1>8. ASSUME NEW t \in Waiting(c), t.kind = "idle", t.id = id, c.idle /\ ~c.mixed
      PROVE  On(u) \/ StartQueued(p)
  <2>1. q[1] = <<"cancel", t.id>>
    BY <1>1, <1>3, <1>8
  <2>2. Replaced(q, u, 1)
    BY <1>1, <1>2, <1>8, <2>1 DEF Timers, OnInv
  <2>3. \A j \in DOMAIN q : j > 1 => j # 1
    BY <1>2, SMT
  <2> QED
    BY <1>2, <2>2, <2>3, StartStays DEF Replaced
<1>9. ArmedInv(d, l, p, s, u)
  <2> SUFFICES ASSUME d.state # "kDisconnected" /\ d.idle /\ ~d.early /\ ~d.mixed
               PROVE  \/ \E t \in Waiting(d) : t.kind = "idle"
                      \/ StartQueued(p) \/ StartQueued(s) \/ On(u) \/ Starts(l)
    BY DEF ArmedInv
  <2>1. \/ \E t \in Waiting(c) : t.kind = "idle"
        \/ StartQueued(q) \/ StartQueued(s) \/ On(u) \/ Starts(l)
    BY <1>5 DEF Whole, ArmedInv
  <2> QED
    BY <1>1, <1>5, <1>8, <2>1
<1>10. q[1] # Established /\ l.step # "drop" /\ Done(q, d)
  BY <1>1, <1>3, <1>5 DEF Done
<1>11. Ran(c, d, l, q, p, s, u)
  BY <1>2, <1>5, <1>6, <1>7, <1>9, <1>10, StepTypes DEF Ran, Whole
<1> QED
  BY <1>11, FunctorRan


-----------------------------------------------------------------------------
\* handleClose(): a closed connection needs no timer.
LEMMA CloseKeeps ==
  ASSUME NEW c \in Connection, NEW l, l.step = "free", NEW q \in Seq(Functors), NEW s \in Seq(Functors),
         NEW u \in User, Timers(c, l, q, u), SetupInv(c, q, s, u),
         c.state \in {"kConnected", "kDisconnecting"}, NEW b \in BOOLEAN, b => c.batch = {},
         NEW d, d = Cancel([c EXCEPT !.state = "kDisconnected"], c.ids["connection"]),
         NEW m, m = At("close", "idle", b)
  PROVE  Whole(d, m, q, s, u)
<1>1. PICK e : e = [c EXCEPT !.state = "kDisconnected"]
  OBVIOUS
<1>2. Less(c, e) /\ e.state = "kDisconnected" /\ e \in Connection
  BY <1>1 DEF Less, Connection
<1>3. c.ids["connection"] \in Int
  BY DEF Connection, Kinds
<1>4. Less(e, d) /\ Cancelled(e, d, c.ids["connection"])
  BY <1>1, <1>2, <1>3, CancelLess
<1>5. Timers(e, l, q, u)
  BY <1>2, LessKeeps
<1>6. Timers(d, l, q, u)
  BY <1>4, <1>5, LessKeeps
<1>7. m \in Loop /\ m.step = "close" /\ m.kind = "idle" /\ m.more = b
  BY DEF At, Loop, Shared
<1>8. Timers(d, m, q, u)
  <2>1. Moves(l, m) /\ \A t \in Waiting(d) : ~Drops(d, l, t)
    BY <1>7 DEF Moves, Drops
  <2> QED
    BY <1>6, <2>1, MoveKeeps
<1>9. d.state = "kDisconnected" /\ d \in Connection /\ d.batch = c.batch
  BY <1>2, <1>4 DEF Cancelled, Rest, Less
<1>10. BusyInv(d, m) /\ ArmedInv(d, m, q, s, u)
  BY <1>7, <1>9 DEF BusyInv, Writes, ArmedInv
<1>11. SetupInv(d, q, s, u)
  BY <1>9, StaysSetUp
<1> QED
  BY <1>7, <1>8, <1>9, <1>10, <1>11 DEF Whole, Types

\* messageCallback_ leaves the idle timeout alone: handleRead() goes on to test it.
LEMMA ReadGoesOn ==
  ASSUME NEW c, NEW l, NEW q, NEW s, NEW u, Whole(c, l, q, s, u), l.step = "free", c.batch = {},
         NEW d \in Connection, Timers(d, l, q, u), d.batch = {},
         (d.state = "kConnecting") <=> (c.state = "kConnecting"), NEW m, m = After(TRUE)
  PROVE  Whole(d, m, q, s, u)
<1>1. Left(m, TRUE)
  BY AfterIs
<1>2. BusyInv(d, m) /\ m.step \notin {"assign", "drop"} /\ Starts(m)
  BY <1>1, LeftBusy
<1>3. Timers(d, m, q, u)
  <2>1. Moves(l, m) /\ \A t \in Waiting(d) : ~Drops(d, l, t)
    BY <1>2 DEF Moves, Drops
  <2> QED
    BY <2>1, MoveKeeps
<1>4. ArmedInv(d, m, q, s, u)
  BY <1>2 DEF ArmedInv
<1>5. SetupInv(d, q, s, u)
  BY StaysSetUp DEF Whole
<1> QED
  BY <1>1, <1>2, <1>3, <1>4, <1>5 DEF Whole, Types, Left

\* No other thread is in setIdleTimeout(), and none of its functors is queued.
Closed(q, u) == ~Off(u) /\ \A i \in DOMAIN q : q[i][1] \notin {"idle", "cancel"}

Overlap(q, u, x) == x \/ Closed(q, u)
SetsIdle(c, on, x) == [c EXCEPT !.idle = on, !.mixed = c.mixed \/ x]

\* messageCallback_ sets the idle timeout.
LEMMA ReadSetsIdleKeeps ==
  ASSUME NEW c, NEW l, NEW q, NEW s, NEW u, Whole(c, l, q, s, u), l.step = "free", c.batch = {},
         NEW on \in BOOLEAN, NEW x \in BOOLEAN, Overlap(q, u, x),
         NEW d, d = SetsIdle(c, on, x),
         NEW m, m = At(IF on THEN "test" ELSE "drop", "idle", TRUE)
  PROVE  Whole(d, m, q, s, u)
<1>1. c \in Connection /\ Timers(c, l, q, u)
  BY StepTypes DEF Whole
<1>2. /\ d \in Connection /\ d.idle = on /\ (d.mixed <=> c.mixed \/ x) /\ d.state = c.state
      /\ d.ids = c.ids /\ d.created = c.created /\ d.timers = c.timers /\ d.batch = c.batch
      /\ d.todo = c.todo /\ d.orphans = c.orphans /\ d.late = c.late
  <2>1. PICK y \in BOOLEAN : (y <=> c.mixed \/ x) /\ d = [c EXCEPT !.idle = on, !.mixed = y]
    BY DEF SetsIdle
  <2> QED
    BY <1>1, <2>1 DEF Connection
<1>3. m \in Loop /\ m.kind = "idle" /\ m.step = (IF on THEN "test" ELSE "drop") /\ m.more = TRUE
  BY DEF At, Loop, Shared
<1>4. Waiting(d) = Waiting(c)
  BY <1>2 DEF Waiting
<1>5. IdsInv(d, m) /\ OldIds(d, q, u)
  <2>1. IdsInv(d, l)
    BY <1>1, <1>2, SameIds DEF Timers
  <2> QED
    BY <1>1, <1>2, <1>3, <2>1, ZenonT(30) DEF Timers, IdsInv, OldIds
<1>6. \A t : Known(c, l, q, t) => Known(d, m, q, t)
  BY <1>2 DEF Known, Assigns
<1>7. CancelInv(d, m, q, u)
  BY <1>1, <1>4, <1>6 DEF Timers, CancelInv
<1>8. OffInv(d, m, q, u)
  <2> SUFFICES ASSUME ~d.idle, NEW t \in Waiting(c), t.kind = "idle"
               PROVE  Harmless(d, m, q, u, t)
    BY <1>4 DEF OffInv
  <2>1. Known(c, l, q, t)
    BY <1>1 DEF Timers, CancelInv
  <2>2. m.step = "drop"
    BY <1>2, <1>3
  <2> QED
    BY <1>2, <1>3, <2>1, <2>2 DEF Known, Harmless, Assigns, Drops
<1>9. OnInv(d, m, q, u)
  <2> SUFFICES ASSUME d.idle /\ ~d.mixed
               PROVE  /\ ~Off(u) /\ m.step # "drop"
                      /\ \A i \in DOMAIN q : \A t : q[i] # <<"cancel", t.id>>
    BY DEF OnInv
  <2>1. Closed(q, u)
    BY <1>2 DEF Overlap
  <2>2. \A y : <<"cancel", y>>[1] = "cancel"
    BY SMT
  <2>3. m.step # "drop"
    BY <1>2, <1>3
  <2>4. ~Off(u) /\ \A i \in DOMAIN q : q[i][1] # "cancel"
    BY <2>1 DEF Closed
  <2> QED
    BY <2>2, <2>3, <2>4
<1>10. BusyInv(d, m) /\ ArmedInv(d, m, q, s, u)
  BY <1>2, <1>3 DEF BusyInv, Writes, ArmedInv, Starts
<1>11. SetupInv(d, q, s, u)
  BY <1>2, StaysSetUp DEF Whole
<1> QED
  BY <1>2, <1>3, <1>5, <1>7, <1>8, <1>9, <1>10, <1>11, ZenonT(30) DEF Whole, Types, Timers

\* messageCallback_ turns the keep-alive timer on or off.
LEMMA ReadSetsKeepAliveKeeps ==
  ASSUME NEW c, NEW l, NEW q, NEW s, NEW u, Whole(c, l, q, s, u), l.step = "free", c.batch = {},
         NEW on \in BOOLEAN, NEW d, d = [c EXCEPT !.keepAlive = on],
         NEW m, m = At(IF on THEN "start" ELSE "drop", "keepAlive", TRUE)
  PROVE  Whole(d, m, q, s, u)
<1>1. c \in Connection /\ Timers(c, l, q, u)
  BY StepTypes DEF Whole
<1>2. /\ Less(c, d) /\ d.state = c.state /\ d.early = c.early /\ d.batch = {} /\ Waiting(d) = Waiting(c)
      /\ d.idle = c.idle /\ d.mixed = c.mixed /\ d \in Connection
  BY <1>1 DEF Less, Connection, Waiting
<1>3. m \in Loop /\ m.kind = "keepAlive" /\ m.step = (IF on THEN "start" ELSE "drop") /\ m.more = TRUE
  BY DEF At, Loop, Shared
<1>4. Timers(d, l, q, u)
  BY <1>1, <1>2, LessKeeps
<1>5. Timers(d, m, q, u)
  <2>1. Moves(l, m) /\ \A t \in Waiting(d) : ~Drops(d, l, t)
    BY <1>3 DEF Moves, Drops
  <2> QED
    BY <1>4, <2>1, MoveKeeps
<1>6. BusyInv(d, m)
  BY <1>2, <1>3 DEF BusyInv, Writes
<1>7. ArmedInv(d, m, q, s, u)
  BY <1>2 DEF Whole, ArmedInv, Starts
<1>8. SetupInv(d, q, s, u)
  BY <1>2, StaysSetUp DEF Whole
<1> QED
  BY <1>2, <1>3, <1>5, <1>6, <1>7, <1>8 DEF Whole, Types

\* messageCallback_ closes for writing.
LEMMA ReadShutsKeeps ==
  ASSUME NEW c, NEW l, NEW q, NEW s, NEW u, Whole(c, l, q, s, u), l.step = "free", c.batch = {},
         NEW d, d = Shutdown(c), NEW m, m = After(TRUE)
  PROVE  Whole(d, m, q, s, u)
<1>1. c \in Connection /\ Timers(c, l, q, u)
  BY StepTypes DEF Whole
<1>2. Less(c, d) /\ d.batch = {} /\ ((d.state = "kConnecting") <=> (c.state = "kConnecting"))
  <2>1. CASE c.state = "kConnected"
    BY <1>1, <2>1 DEF Shutdown, Less, Connection
  <2>2. CASE c.state # "kConnected"
    BY <1>1, <2>2 DEF Shutdown, Less
  <2> QED
    BY <2>1, <2>2
<1>3. Timers(d, l, q, u) /\ d \in Connection
  BY <1>1, <1>2, LessKeeps DEF Less
<1> QED
  BY <1>2, <1>3, ReadGoesOn

\* messageCallback_ sets the connection timeout.
LEMMA ReadSetsConnectionKeeps ==
  ASSUME NEW c, NEW l, NEW q, NEW s, NEW u, Whole(c, l, q, s, u), l.step = "free", c.batch = {},
         NEW on \in BOOLEAN, NEW d, d = SetConnectionTimeoutInLoop(c, on), NEW m, m = After(TRUE)
  PROVE  Whole(d, m, q, s, u)
<1>1. /\ c \in Connection /\ Timers(c, l, q, u) /\ q \in Seq(Functors) /\ u \in User
      /\ c.todo = {} /\ l.step \notin {"assign", "drop"}
  BY StepTypes DEF Whole
<1>2. Timers(d, l, q, u) /\ Quiet(c, d)
  BY <1>1, ConnectionTimeoutGoes
<1>3. d \in Connection /\ d.batch = {} /\ d.state = c.state
  BY <1>2 DEF Quiet
<1> QED
  BY <1>2, <1>3, ReadGoesOn

\* handleRead() with data.
LEMMA HandleReadKeeps ==
  ASSUME IInv, HandleRead
  PROVE  IInv'
<1>1. /\ Whole(conn, loop, queue, setup, user) /\ conn.batch = {} /\ loop.step = "free"
      /\ conn.state \in {"kConnected", "kDisconnecting"}
      /\ queue' = queue /\ setup' = setup /\ user' = user
  BY DEF IInv, HandleRead, Ready, Reading, Free, At
<1>2. PICK call : Message(call)
  BY DEF HandleRead
<1> SUFFICES Whole(conn', loop', queue, setup, user)
  BY <1>1 DEF IInv
<1>3. CASE UNCHANGED conn /\ loop' = After(TRUE)
  <2>1. conn \in Connection /\ Timers(conn, loop, queue, user)
    BY <1>1, StepTypes DEF Whole
  <2> QED
    BY <1>1, <1>3, <2>1, ReadGoesOn
<1>4. CASE conn' = Shutdown(conn) /\ loop' = After(TRUE)
  BY <1>1, <1>4, ReadShutsKeeps
<1>5. CASE HandleClose(conn, TRUE)
  <2>1. /\ conn \in Connection /\ Timers(conn, loop, queue, user) /\ queue \in Seq(Functors)
        /\ setup \in Seq(Functors) /\ user \in User /\ SetupInv(conn, queue, setup, user)
    BY <1>1, StepTypes DEF Whole
  <2> QED
    BY <1>1, <1>5, <2>1, CloseKeeps DEF HandleClose
<1>6. CASE conn' = SetConnectionTimeoutInLoop(conn, call = "connectionOn") /\ loop' = After(TRUE)
  <2>1. PICK on \in BOOLEAN : on = (call = "connectionOn")
    OBVIOUS
  <2> QED
    BY <1>1, <1>6, <2>1, ReadSetsConnectionKeeps
<1>7. CASE /\ conn' = [conn EXCEPT !.idle = call = "idleOn", !.mixed = @ \/ IdleCallOpen]
           /\ loop' = At(IF call = "idleOn" THEN "test" ELSE "drop", "idle", TRUE)
  <2>1. PICK on \in BOOLEAN, x \in BOOLEAN : on = (call = "idleOn") /\ x = IdleCallOpen
    BY DEF IdleCallOpen
  <2>2. Overlap(queue, user, x)
    BY <2>1 DEF IdleCallOpen, Overlap, Closed, TurningOff, Off
  <2>3. conn' = SetsIdle(conn, on, x) /\ loop' = At(IF on THEN "test" ELSE "drop", "idle", TRUE)
    BY <1>7, <2>1 DEF SetsIdle
  <2> QED
    BY <1>1, <2>2, <2>3, ReadSetsIdleKeeps
<1>8. CASE /\ conn' = [conn EXCEPT !.keepAlive = call = "keepAliveOn"]
           /\ loop' = At(IF call = "keepAliveOn" THEN "start" ELSE "drop", "keepAlive", TRUE)
  <2>1. PICK on \in BOOLEAN : on = (call = "keepAliveOn")
    OBVIOUS
  <2> QED
    BY <1>1, <1>8, <2>1, ReadSetsKeepAliveKeeps
<1> QED
  BY <1>2, <1>3, <1>4, <1>5, <1>6, <1>7, <1>8 DEF Message

\* handleRead() at the end of the stream.
LEMMA HandleReadEofKeeps ==
  ASSUME IInv, HandleReadEof
  PROVE  IInv'
<1>1. /\ conn.state \in {"kConnected", "kDisconnecting"} /\ loop.step = "free"
      /\ queue' = queue /\ setup' = setup /\ user' = user /\ HandleClose(conn, FALSE)
  BY DEF HandleReadEof, Ready, Reading, Free, At
<1>2. /\ conn \in Connection /\ Timers(conn, loop, queue, user) /\ queue \in Seq(Functors)
      /\ setup \in Seq(Functors) /\ user \in User /\ SetupInv(conn, queue, setup, user)
  BY StepTypes DEF IInv, Whole
<1>3. Whole(conn', loop', queue, setup, user)
  BY <1>1, <1>2, CloseKeeps DEF HandleClose
<1> QED
  BY <1>1, <1>3 DEF IInv

-----------------------------------------------------------------------------
\* A batch of timers begins or ends: timers change places, and of those that
\* run no more only keep-alive timers wait again.
Turns(c, d) ==
  /\ d \in Connection /\ d.ids = c.ids /\ d.created = c.created /\ d.orphans = c.orphans
  /\ d.late = c.late /\ d.idle = c.idle /\ d.mixed = c.mixed /\ d.early = c.early
  /\ d.state = c.state /\ d.todo \subseteq d.batch
  /\ d.timers \cup d.batch \subseteq c.timers \cup c.batch
  /\ \A t \in Waiting(d) : t.kind # "keepAlive" => t \in Waiting(c)
  /\ KeepsIdle(c, d)

\* That keeps the invariant.
LEMMA TurnKeeps ==
  ASSUME NEW c, NEW l, NEW q, NEW s, NEW u, Whole(c, l, q, s, u), l.step = "free", ~l.more,
         NEW d, Turns(c, d)
  PROVE  Whole(d, l, q, s, u)
<1>1. Timers(c, l, q, u)
  BY DEF Whole
<1>2. IdsInv(d, l)
  BY <1>1 DEF Timers, IdsInv, Turns
<1>3. OldIds(d, q, u)
  BY <1>1 DEF Timers, OldIds, Turns
<1>4. CancelInv(d, l, q, u)
  <2>1. \A t : Known(c, l, q, t) => Known(d, l, q, t)
    BY DEF Known, Assigns, Turns
  <2> QED
    BY <1>1, <2>1 DEF Timers, CancelInv, Turns
<1>5. \A t \in Waiting(d) : t.kind = "idle" => t \in Waiting(c)
  BY DEF Turns
<1>6. OffInv(d, l, q, u)
  <2>1. \A t : Harmless(c, l, q, u, t) => Harmless(d, l, q, u, t)
    BY DEF Harmless, Assigns, Drops, Turns
  <2> QED
    BY <1>1, <1>5, <2>1 DEF Timers, OffInv, Turns
<1>7. OnInv(d, l, q, u)
  BY <1>1, <1>5 DEF Timers, OnInv, Turns
<1>8. BusyInv(d, l)
  BY DEF BusyInv, Writes
<1>9. ArmedInv(d, l, q, s, u)
  BY StaysArmed DEF Whole, Turns
<1>10. SetupInv(d, q, s, u)
  BY StaysSetUp DEF Whole, Turns
<1> QED
  BY <1>2, <1>3, <1>4, <1>6, <1>7, <1>8, <1>9, <1>10, ZenonT(30) DEF Whole, Types, Timers, Turns

\* TimerQueue::handleRead() takes the timers that expired.
LEMMA ExpireKeeps ==
  ASSUME NEW c, NEW l, NEW q, NEW s, NEW u, Whole(c, l, q, s, u), l.step = "free", ~l.more,
         c.batch = {}, NEW e, e \subseteq c.timers,
         NEW d, d = [c EXCEPT !.timers = @ \ e, !.batch = e, !.todo = e, !.canceling = {}]
  PROVE  Whole(d, l, q, s, u)
<1>1. c \in Connection /\ c.todo = {}
  BY StepTypes
<1>2. PICK T, C : /\ T \in SUBSET Timer /\ e \in SUBSET Timer /\ C \in SUBSET Nat /\ T = c.timers \ e
                  /\ d = [c EXCEPT !.timers = T, !.batch = e, !.todo = e, !.canceling = C]
  <2>1. c.timers \ e \in SUBSET Timer /\ e \in SUBSET Timer
    BY <1>1 DEF Connection
  <2> QED
    BY <2>1
<1>3. d \in Connection
  BY <1>1, <1>2, ZenonT(30) DEF Connection
<1>4. /\ d.ids = c.ids /\ d.created = c.created /\ d.orphans = c.orphans /\ d.late = c.late
      /\ d.idle = c.idle /\ d.mixed = c.mixed /\ d.early = c.early /\ d.state = c.state
      /\ d.timers = c.timers \ e /\ d.batch = e /\ d.todo = e
  BY <1>1, <1>2 DEF Connection
<1>5. Waiting(d) = Waiting(c) /\ d.timers \cup d.batch \subseteq c.timers \cup c.batch
  BY <1>1, <1>4 DEF Waiting
<1>6. Turns(c, d)
  BY <1>3, <1>4, <1>5 DEF Turns, KeepsIdle
<1> QED
  BY <1>6, TurnKeeps

\* TimerQueue::reset() ends the batch.
LEMMA EndBatchKeeps ==
  ASSUME NEW c, NEW l, NEW q, NEW s, NEW u, Whole(c, l, q, s, u), l.step = "free", ~l.more,
         c.todo = {}, NEW R, R = {t \in c.batch : t.kind = "keepAlive" /\ t.id \notin c.canceling},
         NEW d, d = [c EXCEPT !.batch = {}, !.timers = @ \cup R]
  PROVE  Whole(d, l, q, s, u)
<1>1. c \in Connection
  BY StepTypes
<1>2. PICK T : T \in SUBSET Timer /\ T = c.timers \cup R /\ d = [c EXCEPT !.batch = {}, !.timers = T]
  <2>1. c.timers \cup R \in SUBSET Timer
    BY <1>1 DEF Connection
  <2> QED
    BY <2>1
<1>3. d \in Connection
  BY <1>1, <1>2, ZenonT(30) DEF Connection
<1>4. /\ d.ids = c.ids /\ d.created = c.created /\ d.orphans = c.orphans /\ d.late = c.late
      /\ d.idle = c.idle /\ d.mixed = c.mixed /\ d.early = c.early /\ d.state = c.state
      /\ d.timers = c.timers \cup R /\ d.batch = {} /\ d.todo = {}
  BY <1>1, <1>2 DEF Connection
<1>5. \A t \in R : t.kind = "keepAlive" /\ t \in c.batch
  OBVIOUS
<1>6. /\ Waiting(d) = Waiting(c) \cup R /\ d.timers \cup d.batch \subseteq c.timers \cup c.batch
  BY <1>4, <1>5 DEF Waiting
<1>7. Turns(c, d)
  BY <1>3, <1>4, <1>5, <1>6 DEF Turns, KeepsIdle
<1> QED
  BY <1>7, TurnKeeps

\* A timer of the batch runs.
LEMMA RunTimerKeeps ==
  ASSUME IInv, RunTimer
  PROVE  IInv'
<1>1. /\ Whole(conn, loop, queue, setup, user) /\ loop = Free /\ loop.step = "free" /\ ~loop.more
      /\ queue' = queue /\ setup' = setup /\ user' = user
  BY DEF IInv, RunTimer, Free, At
<1> SUFFICES Whole(conn', loop', queue, setup, user)
  BY <1>1 DEF IInv
<1>2. /\ conn \in Connection /\ Timers(conn, loop, queue, user) /\ queue \in Seq(Functors)
      /\ setup \in Seq(Functors) /\ user \in User /\ SetupInv(conn, queue, setup, user)
      /\ ArmedInv(conn, loop, queue, setup, user) /\ BusyInv(conn, loop) /\ loop \in Loop
  BY <1>1, StepTypes DEF Whole
<1> PICK t \in conn.todo :
      \E c : /\ c = [conn EXCEPT !.todo = @ \ {t},
                                 !.early = @ \/ (t.kind # "keepAlive" /\ conn.state = "kConnecting")]
             /\ IF t.kind = "keepAlive" THEN OnKeepAliveTimeout(c) ELSE ForceClose(c, FALSE)
  BY DEF RunTimer
<1>3. PICK c :
        /\ c = [conn EXCEPT !.todo = @ \ {t},
                            !.early = @ \/ (t.kind # "keepAlive" /\ conn.state = "kConnecting")]
        /\ IF t.kind = "keepAlive" THEN OnKeepAliveTimeout(c) ELSE ForceClose(c, FALSE)
  OBVIOUS
<1>4. PICK T \in SUBSET Timer, y \in BOOLEAN :
        /\ T = conn.todo \ {t}
        /\ y <=> conn.early \/ (t.kind # "keepAlive" /\ conn.state = "kConnecting")
        /\ c = [conn EXCEPT !.todo = T, !.early = y]
  <2>1. conn.todo \ {t} \in SUBSET Timer
    BY <1>2 DEF Connection
  <2> QED
    BY <1>3, <2>1
<1>5. /\ c \in Connection /\ c.state = conn.state /\ c.early = y /\ c.batch = conn.batch
      /\ c.idle = conn.idle /\ c.mixed = conn.mixed /\ c.todo = T /\ c.timers = conn.timers
      /\ Less(conn, c)
  <2>1. /\ c \in Connection /\ c.state = conn.state /\ c.early = y /\ c.batch = conn.batch
        /\ c.idle = conn.idle /\ c.mixed = conn.mixed /\ c.todo = T /\ c.timers = conn.timers
    BY <1>2, <1>4 DEF Connection
  <2>2. c.ids = conn.ids /\ c.created = conn.created /\ c.orphans = conn.orphans /\ c.late = conn.late
    BY <1>2, <1>4 DEF Connection
  <2> QED
    BY <1>4, <2>1, <2>2 DEF Less
<1>6. Timers(c, loop, queue, user) /\ SetupInv(c, queue, setup, user) /\ BusyInv(c, loop)
  <2>1. Timers(c, loop, queue, user)
    BY <1>2, <1>5, LessKeeps
  <2>2. SetupInv(c, queue, setup, user)
    BY <1>2, <1>5, StaysSetUp
  <2>3. BusyInv(c, loop)
    BY <1>1 DEF BusyInv, Writes
  <2> QED
    BY <2>1, <2>2, <2>3
<1>7. CASE t.kind = "keepAlive"
  <2>1. ArmedInv(c, loop, queue, setup, user)
    <3>1. KeepsIdle(conn, c)
      BY <1>4, <1>5, <1>7 DEF KeepsIdle, Waiting
    <3>2. c.early <=> conn.early
      BY <1>4, <1>5, <1>7
    <3> QED
      BY <1>2, <1>5, <3>1, <3>2 DEF ArmedInv, KeepsIdle
  <2>2. CASE c.state = "kConnected"
    BY <1>1, <1>2, <1>3, <1>5, <1>6, <1>7, <2>1, <2>2, ZenonT(30) DEF OnKeepAliveTimeout, Whole, Types
  <2>3. CASE c.state # "kConnected"
    <3>1. conn' = c /\ loop' = At("close", "keepAlive", FALSE)
      BY <1>3, <1>7, <2>3 DEF OnKeepAliveTimeout
    <3>2. PICK m : m = At("close", "keepAlive", FALSE)
      OBVIOUS
    <3>3. m \in Loop /\ m.step = "close" /\ m.kind = "keepAlive" /\ m.more = FALSE
      BY <3>2 DEF At, Loop, Shared
    <3>4. Timers(c, m, queue, user)
      <4>1. Moves(loop, m) /\ \A w \in Waiting(c) : ~Drops(c, loop, w)
        BY <1>1, <3>3 DEF Moves, Drops
      <4> QED
        BY <1>6, <4>1, MoveKeeps
    <3>5. BusyInv(c, m) /\ ArmedInv(c, m, queue, setup, user)
      BY <1>1, <2>1, <3>3 DEF BusyInv, Writes, ArmedInv, Starts
    <3> QED
      BY <1>2, <1>5, <1>6, <3>1, <3>3, <3>4, <3>5, <3>2, ZenonT(30) DEF Whole, Types
  <2> QED
    BY <2>2, <2>3
<1>8. CASE t.kind # "keepAlive"
  <2>1. ForceClose(c, FALSE)
    BY <1>3, <1>8
  <2>2. CASE c.state \in {"kConnected", "kDisconnecting"}
    BY <1>1, <1>2, <1>5, <1>6, <2>1, <2>2, CloseKeeps, ZenonT(30) DEF ForceClose, HandleClose
  <2>3. CASE c.state \notin {"kConnected", "kDisconnecting"}
    <3>1. conn' = c /\ loop' = loop
      BY <1>1, <2>1, <2>3 DEF ForceClose, After
    <3>2. c.state = "kDisconnected" \/ c.early
      <4>1. c.state \in {"kConnecting", "kConnected", "kDisconnecting", "kDisconnected"}
        BY <1>5 DEF Connection
      <4> QED
        BY <1>4, <1>5, <1>8, <2>3, <4>1
    <3>3. ArmedInv(c, loop, queue, setup, user)
      BY <3>2 DEF ArmedInv
    <3> QED
      BY <1>2, <1>5, <1>6, <3>1, <3>3 DEF Whole, Types
  <2> QED
    BY <2>2, <2>3
<1> QED
  BY <1>7, <1>8

-----------------------------------------------------------------------------
\* Functors that newConnection() queues before connectEstablished().
Plain(a) ==
  /\ a \in Seq(Functors) /\ Without(a)
  /\ \A i \in DOMAIN a : a[i][1] # "cancel"

\* The elements of a concatenation.
Joined(a, b, p) ==
  /\ p \in Seq(Functors) /\ Len(p) = Len(a) + Len(b)
  /\ \A i \in DOMAIN a : i \in DOMAIN p /\ p[i] = a[i]
  /\ \A i \in DOMAIN b : Len(a) + i \in DOMAIN p /\ p[Len(a) + i] = b[i]
  /\ \A i \in DOMAIN p : i \in DOMAIN a \/ (i - Len(a) \in DOMAIN b /\ p[i] = b[i - Len(a)])

\* The result of a concatenation.
LEMMA ConcatIs ==
  ASSUME NEW a \in Seq(Functors), NEW b \in Seq(Functors), NEW p, p = a \o b
  PROVE  Joined(a, b, p)
<1>1. p \in Seq(Functors) /\ Len(p) = Len(a) + Len(b) /\ Len(a) \in Nat /\ Len(b) \in Nat
  BY SMT
<1>2. DOMAIN a = 1 .. Len(a) /\ DOMAIN b = 1 .. Len(b) /\ DOMAIN p = 1 .. Len(p)
  BY <1>1, SMT
<1>3. \A i \in 1 .. Len(p) : p[i] = IF i <= Len(a) THEN a[i] ELSE b[i - Len(a)]
  BY <1>1, ConcatProperties, SMT
<1> QED
  BY <1>1, <1>2, <1>3, SMT DEF Joined

\* Concatenations of such functors are such functors.
LEMMA PlainConcat ==
  ASSUME NEW a, NEW b, Plain(a), Plain(b), NEW p, p = a \o b
  PROVE  Plain(p) /\ (StartQueued(a) \/ StartQueued(b) => StartQueued(p))
<1>1. a \in Seq(Functors) /\ b \in Seq(Functors)
  BY DEF Plain
<1>2. Joined(a, b, p)
  BY <1>1, ConcatIs
<1>3. \A i \in DOMAIN p : (\E j \in DOMAIN a : p[i] = a[j]) \/ (\E j \in DOMAIN b : p[i] = b[j])
  BY <1>2 DEF Joined
<1>4. \A i \in DOMAIN p : p[i] # Established /\ p[i][1] # "cancel"
  BY <1>3, ZenonT(30) DEF Plain, Without
<1>5. StartQueued(a) => StartQueued(p)
  BY <1>2 DEF StartQueued, Joined
<1>6. StartQueued(b) => StartQueued(p)
  <2> SUFFICES ASSUME NEW j \in DOMAIN b, b[j] = <<"idle">>
               PROVE  StartQueued(p)
    BY DEF StartQueued
  <2>1. Len(a) + j \in DOMAIN p /\ p[Len(a) + j] = <<"idle">>
    BY <1>2 DEF Joined
  <2> QED
    BY <2>1 DEF StartQueued
<1> QED
  BY <1>2, <1>4, <1>5, <1>6 DEF Plain, Without, Joined

\* A functor of a configured timer.
LEMMA IfSetPlain ==
  ASSUME NEW f \in Functors, f[1] \notin {"cancel", "connectEstablished"}
  PROVE  Plain(IfSet(f)) /\ (f = <<"idle">> /\ "idle" \in Config => StartQueued(IfSet(f)))
<1>1. f # Established
  BY SMT DEF Established
<1>2. CASE f[1] \in Config
  <2>1. PICK a : a = <<f>> /\ a = IfSet(f)
    BY <1>2 DEF IfSet
  <2>2. a \in Seq(Functors) /\ DOMAIN a = {1} /\ a[1] = f
    BY <2>1, SMT
  <2> QED
    BY <1>1, <2>1, <2>2 DEF Plain, Without, StartQueued
<1>3. CASE f[1] \notin Config
  <2>1. PICK a : a = <<>> /\ a = IfSet(f)
    BY <1>3 DEF IfSet
  <2>2. a \in Seq(Functors) /\ DOMAIN a = {}
    BY <2>1, SMT
  <2>3. f = <<"idle">> => f[1] = "idle"
    BY SMT
  <2> QED
    BY <1>3, <2>1, <2>2, <2>3 DEF Plain, Without
<1> QED
  BY <1>2, <1>3

\* The functors of newConnection(): connectEstablished() is the last.
LEMMA SetupIs ==
  /\ Setup \in Seq(Functors) /\ Setup # <<>> /\ Ends(Setup)
  /\ \A i \in DOMAIN Setup : Setup[i][1] # "cancel"
  /\ "idle" \in Config => StartQueued(Setup)
<1>1. PICK f, g, h : f = <<"connection", TRUE>> /\ g = <<"idle">> /\ h = <<"keepAlive">>
  OBVIOUS
<1>2. /\ f \in Functors /\ f[1] \notin {"cancel", "connectEstablished"}
      /\ g \in Functors /\ g[1] \notin {"cancel", "connectEstablished"}
      /\ h \in Functors /\ h[1] \notin {"cancel", "connectEstablished"}
  <2>1. f \in Functors /\ f[1] \notin {"cancel", "connectEstablished"}
    <3>1. \A on \in BOOLEAN : <<"connection", on>> \in Functors /\ <<"connection", on>>[1] = "connection"
      BY SMT DEF Functors
    <3> QED
      BY <1>1, <3>1
  <2>2. g \in Functors /\ g[1] \notin {"cancel", "connectEstablished"}
    BY <1>1, SMT DEF Functors
  <2>3. h \in Functors /\ h[1] \notin {"cancel", "connectEstablished"}
    BY <1>1, SMT DEF Functors
  <2> QED
    BY <2>1, <2>2, <2>3
<1>3. /\ Plain(IfSet(f)) /\ Plain(IfSet(g)) /\ Plain(IfSet(h))
      /\ "idle" \in Config => StartQueued(IfSet(g))
  BY <1>1, <1>2, IfSetPlain
<1>4. PICK a : a = IfSet(f) \o IfSet(g) /\ Plain(a) /\ ("idle" \in Config => StartQueued(a))
  BY <1>3, PlainConcat
<1>5. PICK b : b = a \o IfSet(h) /\ Plain(b) /\ ("idle" \in Config => StartQueued(b))
  BY <1>3, <1>4, PlainConcat
<1>6. PICK p, e : p = Setup /\ p = b \o e /\ e = <<Established>>
  BY <1>1, <1>4, <1>5 DEF Setup, Established
<1>7. /\ Established \in Functors /\ Established[1] # "cancel" /\ b \in Seq(Functors)
      /\ Len(b) \in Nat /\ DOMAIN b = 1 .. Len(b)
  BY <1>5, SMT DEF Established, Functors, Plain
<1>8. e \in Seq(Functors) /\ Len(e) = 1 /\ DOMAIN e = {1} /\ e[1] = Established
  BY <1>6, <1>7, SMT
<1>9. Joined(b, e, p)
  BY <1>6, <1>7, <1>8, ConcatIs
<1>10. Ends(p)
  <2>1. p # <<>> /\ 1 .. Len(p) - 1 = DOMAIN b
    BY <1>7, <1>8, <1>9, SMT DEF Joined
  <2>2. p[Len(p)] = Established
    BY <1>8, <1>9 DEF Joined
  <2>3. \A i \in DOMAIN b : p[i] # Established
    BY <1>5, <1>9 DEF Plain, Without, Joined
  <2> QED
    BY <2>1, <2>2, <2>3 DEF Ends
<1>11. \A i \in DOMAIN p : p[i][1] # "cancel"
  <2>1. \A i \in DOMAIN p : i \in DOMAIN b \/ p[i] = Established
    BY <1>8, <1>9 DEF Joined
  <2> QED
    BY <1>5, <1>7, <1>9, <2>1 DEF Plain, Joined
<1>12. "idle" \in Config => StartQueued(p)
  BY <1>5, <1>9 DEF StartQueued, Joined
<1> QED
  BY <1>6, <1>9, <1>10, <1>11, <1>12 DEF Ends, Joined

\* The invariant holds when newConnection() has made the connection.
LEMMA InitHolds == Init => IInv
<1> SUFFICES ASSUME Init
             PROVE  Whole(conn, loop, queue, setup, user)
  BY DEF IInv
<1>1. PICK I : I = [k \in Kinds |-> 0] /\ I \in [Kinds -> Int] /\ \A k \in Kinds : I[k] = 0
  <2>1. [k \in Kinds |-> 0] \in [Kinds -> Int] /\ \A l \in Kinds : [k \in Kinds |-> 0][l] = 0
    BY SMT
  <2> QED
    BY <2>1
<1>2. PICK b, k : /\ b \in BOOLEAN /\ k \in BOOLEAN /\ (b <=> "idle" \in Config)
                  /\ conn = [state |-> "kConnecting", idle |-> b, keepAlive |-> k, ids |-> I,
                             created |-> 0, timers |-> {}, batch |-> {}, todo |-> {}, canceling |-> {},
                             early |-> FALSE, orphans |-> {}, late |-> {}, mixed |-> FALSE]
  <2>1. ("idle" \in Config) \in BOOLEAN /\ ("keepAlive" \in Config) \in BOOLEAN
    BY SMT
  <2> QED
    BY <1>1, <2>1 DEF Init, NoId
<1>3. /\ conn.state = "kConnecting" /\ conn.idle = b /\ conn.ids = I /\ conn.created = 0
      /\ conn.timers = {} /\ conn.batch = {} /\ conn.todo = {}
  BY <1>2
<1>4. 0 \in Nat /\ 0 <= 0 /\ 0 \in Int
  BY SMT
<1>5. conn \in Connection
  BY <1>1, <1>2, <1>4 DEF Connection
<1>6. Waiting(conn) = {}
  BY <1>3 DEF Waiting
<1>7. queue = <<>> /\ setup = Setup /\ queue \in Seq(Functors) /\ DOMAIN queue = {}
  BY SMT DEF Init
<1>8. user \in User /\ user.step = "free" /\ user.id = 0
  BY <1>4 DEF Init, User, Shared, NoId
<1>9. loop \in Loop /\ loop.step = "free" /\ loop.kind = "idle" /\ ~loop.more
  BY DEF Init, Free, At, Loop, Shared
<1>10. IdsInv(conn, loop) /\ BusyInv(conn, loop)
  BY <1>1, <1>3, <1>4, <1>5, <1>9 DEF IdsInv, BusyInv, Writes
<1>11. OldIds(conn, queue, user)
  BY <1>3, <1>4, <1>7, <1>8 DEF OldIds
<1>12. CancelInv(conn, loop, queue, user) /\ OffInv(conn, loop, queue, user)
  BY <1>6, <1>8 DEF CancelInv, OffInv
<1>13. OnInv(conn, loop, queue, user)
  BY <1>6, <1>8, <1>9 DEF OnInv, Off
<1>14. ArmedInv(conn, loop, queue, setup, user)
  BY <1>2, <1>3, <1>7, SetupIs DEF ArmedInv
<1>15. SetupInv(conn, queue, setup, user)
  BY <1>3, <1>7, <1>8, SetupIs DEF SetupInv, Without
<1>16. setup \in Seq(Functors)
  BY <1>7, SetupIs
<1> QED
  BY <1>5, <1>7, <1>8, <1>9, <1>10, <1>11, <1>12, <1>13, <1>14, <1>15, <1>16,
     ZenonT(30) DEF Whole, Types, Timers

\* Every step of the loop in a setter, or in handleClose(), keeps the invariant.
LEMMA LoopGoesOnKeeps ==
  ASSUME IInv, LoopGoesOn
  PROVE  IInv'
<1>1. Whole(conn, loop, queue, setup, user) /\ queue' = queue /\ setup' = setup /\ user' = user
  BY DEF IInv, LoopGoesOn
<1> SUFFICES Whole(conn', loop', queue, setup, user)
  BY <1>1 DEF IInv
<1>2. CASE LoopTest
  BY <1>1, <1>2, LoopTestKeeps DEF LoopTest
<1>3. CASE LoopCancel
  BY <1>1, <1>3, LoopCancelKeeps DEF LoopCancel
<1>4. CASE LoopStart
  <2>1. CASE conn' = Start(conn, loop.kind) /\ loop' = At("assign", loop.kind, loop.more)
    BY <1>1, <1>4, <2>1, LoopStartKeeps DEF LoopStart
  <2>2. CASE loop.kind = "keepAlive" /\ loop' = After(loop.more) /\ UNCHANGED conn
    BY <1>1, <1>4, <2>2, LoopSkipsKeeps DEF LoopStart
  <2> QED
    BY <1>4, <2>1, <2>2 DEF LoopStart
<1>5. CASE LoopAssign
  <2>1. PICK L : L = {i \in {conn.created} : loop.kind = "idle" /\ ~conn.idle /\ ~Off(user)}
    OBVIOUS
  <2>2. /\ conn' = [conn EXCEPT !.ids[loop.kind] = conn.created, !.late = conn.late \cup L]
        /\ loop.step = "assign" /\ loop' = After(loop.more)
    BY <1>5, <2>1 DEF LoopAssign, TurningOff, Off
  <2> QED
    BY <1>1, <2>1, <2>2, LoopAssignKeeps
<1>6. CASE LoopDrop
  <2>1. CASE conn.ids[loop.kind] # NoId
    BY <1>1, <1>6, <2>1, LoopDropKeeps DEF LoopDrop
  <2>2. CASE conn.ids[loop.kind] = NoId
    BY <1>1, <1>6, <2>2, LoopSkipsKeeps DEF LoopDrop
  <2> QED
    BY <2>1, <2>2
<1>7. CASE LoopClear
  BY <1>1, <1>7, LoopClearKeeps DEF LoopClear
<1>8. CASE LoopClose
  BY <1>1, <1>8, LoopCloseKeeps DEF LoopClose
<1> QED
  BY <1>2, <1>3, <1>4, <1>5, <1>6, <1>7, <1>8 DEF LoopGoesOn

\* Every step of the user's thread keeps it.
LEMMA UserStepKeeps ==
  ASSUME IInv, UserStep
  PROVE  IInv'
<1>1. Whole(conn, loop, queue, setup, user)
  BY DEF IInv
<1> SUFFICES Whole(conn', loop', queue', setup', user')
  BY DEF IInv
<1>2. ASSUME NEW on \in BOOLEAN, UserSetConnectionTimeout(on)
      PROVE  Whole(conn', loop', queue', setup', user')
  BY <1>1, <1>2, UserSetConnectionTimeoutKeeps DEF UserSetConnectionTimeout, Callable
<1>3. ASSUME NEW on \in BOOLEAN, NEW k \in Shared, UserStore(k, on)
      PROVE  Whole(conn', loop', queue', setup', user')
  BY <1>1, <1>3, UserStoreKeeps DEF UserStore, Callable
<1>4. CASE UserPost
  BY <1>1, <1>4, UserPostKeeps DEF UserPost, Returned
<1>5. CASE UserTest
  <2>1. CASE user' = [user EXCEPT !.step = "cancel"]
    BY <1>1, <1>5, <2>1, UserFindsKeeps DEF UserTest
  <2>2. CASE conn.ids[user.kind] = NoId /\ user' = Returned
    BY <1>1, <1>5, <2>2, UserFindsNoneKeeps DEF UserTest, Returned
  <2> QED
    BY <1>5, <2>1, <2>2 DEF UserTest
<1>6. CASE UserCancel
  <2>1. PICK id \in {conn.ids[user.kind], Torn} :
          /\ user' = [user EXCEPT !.step = "clear", !.id = id]
          /\ queue' = Append(queue, <<"cancel", id>>)
    BY <1>6 DEF UserCancel
  <2>2. user.step = "cancel" /\ conn' = conn /\ loop' = loop /\ setup' = setup
    BY <1>6 DEF UserCancel
  <2> QED
    BY <1>1, <2>1, <2>2, UserCancelKeeps
<1>7. CASE UserClear
  <2>1. PICK O : O = {conn.ids[user.kind]} \ {user.id, NoId, Torn}
    OBVIOUS
  <2>2. /\ conn' = [conn EXCEPT !.ids[user.kind] = NoId, !.orphans = conn.orphans \cup O]
        /\ user.step = "clear" /\ loop' = loop /\ queue' = queue /\ setup' = setup
        /\ user' = [user EXCEPT !.step = "free", !.kind = "idle", !.id = NoId]
    BY <1>7, <2>1 DEF UserClear, Returned
  <2> QED
    BY <1>1, <2>1, <2>2, UserClearKeeps
<1>8. CASE UserClearTorn
  <2>1. /\ conn' = [conn EXCEPT !.ids[user.kind] = Torn, !.orphans = conn.orphans \cup {conn.created}]
        /\ user.step = "clear" /\ loop.step = "assign" /\ loop.kind = user.kind
        /\ loop' = After(loop.more) /\ queue' = queue /\ setup' = setup
        /\ user' = [user EXCEPT !.step = "free", !.kind = "idle", !.id = NoId]
    BY <1>8 DEF UserClearTorn, Returned, Assigning
  <2> QED
    BY <1>1, <2>1, UserClearTornKeeps
<1> QED
  BY <1>2, <1>3, <1>4, <1>5, <1>6, <1>7, <1>8 DEF UserStep, UserGoesOn, Shared

\* A functor of the loop's queue runs.
LEMMA RunFunctorKeeps ==
  ASSUME IInv, RunFunctor
  PROVE  IInv'
<1>1. /\ Whole(conn, loop, queue, setup, user) /\ loop.step = "free" /\ ~loop.more
      /\ conn.batch = {} /\ queue # <<>> /\ queue' = Tail(queue) /\ setup' = setup /\ user' = user
  BY DEF IInv, RunFunctor, Ready, Free, At
<1>2. PICK f, p : f = Head(queue) /\ p = Tail(queue)
  OBVIOUS
<1> SUFFICES Whole(conn', loop', p, setup, user)
  BY <1>1, <1>2 DEF IInv
<1>3. CASE /\ f[1] \in {"idle", "keepAlive"} /\ UNCHANGED conn
           /\ loop' = At(IF f[1] = "idle" THEN "cancel" ELSE "start", f[1], FALSE)
  <2>1. PICK m : m = At(IF f[1] = "idle" THEN "cancel" ELSE "start", f[1], FALSE) /\ m = loop'
    BY <1>3
  <2>2. Whole(conn, m, p, setup, user)
    BY <1>1, <1>2, <1>3, <2>1, RunSetterKeeps
  <2> QED
    BY <1>3, <2>1, <2>2
<1>4. CASE f[1] = "connection" /\ conn' = SetConnectionTimeoutInLoop(conn, f[2]) /\ UNCHANGED loop
  BY <1>1, <1>2, <1>4, RunConnectionKeeps
<1>5. CASE f[1] = "cancel" /\ conn' = Cancel(conn, f[2]) /\ UNCHANGED loop
  BY <1>1, <1>2, <1>5, RunCancelKeeps
<1>6. CASE f[1] = "connectEstablished" /\ conn' = [conn EXCEPT !.state = "kConnected"] /\ UNCHANGED loop
  <2>1. AtHead(f, queue, p)
    BY <1>1, <1>2, HeadTypes
  <2>2. queue[1] = Established
    BY <1>6, <2>1 DEF AtHead
  <2> QED
    BY <1>1, <1>2, <1>6, <2>2, EstablishedKeeps
<1> QED
  BY <1>2, <1>3, <1>4, <1>5, <1>6 DEF RunFunctor

\* Every step of the threads and of the loop keeps the invariant.
LEMMA NextKeeps == IInv /\ [Next]_vars => IInv'
<1> SUFFICES ASSUME IInv, [Next]_vars
             PROVE  IInv'
  OBVIOUS
<1>1. Whole(conn, loop, queue, setup, user)
  BY DEF IInv
<1>2. CASE QueueSetup
  <2>1. Whole(conn, loop, queue', setup', user)
    BY <1>1, <1>2, QueueSetupKeeps DEF QueueSetup
  <2> QED
    BY <1>2, <2>1 DEF QueueSetup, IInv
<1>3. ASSUME NEW e \in SUBSET conn.timers, Expire(e)
      PROVE  IInv'
  <2>1. loop.step = "free" /\ ~loop.more /\ conn.batch = {}
    BY <1>3 DEF Expire, Ready, Free, At
  <2>2. Whole(conn', loop, queue, setup, user)
    BY <1>1, <1>3, <2>1, ExpireKeeps DEF Expire
  <2> QED
    BY <1>3, <2>2 DEF Expire, IInv
<1>4. CASE EndBatch
  <2>1. loop.step = "free" /\ ~loop.more /\ conn.todo = {}
    BY <1>4 DEF EndBatch, Free, At
  <2>2. Whole(conn', loop, queue, setup, user)
    BY <1>1, <1>4, <2>1, EndBatchKeeps DEF EndBatch
  <2> QED
    BY <1>4, <2>2 DEF EndBatch, IInv
<1>5. CASE UNCHANGED vars
  BY <1>1, <1>5 DEF vars, IInv
<1> QED
  BY <1>2, <1>3, <1>4, <1>5, UserStepKeeps, LoopGoesOnKeeps, RunFunctorKeeps, HandleReadKeeps,
     HandleReadEofKeeps, RunTimerKeeps DEF Next

\* The invariant of the connection's timers.
THEOREM Invariance == Spec => []IInv
<1> QED
  BY InitHolds, NextKeeps, PTL DEF Spec

\* Every one-shot timer that waits can be cancelled, but for the race of a
\* setIdleTimeout(0) in another thread that forgets the id of a new one.
THEOREM TimeoutsStayCancellable == Spec => []TimeoutsCancellable
<1>1. IInv => TimeoutsCancellable
  BY DEF IInv, Whole, Timers, CancelInv, Known, Assigns, CancelQueued, TimeoutsCancellable,
         Assigning, Pending, Waiting, QueueHas
<1> QED
  BY <1>1, Invariance, PTL

\* An established connection with an idle timeout has its timer, or gets it.
THEOREM IdleStaysArmed == Spec => []IdleArmed
<1>1. IInv => IdleArmed
  <2> SUFFICES ASSUME IInv, Reading, conn.idle, ~conn.early, ~conn.mixed,
                      ~\E t \in Pending : t.kind = "idle"
               PROVE  IdleCallOpen
    BY DEF IdleArmed
  <2>1. conn.state # "kDisconnected" /\ conn.state # "kConnecting"
    BY DEF Reading
  <2>2. setup = <<>>
    BY <2>1 DEF IInv, Whole, SetupInv
  <2>3. ~StartQueued(setup)
    <3>1. DOMAIN setup = {}
      BY <2>2, SMT
    <3> QED
      BY <3>1 DEF StartQueued
  <2>4. StartQueued(queue) \/ On(user) \/ Starts(loop)
    BY <2>1, <2>3 DEF IInv, Whole, ArmedInv, Pending, Waiting
  <2>5. StartQueued(queue) => IdleCallOpen
    <3> SUFFICES ASSUME NEW i \in DOMAIN queue, queue[i] = <<"idle">>
                 PROVE  IdleCallOpen
      BY DEF StartQueued
    <3>1. queue[i][1] = "idle"
      BY SMT
    <3> QED
      BY <3>1 DEF IdleCallOpen
  <2>6. On(user) \/ Starts(loop) => IdleCallOpen
    BY DEF On, Starts, TurningOn, IdleCallOpen
  <2> QED
    BY <2>4, <2>5, <2>6
<1> QED
  BY <1>1, Invariance, PTL

\* With the idle timeout off, and no call under way, no idle timer is left but
\* those of the three races of a call in another thread.
THEOREM IdleOffStaysOff == Spec => []IdleOffIsOff
<1>1. IInv => IdleOffIsOff
  <2> SUFFICES ASSUME IInv, ~conn.idle, ~IdleCallOpen, NEW t \in Pending, t.kind = "idle"
               PROVE  t.zero \/ t.id \in conn.orphans \cup conn.late
    BY DEF IdleOffIsOff
  <2>1. Harmless(conn, loop, queue, user, t)
    BY DEF IInv, Whole, Timers, OffInv, Pending, Waiting
  <2>2. ~Off(user) /\ loop.step = "free"
    BY DEF Off, TurningOff, IdleCallOpen
  <2>3. ~CancelQueued(queue, t.id)
    <3> SUFFICES ASSUME NEW i \in DOMAIN queue, queue[i] = <<"cancel", t.id>>
                 PROVE  FALSE
      BY DEF CancelQueued
    <3>1. queue[i][1] = "cancel"
      BY SMT
    <3> QED
      BY <3>1 DEF IdleCallOpen
  <2> QED
    BY <2>1, <2>2, <2>3 DEF Harmless, Assigns, Drops
<1> QED
  BY <1>1, Invariance, PTL
=============================================================================
