-------------------------- MODULE TimerQueueProofs --------------------------
(***************************************************************************)
(* Proofs about TimerQueue, for any threads, addresses and numbers of      *)
(* timers and any behaviour of the two clocks.                             *)
(***************************************************************************)
EXTENDS TimerQueue, SequenceTheorems, WellFoundedInduction, TLAPS

\* Most leaves are about sets and functions only; the others name their prover.
USE Zenon

\* The timers whose functor has not run yet.
Adds == {i \in DOMAIN pending : pending[i].op = "add"}
Queued == {pending[i].id[1] : i \in Adds}

Id == Addrs \X Nat
Functor == [op : {"add", "cancel"}, id : Id]
TimerObject == [expiration : Nat, repeat : BOOLEAN, interval : Nat, sequence : Nat]

TypeOK ==
  /\ clock \in Nat /\ offset \in Nat /\ batchNow \in Nat /\ nextSeq \in Nat
  /\ DOMAIN heap \subseteq Addrs
  /\ \A a \in DOMAIN heap : heap[a] \in TimerObject /\ heap[a].sequence < nextSeq
  /\ dead \subseteq Id /\ \A id \in dead : id[2] < nextSeq
  /\ issued \subseteq Id
  /\ pending \in Seq(Functor)
  /\ tpc \in [Threads -> {Idle} \cup [addr : Addrs, sequence : Nat]]
  /\ pc \in {"idle", "batch", "callback", "reset", "gone"}

\* Each live timer is in one place: timers_ together with activeTimers_, the
\* batch, or a queued functor.
OwnerInv ==
  /\ \A e \in timers_ \cup expired : e[2] \in DOMAIN heap /\ e = Entry(e[2])
  /\ \A e \in timers_ : ActiveTimer(e[2]) \in activeTimers_
  /\ \A p \in activeTimers_ :
       p[1] \in DOMAIN heap /\ p = ActiveTimer(p[1]) /\ Entry(p[1]) \in timers_
  /\ timers_ \cap expired = {}
  /\ \A a \in Queued : a \in DOMAIN heap /\ Entry(a) \notin timers_ \cup expired
  /\ \A a \in DOMAIN heap : Entry(a) \in timers_ \cup expired \/ a \in Queued

\* No timer is queued twice.
QueueInv == \A i, j \in Adds : pending[i].id[1] = pending[j].id[1] => i = j

\* The batch: there is one between handleRead()'s start and the end of reset().
BatchInv ==
  /\ pc \in {"idle", "gone"} => expired = {}
  /\ uncalled \subseteq expired
  /\ pc = "reset" => uncalled = {}
  /\ callingExpiredTimers_ <=> pc \in {"batch", "callback"}

\* The dead timers: none waits, one that is in the batch is deleted by reset(),
\* and reset() deletes no other.
DeadInv ==
  /\ DeadStaysDead
  /\ \A e \in expired :
       LET id == ActiveTimer(e[2]) IN
       /\ id \in dead => ~heap[e[2]].repeat \/ id \in cancelingTimers_
       /\ id \in cancelingTimers_ => id \in dead
       /\ ~heap[e[2]].repeat /\ e \notin uncalled => id \in dead
  /\ \A a \in Queued : ActiveTimer(a) \notin dead

\* The inductive invariant.
IInv == TypeOK /\ OwnerInv /\ QueueInv /\ BatchInv /\ DeadInv /\ OnlyOwnIdCancels

-----------------------------------------------------------------------------
\* The queue of functors: what a push and a pop do to the timers queued.
LEMMA PushAdd ==
  ASSUME NEW a \in Addrs, NEW s \in Nat, TypeOK, QueueInv, a \notin Queued,
         pending' = Append(pending, [op |-> "add", id |-> <<a, s>>])
  PROVE  Queued' = Queued \cup {a} /\ QueueInv'
<1> DEFINE n == Len(pending)
<1>1. /\ n \in Nat /\ DOMAIN pending = 1 .. n /\ DOMAIN pending' = 1 .. n + 1
      /\ \A i \in 1 .. n : pending'[i] = pending[i]
      /\ pending'[n + 1] = [op |-> "add", id |-> <<a, s>>]
  BY SMT DEF TypeOK, Id
<1> HIDE DEF n
<1>2. Adds' = Adds \cup {n + 1} /\ n + 1 \notin Adds /\ Adds \subseteq 1 .. n
  BY <1>1, SMT DEF Adds
<1>3. /\ \A i \in Adds : pending'[i].id[1] = pending[i].id[1]
      /\ pending'[n + 1].id[1] = a
  BY <1>1, <1>2, SMT
<1>4. \A i \in Adds : pending[i].id[1] # a
  BY DEF Queued
<1>5. \A i, j \in Adds' : pending'[i].id[1] = pending'[j].id[1] => i = j
  <2> SUFFICES ASSUME NEW i \in Adds', NEW j \in Adds', pending'[i].id[1] = pending'[j].id[1]
               PROVE  i = j
    OBVIOUS
  <2>1. CASE i \in Adds /\ j \in Adds
    <3>1. pending[i].id[1] = pending[j].id[1]
      BY <2>1, <1>3
    <3> QED
      BY <2>1, <3>1 DEF QueueInv
  <2>2. CASE i = n + 1 \/ j = n + 1
    BY <2>2, <1>2, <1>3, <1>4, ZenonT(60)
  <2> QED
    BY <2>1, <2>2, <1>2
<1>6. {pending'[i].id[1] : i \in Adds'} = {pending[i].id[1] : i \in Adds} \cup {a}
  BY <1>2, <1>3, ZenonT(60)
<1> QED
  BY <1>5, <1>6 DEF Queued, QueueInv

\* queueInLoop(cancelInLoop): the queue of requests grows by a cancel and the timers
\* on their way into the loop stay the same.
LEMMA PushCancel ==
  ASSUME NEW id \in Id, TypeOK, QueueInv,
         pending' = Append(pending, [op |-> "cancel", id |-> id])
  PROVE  Queued' = Queued /\ QueueInv'
<1> DEFINE n == Len(pending)
<1>1. /\ n \in Nat /\ DOMAIN pending = 1 .. n /\ DOMAIN pending' = 1 .. n + 1
      /\ \A i \in 1 .. n : pending'[i] = pending[i]
      /\ pending'[n + 1].op = "cancel"
  BY SMT DEF TypeOK
<1> HIDE DEF n
<1>2. Adds' = Adds /\ Adds \subseteq 1 .. n
  BY <1>1, SMT DEF Adds
<1>3. \A i \in Adds : pending'[i].id[1] = pending[i].id[1]
  BY <1>1, <1>2
<1>4. \A i, j \in Adds' : pending'[i].id[1] = pending'[j].id[1] => i = j
  <2> SUFFICES ASSUME NEW i \in Adds, NEW j \in Adds, pending'[i].id[1] = pending'[j].id[1]
               PROVE  i = j
    BY <1>2
  <2>1. pending[i].id[1] = pending[j].id[1]
    BY <1>3
  <2> QED
    BY <2>1 DEF QueueInv
<1>5. {pending'[i].id[1] : i \in Adds'} = {pending[i].id[1] : i \in Adds}
  BY <1>2, <1>3, ZenonT(60)
<1> QED
  BY <1>4, <1>5 DEF Queued, QueueInv

\* A step that leaves the queue of functors alone.
LEMMA SameQueue ==
  ASSUME TypeOK, QueueInv, UNCHANGED pending
  PROVE  Queued' = Queued /\ QueueInv' /\ pending' \in Seq(Functor)
<1>1. pending \in Seq(Functor)
  BY DEF TypeOK
<1>2. Adds' = Adds
  BY DEF Adds
<1>3. Queued' = Queued
  BY <1>2 DEF Queued
<1>4. QueueInv'
  BY <1>2 DEF QueueInv
<1> QED
  BY <1>1, <1>3, <1>4

\* doPendingFunctors() takes the first request off the queue, and only its timer
\* leaves the set of queued ones.
LEMMA Pop ==
  ASSUME TypeOK, QueueInv, pending # <<>>, pending' = Tail(pending)
  PROVE  /\ Queued' = IF Head(pending).op = "add" THEN Queued \ {Head(pending).id[1]} ELSE Queued
         /\ Head(pending).op = "add" => Head(pending).id[1] \in Queued
         /\ QueueInv'
<1> DEFINE n == Len(pending)
<1>1. /\ n \in Nat \ {0} /\ DOMAIN pending = 1 .. n /\ DOMAIN pending' = 1 .. n - 1
      /\ \A i \in 1 .. n - 1 : pending'[i] = pending[i + 1]
      /\ Head(pending) = pending[1]
  BY SMT DEF TypeOK
<1> HIDE DEF n
<1>2. \A i \in 1 .. n - 1 : i \in Adds' <=> i + 1 \in Adds
  BY <1>1, SMT DEF Adds
<1>3. Adds \subseteq 1 .. n /\ Adds' \subseteq 1 .. n - 1
  BY <1>1 DEF Adds
<1>4. 1 \in Adds <=> Head(pending).op = "add"
  BY <1>1, SMT DEF Adds
<1>5. \A i \in Adds' : i + 1 \in Adds /\ pending'[i].id[1] = pending[i + 1].id[1]
  BY <1>1, <1>2, <1>3
<1>6. QueueInv'
  <2> SUFFICES ASSUME NEW i \in Adds', NEW j \in Adds', pending'[i].id[1] = pending'[j].id[1]
               PROVE  i = j
    BY DEF QueueInv
  <2>0. i + 1 \in Adds /\ j + 1 \in Adds /\ pending[i + 1].id[1] = pending[j + 1].id[1]
    BY <1>5
  <2>1. i + 1 = j + 1
    BY <2>0 DEF QueueInv
  <2> QED
    BY <2>1, <1>3, SMT
<1>7. Queued' \subseteq Queued
  BY <1>5, ZenonT(60) DEF Queued
<1>8. \A i \in Adds : i # 1 => i - 1 \in Adds' /\ pending'[i - 1].id[1] = pending[i].id[1]
  <2> SUFFICES ASSUME NEW i \in Adds, i # 1
               PROVE  i - 1 \in Adds' /\ pending'[i - 1].id[1] = pending[i].id[1]
    OBVIOUS
  <2>1. i - 1 \in 1 .. n - 1 /\ (i - 1) + 1 = i
    BY <1>1, <1>3, SMT
  <2> QED
    BY <2>1, <1>1, <1>2
<1>9. \A a \in Queued : a \in Queued' \/ (1 \in Adds /\ a = pending[1].id[1])
  BY <1>8, ZenonT(60) DEF Queued
<1>10. 1 \in Adds => pending[1].id[1] \in Queued /\ pending[1].id[1] \notin Queued'
  <2> SUFFICES ASSUME 1 \in Adds, pending[1].id[1] \in Queued'
               PROVE  FALSE
    BY DEF Queued
  <2>1. PICK i \in Adds' : pending'[i].id[1] = pending[1].id[1]
    BY DEF Queued
  <2>2. i + 1 = 1
    BY <2>1, <1>5, ZenonT(60) DEF QueueInv
  <2> QED
    BY <2>2, <1>3, <1>1, SMT
<1> QED
  BY <1>1, <1>4, <1>6, <1>7, <1>9, <1>10, ZenonT(60)

-----------------------------------------------------------------------------
\* Allocation and deallocation.
LEMMA CreateIs ==
  ASSUME TypeOK, NEW a \in Addrs, NEW r \in Requests, Create(a, r[1], r[2], r[3])
  PROVE  /\ a \notin DOMAIN heap /\ DOMAIN heap' = DOMAIN heap \cup {a}
         /\ \A x \in DOMAIN heap : heap'[x] = heap[x]
         /\ heap'[a] = Timer(r[1], r[2], r[3]) /\ heap'[a] \in TimerObject
         /\ heap'[a].sequence = nextSeq /\ nextSeq' = nextSeq + 1
<1>1. r[1] \in Nat /\ r[2] \in BOOLEAN /\ r[3] \in Nat
  <2>1. CASE \E when \in Times : r = <<when, FALSE, 0>>
    BY <2>1, TimerAssumption, SMT
  <2>2. CASE \E i \in Intervals : r = <<Wall + i, TRUE, i>>
    BY <2>2, TimerAssumption, SMT DEF Wall, TypeOK
  <2> QED
    BY <2>1, <2>2 DEF Requests
<1>2. Timer(r[1], r[2], r[3]) \in TimerObject /\ Timer(r[1], r[2], r[3]).sequence = nextSeq
  BY <1>1 DEF Timer, TimerObject, TypeOK
<1> DEFINE timer == Timer(r[1], r[2], r[3])
<1> HIDE DEF timer
<1>3. heap' = [x \in DOMAIN heap \cup {a} |-> IF x = a THEN timer ELSE heap[x]]
  BY DEF Create, Alloc, timer
<1>4. a \notin DOMAIN heap /\ nextSeq' = nextSeq + 1
  BY DEF Create
<1>5. /\ DOMAIN heap' = DOMAIN heap \cup {a} /\ heap'[a] = timer
      /\ \A x \in DOMAIN heap : heap'[x] = heap[x]
  BY <1>3, <1>4
<1> QED
  BY <1>2, <1>4, <1>5 DEF timer

\* A new timer gets the next sequence number.
LEMMA Numbered ==
  ASSUME TypeOK, OnlyOwnIdCancels, NEW a \in Addrs, NEW r \in Requests,
         Create(a, r[1], r[2], r[3]), UNCHANGED <<pc, dead>>
  PROVE  /\ nextSeq' \in Nat /\ DOMAIN heap' \subseteq Addrs
         /\ \A x \in DOMAIN heap' : heap'[x] \in TimerObject /\ heap'[x].sequence < nextSeq'
         /\ dead' \subseteq Id /\ \A id \in dead' : id[2] < nextSeq'
         /\ OnlyOwnIdCancels'
<1>1. /\ a \notin DOMAIN heap /\ DOMAIN heap' = DOMAIN heap \cup {a}
      /\ \A x \in DOMAIN heap : heap'[x] = heap[x]
      /\ heap'[a] \in TimerObject
      /\ heap'[a].sequence = nextSeq /\ nextSeq' = nextSeq + 1
  BY CreateIs
<1>2. nextSeq \in Nat /\ nextSeq' \in Nat /\ DOMAIN heap' \subseteq Addrs
  BY <1>1, SMT DEF TypeOK
<1>3. \A x \in DOMAIN heap : heap[x] \in TimerObject /\ heap[x].sequence \in Nat
  BY DEF TypeOK, TimerObject
<1>4. \A x \in DOMAIN heap' : heap'[x] \in TimerObject /\ heap'[x].sequence < nextSeq'
  BY <1>1, <1>2, <1>3, SMT DEF TypeOK
<1>5. dead' \subseteq Id /\ \A id \in dead' : id[2] < nextSeq'
  BY <1>1, <1>2, SMT DEF TypeOK, Id
<1>6. OnlyOwnIdCancels'
  <2> SUFFICES ASSUME pc' # "gone", NEW s \in 0 .. nextSeq' - 1
               PROVE  \/ \E x \in DOMAIN heap' : heap'[x].sequence = s
                      \/ \E id \in dead' : id[2] = s
    BY DEF OnlyOwnIdCancels
  <2>1. s = nextSeq \/ s \in 0 .. nextSeq - 1
    BY <1>1, <1>2, SMT
  <2>2. CASE s = nextSeq
    BY <1>1, <2>2
  <2>3. CASE s \in 0 .. nextSeq - 1
    BY <1>1, <2>3 DEF OnlyOwnIdCancels
  <2> QED
    BY <2>1, <2>2, <2>3
<1> QED
  BY <1>2, <1>4, <1>5, <1>6

\* A timer that is in neither set is inserted into both: a new one, one whose
\* functor runs, or one of the batch that reset() has restarted.
LEMMA Insert ==
  ASSUME OwnerInv, NEW a,
         DOMAIN heap' = DOMAIN heap \cup {a},
         \A x \in DOMAIN heap : x # a => heap'[x] = heap[x],
         \A e \in timers_ : e[2] # a,
         \A e : e \in expired' <=> e \in expired /\ e[2] # a,
         Queued' = Queued \ {a},
         timers_' = timers_ \cup {<<heap'[a].expiration, a>>},
         activeTimers_' = activeTimers_ \cup {<<a, heap'[a].sequence>>}
  PROVE  OwnerInv'
<1> USE DEF Entry, ActiveTimer
<1>1. \A e \in timers_' \cup expired' : e[2] \in DOMAIN heap' /\ e = Entry(e[2])'
  BY SMT DEF OwnerInv
<1>2. \A e \in timers_' : ActiveTimer(e[2])' \in activeTimers_'
  BY SMT DEF OwnerInv
<1>3. \A p \in activeTimers_' :
        p[1] \in DOMAIN heap' /\ p = ActiveTimer(p[1])' /\ Entry(p[1])' \in timers_'
  <2> TAKE p \in activeTimers_'
  <2>1. CASE p \in activeTimers_
    <3>1. p[1] \in DOMAIN heap /\ p = ActiveTimer(p[1]) /\ Entry(p[1]) \in timers_
      BY <2>1 DEF OwnerInv
    <3>2. p[1] # a
      BY <3>1
    <3> QED
      BY <3>1, <3>2
  <2>2. CASE p = <<a, heap'[a].sequence>>
    BY <2>2
  <2> QED
    BY <2>1, <2>2
<1>4. timers_' \cap expired' = {}
  BY SMT DEF OwnerInv
<1>5. \A x \in Queued' : x \in DOMAIN heap' /\ Entry(x)' \notin timers_' \cup expired'
  BY ZenonT(60) DEF OwnerInv
<1>6. \A x \in DOMAIN heap' : Entry(x)' \in timers_' \cup expired' \/ x \in Queued'
  BY DEF OwnerInv
<1> QED
  BY <1>1, <1>2, <1>3, <1>4, <1>5, <1>6 DEF OwnerInv

\* A timer is deleted from wherever it was, except a functor.
LEMMA Remove ==
  ASSUME OwnerInv, NEW a, a \notin Queued,
         heap' = Freed(a),
         \A e : e \in timers_' <=> e \in timers_ /\ e[2] # a,
         \A e : e \in expired' <=> e \in expired /\ e[2] # a,
         \A p : p \in activeTimers_' <=> p \in activeTimers_ /\ p[1] # a,
         Queued' = Queued
  PROVE  OwnerInv'
<1> USE DEF Entry, ActiveTimer
<1>0. DOMAIN heap' = DOMAIN heap \ {a} /\ \A x \in DOMAIN heap' : heap'[x] = heap[x]
  BY DEF Freed
<1>1. \A e \in timers_' \cup expired' : e[2] \in DOMAIN heap' /\ e = Entry(e[2])'
  BY <1>0, SMT DEF OwnerInv
<1>2. \A e \in timers_' : ActiveTimer(e[2])' \in activeTimers_'
  BY <1>0, <1>1 DEF OwnerInv
<1>3. \A p \in activeTimers_' :
        p[1] \in DOMAIN heap' /\ p = ActiveTimer(p[1])' /\ Entry(p[1])' \in timers_'
  BY <1>0 DEF OwnerInv
<1>4. timers_' \cap expired' = {}
  BY DEF OwnerInv
<1>5. \A x \in Queued' : x \in DOMAIN heap' /\ Entry(x)' \notin timers_' \cup expired'
  BY <1>0, ZenonT(60) DEF OwnerInv
<1>6. \A x \in DOMAIN heap' : Entry(x)' \in timers_' \cup expired' \/ x \in Queued'
  BY <1>0 DEF OwnerInv
<1> QED
  BY <1>1, <1>2, <1>3, <1>4, <1>5, <1>6 DEF OwnerInv

-----------------------------------------------------------------------------
\* An empty queue.
LEMMA InitHolds == Init => IInv
<1> SUFFICES ASSUME Init PROVE IInv
  OBVIOUS
<1>1. Adds = {} /\ Queued = {}
  BY SMT DEF Init, Adds, Queued
<1>2. TypeOK
  BY TimerAssumption, SMT DEF Init, TypeOK
<1>3. OwnerInv /\ QueueInv /\ BatchInv /\ DeadInv /\ OnlyOwnIdCancels
  BY <1>1, SMT DEF Init, OwnerInv, QueueInv, BatchInv, DeadInv, DeadStaysDead, OnlyOwnIdCancels
<1> QED
  BY <1>2, <1>3 DEF IInv

\* addTimer() in the loop: the new timer goes into both sets at once, with a
\* sequence number no TimerId has had.
LEMMA LoopAddKeeps ==
  ASSUME IInv, NEW a \in Addrs, NEW r \in Requests, LoopAddTimer(a, r)
  PROVE  IInv'
<1>0. TypeOK /\ OwnerInv /\ QueueInv /\ BatchInv /\ DeadInv /\ OnlyOwnIdCancels
  BY DEF IInv
<1>1. /\ a \notin DOMAIN heap /\ DOMAIN heap' = DOMAIN heap \cup {a}
      /\ \A x \in DOMAIN heap : heap'[x] = heap[x]
      /\ heap'[a] = Timer(r[1], r[2], r[3]) /\ heap'[a] \in TimerObject
      /\ heap'[a].sequence = nextSeq /\ nextSeq' = nextSeq + 1
  BY <1>0, CreateIs DEF LoopAddTimer
<1>2. /\ timers_' = timers_ \cup {<<heap'[a].expiration, a>>}
      /\ activeTimers_' = activeTimers_ \cup {<<a, heap'[a].sequence>>}
  BY <1>1 DEF LoopAddTimer, AddTimerInLoop
<1>3. /\ UNCHANGED <<clock, offset, pc, batchNow, expired, uncalled, cancelingTimers_>>
      /\ UNCHANGED <<callingExpiredTimers_, pending, tpc, dead>>
      /\ issued' = issued \cup {<<a, nextSeq>>}
  BY DEF LoopAddTimer, batchVars
<1>4. Queued' = Queued /\ QueueInv'
  BY <1>0, <1>3 DEF Queued, Adds, QueueInv
<1>5. /\ \A e \in timers_ \cup expired : e[2] # a
      /\ a \notin Queued
  BY <1>0, <1>1 DEF OwnerInv
<1>6. OwnerInv'
  BY <1>0, <1>1, <1>2, <1>3, <1>4, <1>5, Insert
<1>7. /\ nextSeq' \in Nat /\ DOMAIN heap' \subseteq Addrs
      /\ \A x \in DOMAIN heap' : heap'[x] \in TimerObject /\ heap'[x].sequence < nextSeq'
      /\ dead' \subseteq Id /\ \A id \in dead' : id[2] < nextSeq'
      /\ OnlyOwnIdCancels'
  BY <1>0, <1>3, Numbered DEF LoopAddTimer
<1>8. issued' \subseteq Id
  BY <1>0, <1>3, SMT DEF TypeOK, Id
<1>9. TypeOK'
  BY <1>0, <1>3, <1>7, <1>8 DEF TypeOK
<1>10. BatchInv'
  BY <1>0, <1>3 DEF BatchInv
<1>11. <<a, nextSeq>> \notin dead
  BY <1>0, SMT DEF TypeOK
<1>12. DeadInv'
  <2>1. DeadStaysDead'
    BY <1>0, <1>1, <1>2, <1>3, <1>11 DEF DeadInv, DeadStaysDead
  <2>2. \A e \in expired : e[2] \in DOMAIN heap /\ heap'[e[2]] = heap[e[2]]
    BY <1>0, <1>1 DEF OwnerInv
  <2>3. \A x \in Queued : heap'[x] = heap[x]
    BY <1>0, <1>1 DEF OwnerInv
  <2> QED
    BY <1>0, <1>3, <1>4, <2>1, <2>2, <2>3 DEF DeadInv, ActiveTimer
<1> QED
  BY <1>4, <1>6, <1>9, <1>10, <1>12, <1>7 DEF IInv

\* addTimer() in another thread: the new timer belongs to the functor.
LEMMA AddKeeps ==
  ASSUME IInv, NEW t \in Threads, NEW a \in Addrs, NEW r \in Requests, AddTimer(t, a, r)
  PROVE  IInv'
<1>0. TypeOK /\ OwnerInv /\ QueueInv /\ BatchInv /\ DeadInv /\ OnlyOwnIdCancels
  BY DEF IInv
<1>1. /\ a \notin DOMAIN heap /\ DOMAIN heap' = DOMAIN heap \cup {a}
      /\ \A x \in DOMAIN heap : heap'[x] = heap[x]
      /\ heap'[a] \in TimerObject
      /\ heap'[a].sequence = nextSeq /\ nextSeq' = nextSeq + 1
  BY <1>0, CreateIs, ZenonT(60) DEF AddTimer
<1>2. /\ UNCHANGED <<clock, offset, pc, batchNow, expired, uncalled, cancelingTimers_>>
      /\ UNCHANGED <<callingExpiredTimers_, timers_, activeTimers_, dead, issued>>
      /\ pending' = Append(pending, [op |-> "add", id |-> <<a, nextSeq>>])
      /\ tpc' = [tpc EXCEPT ![t] = [addr |-> a, sequence |-> nextSeq]]
  BY DEF AddTimer, batchVars, setVars, ghostVars
<1>3. nextSeq \in Nat /\ a \notin Queued
  BY <1>0, <1>1 DEF OwnerInv, TypeOK
<1>4. Queued' = Queued \cup {a} /\ QueueInv'
  BY <1>0, <1>2, <1>3, PushAdd
<1>5. /\ \A e \in timers_ \cup expired : e[2] \in DOMAIN heap /\ heap'[e[2]] = heap[e[2]]
      /\ \A p \in activeTimers_ : p[1] \in DOMAIN heap /\ heap'[p[1]] = heap[p[1]]
      /\ \A x \in Queued : x \in DOMAIN heap /\ heap'[x] = heap[x]
  BY <1>0, <1>1 DEF OwnerInv
<1>6. OwnerInv'
  <2> USE DEF Entry, ActiveTimer
  <2>1. \A e \in timers_' \cup expired' : e[2] \in DOMAIN heap' /\ e = Entry(e[2])'
    BY <1>0, <1>1, <1>2, <1>5 DEF OwnerInv
  <2>2. \A e \in timers_' : ActiveTimer(e[2])' \in activeTimers_'
    BY <1>0, <1>2, <1>5 DEF OwnerInv
  <2>3. \A p \in activeTimers_' :
          p[1] \in DOMAIN heap' /\ p = ActiveTimer(p[1])' /\ Entry(p[1])' \in timers_'
    BY <1>0, <1>1, <1>2, <1>5 DEF OwnerInv
  <2>4. timers_' \cap expired' = {}
    BY <1>0, <1>2 DEF OwnerInv
  <2>5. \A x \in Queued' : x \in DOMAIN heap' /\ Entry(x)' \notin timers_' \cup expired'
    BY <1>0, <1>1, <1>2, <1>4, <1>5, SMT DEF OwnerInv
  <2>6. \A x \in DOMAIN heap' : Entry(x)' \in timers_' \cup expired' \/ x \in Queued'
    BY <1>0, <1>1, <1>2, <1>4 DEF OwnerInv
  <2> QED
    BY <2>1, <2>2, <2>3, <2>4, <2>5, <2>6 DEF OwnerInv
<1>7. /\ nextSeq' \in Nat /\ DOMAIN heap' \subseteq Addrs
      /\ \A x \in DOMAIN heap' : heap'[x] \in TimerObject /\ heap'[x].sequence < nextSeq'
      /\ dead' \subseteq Id /\ \A id \in dead' : id[2] < nextSeq'
      /\ OnlyOwnIdCancels'
  BY <1>0, <1>2, Numbered DEF AddTimer
<1>8. TypeOK'
  <2>1. [op |-> "add", id |-> <<a, nextSeq>>] \in Functor
    BY <1>3 DEF Functor, Id
  <2>2. pending' \in Seq(Functor)
    <3>1. pending \in Seq(Functor)
      BY <1>0 DEF TypeOK
    <3> QED
      BY <1>2, <2>1, <3>1, AppendProperties
  <2>3. tpc' \in [Threads -> {Idle} \cup [addr : Addrs, sequence : Nat]]
    BY <1>0, <1>2, <1>3 DEF TypeOK
  <2> QED
    BY <1>0, <1>2, <1>7, <2>2, <2>3 DEF TypeOK
<1>9. BatchInv'
  BY <1>0, <1>2 DEF BatchInv
<1>10. DeadInv'
  <2>1. <<a, nextSeq>> \notin dead
    <3>1. nextSeq \in Nat /\ \A id \in dead : id[2] < nextSeq
      BY <1>0 DEF TypeOK
    <3> QED
      BY <3>1, SMT
  <2>2. DeadStaysDead'
    BY <1>0, <1>2 DEF DeadInv, DeadStaysDead
  <2> QED
    BY <1>0, <1>1, <1>2, <1>4, <1>5, <2>1, <2>2 DEF DeadInv, ActiveTimer
<1> QED
  BY <1>4, <1>6, <1>8, <1>9, <1>10, <1>7 DEF IInv

\* The functor of addTimer() hands its timer to the sets.
LEMMA RunAddKeeps == ASSUME IInv, RunPendingAdd PROVE IInv'
<1> DEFINE a == Head(pending).id[1]
<1>0. TypeOK /\ OwnerInv /\ QueueInv /\ BatchInv /\ DeadInv /\ OnlyOwnIdCancels
  BY DEF IInv
<1>1. /\ UNCHANGED <<clock, offset, heap, nextSeq, pc, batchNow, expired, uncalled>>
      /\ UNCHANGED <<cancelingTimers_, callingExpiredTimers_, tpc, issued, dead>>
      /\ pending # <<>> /\ pending' = Tail(pending)
  BY DEF RunPendingAdd, batchVars, ghostVars
<1>2. /\ timers_' = timers_ \cup {<<heap[a].expiration, a>>}
      /\ activeTimers_' = activeTimers_ \cup {<<a, heap[a].sequence>>}
  BY DEF RunPendingAdd, AddTimerInLoop
<1>3. Head(pending).op = "add"
  BY DEF RunPendingAdd
<1>4. Queued' = Queued \ {a} /\ a \in Queued /\ QueueInv'
  BY <1>0, <1>1, <1>3, Pop
<1> HIDE DEF a
<1>5. /\ a \in DOMAIN heap /\ \A e \in timers_ \cup expired : e[2] # a
      /\ ActiveTimer(a) \notin dead
  BY <1>0, <1>4, SMT DEF OwnerInv, DeadInv
<1>6. OwnerInv'
  BY <1>0, <1>1, <1>2, <1>4, <1>5, Insert
<1>7. TypeOK'
  <2>1. pending' \in Seq(Functor)
    BY <1>0, <1>1, SMT DEF TypeOK
  <2> QED
    BY <1>0, <1>1, <2>1 DEF TypeOK
<1>8. BatchInv'
  BY <1>0, <1>1 DEF BatchInv
<1>9. DeadInv'
  <2>1. DeadStaysDead'
    BY <1>0, <1>1, <1>2, <1>5 DEF DeadInv, DeadStaysDead, ActiveTimer
  <2> QED
    BY <1>0, <1>1, <1>4, <2>1 DEF DeadInv, ActiveTimer
<1>10. OnlyOwnIdCancels'
  BY <1>0, <1>1 DEF OnlyOwnIdCancels
<1> QED
  BY <1>4, <1>6, <1>7, <1>8, <1>9, <1>10 DEF IInv

\* A call of cancelInLoop(), directly or from a functor.
CancelStep(id) ==
  /\ pc \in {"idle", "callback"}
  /\ CancelInLoop(id)
  /\ UNCHANGED <<clock, offset, nextSeq, pc, batchNow, expired, uncalled>>
  /\ UNCHANGED <<callingExpiredTimers_, tpc, issued>>
  /\ Queued' = Queued /\ QueueInv'
  /\ pending' \in Seq(Functor)

\* cancelInLoop() deletes a timer that is in the sets, marks one that is in the
\* batch, and does nothing to any other.
LEMMA CancelKeeps == ASSUME IInv, NEW id, CancelStep(id) PROVE IInv'
<1> USE DEF CancelStep
<1> DEFINE a == id[1]
<1>0. TypeOK /\ OwnerInv /\ QueueInv /\ BatchInv /\ DeadInv /\ OnlyOwnIdCancels
  BY DEF IInv
<1>1. BatchInv'
  BY <1>0 DEF BatchInv
<1>2. CASE id \in activeTimers_
  <2>1. /\ timers_' = timers_ \ {Entry(a)} /\ activeTimers_' = activeTimers_ \ {id}
        /\ heap' = Freed(a) /\ UNCHANGED cancelingTimers_ /\ dead' = dead \cup {id}
    BY <1>2 DEF CancelInLoop, Found, Erased, Stopped
  <2>2. a \in DOMAIN heap /\ id = ActiveTimer(a) /\ Entry(a) \in timers_
    BY <1>0, <1>2 DEF OwnerInv
  <2> HIDE DEF a
  <2>3. a \notin Queued
    BY <1>0, <2>2 DEF OwnerInv
  <2>4. \A e \in expired : e[2] # a
    BY <1>0, <2>2 DEF OwnerInv
  <2>5. \A e : e \in timers_' <=> e \in timers_ /\ e[2] # a
    BY <1>0, <2>1, <2>2 DEF OwnerInv, Entry
  <2>6. \A p : p \in activeTimers_' <=> p \in activeTimers_ /\ p[1] # a
    BY <1>0, <2>1, <2>2, SMT DEF OwnerInv, ActiveTimer
  <2>7. \A e : e \in expired' <=> e \in expired /\ e[2] # a
    BY <2>4
  <2>8. OwnerInv'
    BY <1>0, <2>1, <2>3, <2>5, <2>6, <2>7, Remove
  <2>9. DOMAIN heap' = DOMAIN heap \ {a} /\ \A x \in DOMAIN heap' : heap'[x] = heap[x]
    BY <2>1 DEF Freed
  <2>10. id \in Id /\ id[2] < nextSeq /\ id[2] = heap[a].sequence
    BY <1>0, <2>2 DEF TypeOK, ActiveTimer, Id, TimerObject
  <2>11. TypeOK'
    <3>1. dead' \subseteq Id /\ \A x \in dead' : x[2] < nextSeq'
      BY <1>0, <2>1, <2>10 DEF TypeOK
    <3>2. /\ DOMAIN heap' \subseteq Addrs
          /\ \A x \in DOMAIN heap' : heap'[x] \in TimerObject /\ heap'[x].sequence < nextSeq'
      BY <1>0, <2>9 DEF TypeOK
    <3> QED
      BY <1>0, <3>1, <3>2 DEF TypeOK
  <2>12. DeadInv'
    <3>1. DeadStaysDead'
      BY <1>0, <2>1 DEF DeadInv, DeadStaysDead
    <3>2. \A e \in expired : e[2] \in DOMAIN heap' /\ ActiveTimer(e[2]) # id
      BY <1>0, <2>2, <2>4, <2>9 DEF OwnerInv, ActiveTimer
    <3>3. \A x \in Queued : x \in DOMAIN heap' /\ ActiveTimer(x) # id
      BY <1>0, <2>2, <2>3, <2>9 DEF OwnerInv, ActiveTimer
    <3>4. \A x \in DOMAIN heap' : ActiveTimer(x)' = ActiveTimer(x)
      BY <2>9 DEF ActiveTimer
    <3> QED
      BY <1>0, <2>1, <2>9, <3>1, <3>2, <3>3, <3>4, ZenonT(120) DEF DeadInv
  <2>13. OnlyOwnIdCancels'
    <3> SUFFICES ASSUME pc # "gone", NEW s \in 0 .. nextSeq - 1
                 PROVE  \/ \E x \in DOMAIN heap' : heap'[x].sequence = s
                        \/ \E d \in dead' : d[2] = s
      BY DEF OnlyOwnIdCancels
    <3>1. CASE \E x \in DOMAIN heap : heap[x].sequence = s
      BY <2>1, <2>9, <2>10, <3>1
    <3>2. CASE \E d \in dead : d[2] = s
      BY <2>1, <3>2
    <3> QED
      BY <1>0, <3>1, <3>2 DEF OnlyOwnIdCancels
  <2> QED
    BY <1>1, <2>8, <2>11, <2>12, <2>13 DEF IInv
<1>3. CASE id \notin activeTimers_
  <2>1. /\ UNCHANGED <<timers_, activeTimers_, heap>>
        /\ cancelingTimers_' = IF callingExpiredTimers_ THEN cancelingTimers_ \cup {id}
                               ELSE cancelingTimers_
        /\ dead' = dead \cup Stopped(id)
    BY <1>3 DEF CancelInLoop, Found, Running, setVars
  <2>2. /\ \A d \in Stopped(id) : d = id /\ \E e \in expired : d = ActiveTimer(e[2])
        /\ \A e \in expired : id = ActiveTimer(e[2]) => id \in Stopped(id)
    BY <1>3 DEF Stopped
  <2>3. expired # {} => id \in cancelingTimers_'
    BY <1>0, <2>1 DEF BatchInv
  <2>4. OwnerInv'
    BY <1>0, <2>1 DEF OwnerInv, Entry, ActiveTimer
  <2>5. \A d \in Stopped(id) : d \in Id /\ d[2] < nextSeq
    <3> SUFFICES ASSUME NEW e \in expired
                 PROVE  ActiveTimer(e[2]) \in Id /\ ActiveTimer(e[2])[2] < nextSeq
      BY <2>2
    <3>1. e[2] \in DOMAIN heap
      BY <1>0 DEF OwnerInv
    <3> QED
      BY <1>0, <3>1 DEF TypeOK, TimerObject, ActiveTimer, Id
  <2>6. TypeOK'
    <3>1. dead' \subseteq Id /\ \A x \in dead' : x[2] < nextSeq'
      BY <1>0, <2>1, <2>5 DEF TypeOK
    <3> QED
      BY <1>0, <2>1, <3>1 DEF TypeOK
  <2>7. DeadInv'
    <3>1. DeadStaysDead'
      BY <1>0, <1>3, <2>1, <2>2 DEF DeadInv, DeadStaysDead
    <3>2. \A x \in Queued : ActiveTimer(x) \notin Stopped(id)
      BY <1>0, <2>2 DEF OwnerInv, ActiveTimer
    <3>3. \A x \in Queued' : ActiveTimer(x)' \notin dead'
      BY <1>0, <2>1, <3>2 DEF DeadInv, ActiveTimer
    <3>4. ASSUME NEW e \in expired'
          PROVE  LET d == ActiveTimer(e[2])' IN
                 /\ d \in dead' => ~heap'[e[2]].repeat \/ d \in cancelingTimers_'
                 /\ d \in cancelingTimers_' => d \in dead'
                 /\ ~heap'[e[2]].repeat /\ e \notin uncalled' => d \in dead'
      <4> DEFINE d == ActiveTimer(e[2])
      <4>1. /\ d \in dead => ~heap[e[2]].repeat \/ d \in cancelingTimers_
            /\ d \in cancelingTimers_ => d \in dead
            /\ ~heap[e[2]].repeat /\ e \notin uncalled => d \in dead
        BY <1>0 DEF DeadInv
      <4>2. d = id => d \in dead' /\ d \in cancelingTimers_'
        BY <2>1, <2>2, <2>3
      <4>3. d # id => (d \in dead' <=> d \in dead)
                      /\ (d \in cancelingTimers_' <=> d \in cancelingTimers_)
        BY <2>1, <2>2
      <4>4. ActiveTimer(e[2])' = d
        BY <2>1 DEF ActiveTimer
      <4> HIDE DEF d
      <4> QED
        BY <2>1, <4>1, <4>2, <4>3, <4>4
    <3> QED
      BY <3>1, <3>3, <3>4 DEF DeadInv
  <2>8. OnlyOwnIdCancels'
    BY <1>0, <2>1 DEF OnlyOwnIdCancels
  <2> QED
    BY <1>1, <2>4, <2>6, <2>7, <2>8 DEF IInv
<1> QED
  BY <1>2, <1>3

\* getExpired() moves the due timers from both sets to the batch.
LEMMA ReadKeeps == ASSUME IInv, HandleRead PROVE IInv'
<1> DEFINE D == Due(Wall)
<1>0. TypeOK /\ OwnerInv /\ QueueInv /\ BatchInv /\ DeadInv /\ OnlyOwnIdCancels
  BY DEF IInv
<1>1. /\ UNCHANGED <<clock, offset, heap, nextSeq, pending, tpc, issued, dead>>
      /\ pc = "idle" /\ pc' = "batch" /\ batchNow' = Wall
      /\ expired' = D /\ uncalled' = D /\ timers_' = timers_ \ D
      /\ callingExpiredTimers_' = TRUE /\ cancelingTimers_' = {}
      /\ activeTimers_' = activeTimers_ \ {ActiveTimer(e[2]) : e \in D}
  BY DEF HandleRead, ghostVars, ActiveLeft
<1>2. D \subseteq timers_ /\ expired = {}
  BY <1>0, <1>1 DEF Due, BatchInv
<1> HIDE DEF D
<1>3. Queued' = Queued /\ QueueInv'
  BY <1>0, <1>1 DEF Queued, Adds, QueueInv
<1>4. OwnerInv'
  <2> USE DEF Entry, ActiveTimer
  <2>1. \A e \in timers_' \cup expired' : e[2] \in DOMAIN heap' /\ e = Entry(e[2])'
    BY <1>0, <1>1, <1>2 DEF OwnerInv
  <2>2. \A e \in timers_' : ActiveTimer(e[2])' \in activeTimers_'
    <3> SUFFICES ASSUME NEW e \in timers_ \ D, NEW d \in D, ActiveTimer(e[2]) = ActiveTimer(d[2])
                 PROVE  FALSE
      BY <1>0, <1>1, SMT DEF OwnerInv
    <3>1. e = Entry(e[2]) /\ d = Entry(d[2]) /\ e[2] = d[2]
      BY <1>0, <1>2 DEF OwnerInv
    <3> QED
      BY <3>1
  <2>3. \A p \in activeTimers_' :
          p[1] \in DOMAIN heap' /\ p = ActiveTimer(p[1])' /\ Entry(p[1])' \in timers_'
    <3> SUFFICES ASSUME NEW p \in activeTimers_', Entry(p[1]) \in D
                 PROVE  FALSE
      BY <1>0, <1>1 DEF OwnerInv
    <3>1. p = ActiveTimer(p[1]) /\ Entry(p[1])[2] = p[1]
      BY <1>0, <1>1 DEF OwnerInv
    <3>2. p \in {ActiveTimer(e[2]) : e \in D}
      BY <3>1
    <3> QED
      BY <1>1, <3>2
  <2>4. timers_' \cap expired' = {}
    BY <1>1
  <2>5. \A x \in Queued' : x \in DOMAIN heap' /\ Entry(x)' \notin timers_' \cup expired'
    BY <1>0, <1>1, <1>2, <1>3 DEF OwnerInv
  <2>6. \A x \in DOMAIN heap' : Entry(x)' \in timers_' \cup expired' \/ x \in Queued'
    BY <1>0, <1>1, <1>2, <1>3 DEF OwnerInv
  <2> QED
    BY <2>1, <2>2, <2>3, <2>4, <2>5, <2>6 DEF OwnerInv
<1>5. TypeOK'
  BY <1>0, <1>1, SMT DEF TypeOK, Wall
<1>6. BatchInv'
  BY <1>1 DEF BatchInv
<1>7. DeadInv'
  <2>1. DeadStaysDead'
    BY <1>0, <1>1 DEF DeadInv, DeadStaysDead
  <2>2. \A e \in D : ActiveTimer(e[2]) \notin dead
    BY <1>0, <1>2 DEF OwnerInv, DeadInv, DeadStaysDead
  <2> QED
    BY <1>0, <1>1, <1>3, <2>1, <2>2 DEF DeadInv, ActiveTimer
<1>8. OnlyOwnIdCancels'
  BY <1>0, <1>1 DEF OnlyOwnIdCancels
<1> QED
  BY <1>3, <1>4, <1>5, <1>6, <1>7, <1>8 DEF IInv

\* A one-shot timer is dead once its callback has been called.
LEMMA CallbackKeeps == ASSUME IInv, RunCallback PROVE IInv'
<1>0. TypeOK /\ OwnerInv /\ QueueInv /\ BatchInv /\ DeadInv /\ OnlyOwnIdCancels
  BY DEF IInv
<1>1. PICK e \in uncalled :
        /\ uncalled' = uncalled \ {e}
        /\ dead' = IF heap[e[2]].repeat THEN dead ELSE dead \cup {ActiveTimer(e[2])}
  BY ZenonT(60) DEF RunCallback
<1>2. /\ UNCHANGED <<clock, offset, heap, nextSeq, timers_, activeTimers_, batchNow, expired>>
      /\ UNCHANGED <<cancelingTimers_, callingExpiredTimers_, pending, tpc, issued>>
      /\ pc = "batch" /\ pc' = "callback"
  BY DEF RunCallback, setVars
<1>3. Queued' = Queued /\ QueueInv'
  BY <1>0, <1>2 DEF Queued, Adds, QueueInv
<1>4. e \in expired /\ e[2] \in DOMAIN heap /\ e = Entry(e[2])
  BY <1>0, <1>1 DEF BatchInv, OwnerInv
<1>5. OwnerInv'
  BY <1>0, <1>2, <1>3 DEF OwnerInv, Entry, ActiveTimer
<1>6. TypeOK'
  <2>1. ActiveTimer(e[2]) \in Id /\ ActiveTimer(e[2])[2] < nextSeq
    BY <1>0, <1>4 DEF TypeOK, TimerObject, ActiveTimer, Id
  <2>2. dead' \subseteq Id /\ \A x \in dead' : x[2] < nextSeq'
    BY <1>0, <1>1, <1>2, <2>1 DEF TypeOK
  <2> QED
    BY <1>0, <1>2, <2>2 DEF TypeOK
<1>7. BatchInv'
  <2>1. callingExpiredTimers_
    BY <1>0, <1>2 DEF BatchInv
  <2> QED
    BY <1>0, <1>1, <1>2, <2>1 DEF BatchInv
<1>8. DeadInv'
  <2>1. ActiveTimer(e[2]) \notin activeTimers_
    BY <1>0, <1>4 DEF OwnerInv, ActiveTimer
  <2>2. DeadStaysDead'
    BY <1>0, <1>1, <1>2, <2>1 DEF DeadInv, DeadStaysDead
  <2>3. \A x \in Queued : ActiveTimer(x) # ActiveTimer(e[2])
    BY <1>0, <1>4 DEF OwnerInv, ActiveTimer
  <2>4. \A x \in Queued' : ActiveTimer(x)' \notin dead'
    BY <1>0, <1>1, <1>2, <1>3, <2>3 DEF DeadInv, ActiveTimer
  <2>5. ASSUME NEW f \in expired'
        PROVE  LET d == ActiveTimer(f[2])' IN
               /\ d \in dead' => ~heap'[f[2]].repeat \/ d \in cancelingTimers_'
               /\ d \in cancelingTimers_' => d \in dead'
               /\ ~heap'[f[2]].repeat /\ f \notin uncalled' => d \in dead'
    <3> DEFINE d == ActiveTimer(f[2])
    <3>1. /\ d \in dead => ~heap[f[2]].repeat \/ d \in cancelingTimers_
          /\ d \in cancelingTimers_ => d \in dead
          /\ ~heap[f[2]].repeat /\ f \notin uncalled => d \in dead
      BY <1>0, <1>2 DEF DeadInv
    <3>2. ActiveTimer(f[2])' = d
      BY <1>2 DEF ActiveTimer
    <3>3. d = ActiveTimer(e[2]) => f = e
      BY <1>0, <1>2, <1>4 DEF OwnerInv, ActiveTimer
    <3>4. f = e => d = ActiveTimer(e[2])
      OBVIOUS
    <3> HIDE DEF d
    <3> QED
      BY <1>1, <1>2, <3>1, <3>2, <3>3, <3>4
  <2> QED
    BY <2>2, <2>4, <2>5 DEF DeadInv
<1>9. OnlyOwnIdCancels'
  BY <1>0, <1>1, <1>2 DEF OnlyOwnIdCancels
<1> QED
  BY <1>3, <1>5, <1>6, <1>7, <1>8, <1>9 DEF IInv

\* reset() re-inserts a repeating timer that was not cancelled and deletes any
\* other, which is dead by then.
LEMMA ResetKeeps == ASSUME IInv, ResetTimer PROVE IInv'
<1>0. TypeOK /\ OwnerInv /\ QueueInv /\ BatchInv /\ DeadInv /\ OnlyOwnIdCancels
  BY DEF IInv
<1>1. PICK e \in expired : Reset(e)
  BY DEF ResetTimer
<1>2. /\ UNCHANGED <<clock, offset, nextSeq, pc, batchNow, uncalled, cancelingTimers_>>
      /\ UNCHANGED <<callingExpiredTimers_, pending, tpc, issued, dead>>
      /\ pc = "reset"
  BY DEF ResetTimer
<1>3. Queued' = Queued /\ QueueInv'
  BY <1>0, <1>2 DEF Queued, Adds, QueueInv
<1> DEFINE a == e[2]
<1>4. a \in DOMAIN heap /\ e = Entry(a) /\ expired' = expired \ {e} /\ uncalled = {}
  BY <1>0, <1>1, <1>2 DEF OwnerInv, BatchInv, Reset
<1>5. CASE heap[a].repeat /\ ActiveTimer(a) \notin cancelingTimers_
  <2>1. /\ heap' = [heap EXCEPT ![a] = Restarted(heap[a])]
        /\ timers_' = timers_ \cup {<<Restarted(heap[a]).expiration, a>>}
        /\ activeTimers_' = activeTimers_ \cup {ActiveTimer(a)}
    BY <1>1, <1>5 DEF Reset
  <2> HIDE DEF a
  <2>2. /\ Restarted(heap[a]) \in TimerObject
        /\ Restarted(heap[a]).sequence = heap[a].sequence
    BY <1>0, <1>4, SMT DEF TypeOK, TimerObject, Restarted
  <2>3. DOMAIN heap' = DOMAIN heap /\ heap'[a] = Restarted(heap[a])
        /\ \A x \in DOMAIN heap : x # a => heap'[x] = heap[x]
    BY <1>4, <2>1
  <2>4. /\ timers_' = timers_ \cup {<<heap'[a].expiration, a>>}
        /\ activeTimers_' = activeTimers_ \cup {<<a, heap'[a].sequence>>}
    BY <2>1, <2>2, <2>3 DEF ActiveTimer
  <2>5. /\ \A x \in timers_ : x[2] # a
        /\ \A x : x \in expired' <=> x \in expired /\ x[2] # a
        /\ a \notin Queued
    BY <1>0, <1>4 DEF OwnerInv, Entry
  <2>6. DOMAIN heap' = DOMAIN heap \cup {a} /\ Queued' = Queued \ {a}
    BY <1>3, <1>4, <2>3, <2>5
  <2>7. OwnerInv'
    BY <1>0, <2>3, <2>4, <2>5, <2>6, Insert
  <2>8. \A x \in DOMAIN heap : heap'[x] \in TimerObject /\ heap'[x].sequence = heap[x].sequence
    BY <1>0, <2>2, <2>3 DEF TypeOK
  <2>9. TypeOK'
    <3>1. /\ DOMAIN heap' \subseteq Addrs
          /\ \A x \in DOMAIN heap' : heap'[x] \in TimerObject /\ heap'[x].sequence < nextSeq'
      BY <1>0, <1>2, <2>3, <2>8 DEF TypeOK
    <3> QED
      BY <1>0, <1>2, <3>1 DEF TypeOK
  <2>10. DeadInv'
    <3>1. ActiveTimer(a) \notin dead
      BY <1>0, <1>4, <1>5 DEF DeadInv, a
    <3>2. DeadStaysDead'
      BY <1>0, <1>2, <2>1, <3>1 DEF DeadInv, DeadStaysDead
    <3>3. \A x \in expired' : x \in expired /\ heap'[x[2]] = heap[x[2]]
      BY <1>0, <2>3, <2>5 DEF OwnerInv
    <3>4. \A x \in Queued : heap'[x] = heap[x]
      BY <1>0, <2>3, <2>5 DEF OwnerInv
    <3> QED
      BY <1>0, <1>2, <1>3, <3>2, <3>3, <3>4 DEF DeadInv, ActiveTimer
  <2>11. OnlyOwnIdCancels'
    BY <1>0, <1>2, <2>3, <2>8 DEF OnlyOwnIdCancels
  <2> QED
    BY <1>0, <1>2, <1>3, <1>4, <2>7, <2>9, <2>10, <2>11 DEF IInv, BatchInv
<1>6. CASE ~(heap[a].repeat /\ ActiveTimer(a) \notin cancelingTimers_)
  <2>1. heap' = Freed(a) /\ UNCHANGED <<timers_, activeTimers_>>
    BY <1>1, <1>6 DEF Reset, setVars
  <2>2. ActiveTimer(a) \in dead
    BY <1>0, <1>4, <1>6 DEF DeadInv
  <2> HIDE DEF a
  <2>3. /\ \A x \in timers_ : x[2] # a
        /\ \A x : x \in expired' <=> x \in expired /\ x[2] # a
        /\ \A p \in activeTimers_ : p[1] # a
        /\ a \notin Queued
    BY <1>0, <1>4 DEF OwnerInv, Entry
  <2>4. OwnerInv'
    BY <1>0, <1>3, <2>1, <2>3, Remove
  <2>5. DOMAIN heap' = DOMAIN heap \ {a} /\ \A x \in DOMAIN heap' : heap'[x] = heap[x]
    BY <2>1 DEF Freed
  <2>6. TypeOK'
    <3>1. /\ DOMAIN heap' \subseteq Addrs
          /\ \A x \in DOMAIN heap' : heap'[x] \in TimerObject /\ heap'[x].sequence < nextSeq'
      BY <1>0, <1>2, <2>5 DEF TypeOK
    <3> QED
      BY <1>0, <1>2, <3>1 DEF TypeOK
  <2>7. DeadInv'
    <3>1. DeadStaysDead'
      BY <1>0, <1>2, <2>1 DEF DeadInv, DeadStaysDead
    <3>2. \A x \in expired' : x \in expired /\ heap'[x[2]] = heap[x[2]]
      BY <1>0, <2>3, <2>5 DEF OwnerInv
    <3>3. \A x \in Queued : heap'[x] = heap[x]
      BY <1>0, <2>3, <2>5 DEF OwnerInv
    <3> QED
      BY <1>0, <1>2, <1>3, <3>1, <3>2, <3>3 DEF DeadInv, ActiveTimer
  <2>8. OnlyOwnIdCancels'
    <3> SUFFICES ASSUME pc # "gone", NEW s \in 0 .. nextSeq - 1
                 PROVE  \/ \E x \in DOMAIN heap' : heap'[x].sequence = s
                        \/ \E d \in dead' : d[2] = s
      BY <1>2 DEF OnlyOwnIdCancels
    <3>1. CASE \E x \in DOMAIN heap : heap[x].sequence = s
      BY <1>2, <2>2, <2>5, <3>1 DEF ActiveTimer
    <3>2. CASE \E d \in dead : d[2] = s
      BY <1>2, <3>2
    <3> QED
      BY <1>0, <3>1, <3>2 DEF OnlyOwnIdCancels
  <2> QED
    BY <1>0, <1>2, <1>3, <1>4, <2>4, <2>6, <2>7, <2>8 DEF IInv, BatchInv
<1> QED
  BY <1>5, <1>6

\* ~TimerQueue() deletes what is in the sets and leaves the queued timers.
LEMMA DestroyKeeps == ASSUME IInv, Destroy PROVE IInv'
<1>0. TypeOK /\ OwnerInv /\ QueueInv /\ BatchInv /\ DeadInv
  BY DEF IInv
<1>1. /\ UNCHANGED <<clock, offset, nextSeq, batchNow, expired, uncalled, cancelingTimers_>>
      /\ UNCHANGED <<callingExpiredTimers_, pending, tpc, issued, dead>>
      /\ pc = "idle" /\ pc' = "gone" /\ timers_' = {} /\ activeTimers_' = {}
      /\ heap' = [a \in DOMAIN heap \ {e[2] : e \in timers_} |-> heap[a]]
  BY DEF Destroy, ghostVars
<1>2. Queued' = Queued /\ QueueInv'
  BY <1>0, <1>1 DEF Queued, Adds, QueueInv
<1>3. expired = {} /\ uncalled = {} /\ callingExpiredTimers_ = FALSE
  BY <1>0, <1>1, SMT DEF BatchInv
<1>4. /\ DOMAIN heap' = {a \in DOMAIN heap : \A e \in timers_ : e[2] # a}
      /\ \A x \in DOMAIN heap' : heap'[x] = heap[x]
  BY <1>1
<1>5. DOMAIN heap' = Queued
  <2>1. \A a \in DOMAIN heap : (\E e \in timers_ : e[2] = a) <=> Entry(a) \in timers_
    BY <1>0 DEF OwnerInv, Entry
  <2>2. \A a \in DOMAIN heap : Entry(a) \notin timers_ <=> a \in Queued
    BY <1>0, <1>3 DEF OwnerInv
  <2>3. Queued \subseteq DOMAIN heap
    BY <1>0 DEF OwnerInv
  <2> QED
    BY <1>4, <2>1, <2>2, <2>3, SMT
<1>6. OwnerInv'
  BY <1>1, <1>2, <1>3, <1>5 DEF OwnerInv
<1>7. TypeOK'
  <2>1. /\ DOMAIN heap' \subseteq Addrs
        /\ \A x \in DOMAIN heap' : heap'[x] \in TimerObject /\ heap'[x].sequence < nextSeq'
    BY <1>0, <1>1, <1>4 DEF TypeOK
  <2> QED
    BY <1>0, <1>1, <2>1 DEF TypeOK
<1>8. DeadInv'
  BY <1>0, <1>1, <1>2, <1>3, <1>4, <1>5 DEF DeadInv, DeadStaysDead, ActiveTimer
<1>9. BatchInv' /\ OnlyOwnIdCancels'
  BY <1>1, <1>3 DEF BatchInv, OnlyOwnIdCancels
<1> QED
  BY <1>2, <1>6, <1>7, <1>8, <1>9 DEF IInv

\* The steps that change neither the timers nor where they are.
LEMMA RestKeeps ==
  ASSUME IInv,
         \/ Poll \/ CallbackReturn \/ EndBatch \/ ResetEnd \/ Tick \/ StepWallClock
         \/ \E t \in Threads : AddTimerReturn(t)
         \/ \E t \in Threads, id \in issued : Cancel(t, id)
         \/ UNCHANGED vars
  PROVE  IInv'
<1> USE DEF vars, batchVars, setVars, ghostVars
<1>0. TypeOK /\ OwnerInv /\ QueueInv /\ BatchInv /\ DeadInv /\ OnlyOwnIdCancels
  BY DEF IInv
<1>1. /\ UNCHANGED <<heap, nextSeq, timers_, activeTimers_, batchNow, expired, uncalled>>
      /\ UNCHANGED <<cancelingTimers_, dead>>
  BY DEF Poll, CallbackReturn, EndBatch, ResetEnd, Tick, StepWallClock, AddTimerReturn, Cancel
<1>2. Queued' = Queued /\ QueueInv' /\ pending' \in Seq(Functor)
  <2>1. CASE \E t \in Threads, id \in issued : Cancel(t, id)
    <3>1. PICK id \in issued : pending' = Append(pending, [op |-> "cancel", id |-> id])
      BY <2>1 DEF Cancel
    <3>2. id \in Id /\ pending \in Seq(Functor)
      BY <1>0 DEF TypeOK
    <3>3. Queued' = Queued /\ QueueInv'
      BY <1>0, <3>1, <3>2, PushCancel
    <3>4. [op |-> "cancel", id |-> id] \in Functor
      BY <3>2 DEF Functor
    <3> QED
      BY <3>1, <3>2, <3>3, <3>4, SMT
  <2>2. CASE UNCHANGED pending
    BY <1>0, <2>2, SameQueue
  <2> QED
    BY <2>1, <2>2 DEF Poll, CallbackReturn, EndBatch, ResetEnd, Tick, StepWallClock, AddTimerReturn
<1>3. clock' \in Nat /\ offset' \in Nat
  <2>0. clock \in Nat /\ offset \in Nat
    BY <1>0 DEF TypeOK
  <2>1. CASE Tick
    BY <2>0, <2>1, SMT DEF Tick
  <2>2. CASE StepWallClock
    BY <2>0, <2>2, TimerAssumption DEF StepWallClock
  <2>3. CASE UNCHANGED <<clock, offset>>
    BY <2>0, <2>3
  <2> QED
    BY <2>1, <2>2, <2>3 DEF Poll, CallbackReturn, EndBatch, ResetEnd, AddTimerReturn, Cancel
<1>4. issued' \subseteq Id /\ tpc' \in [Threads -> {Idle} \cup [addr : Addrs, sequence : Nat]]
  <2>1. CASE \E t \in Threads : AddTimerReturn(t)
    <3>1. PICK t \in Threads : AddTimerReturn(t)
      BY <2>1
    <3>2. /\ issued \subseteq Id
          /\ tpc \in [Threads -> {Idle} \cup [addr : Addrs, sequence : Nat]]
          /\ \A a \in DOMAIN heap : heap[a].sequence \in Nat
      BY <1>0 DEF TypeOK, TimerObject
    <3>3. tpc[t].addr \in Addrs
      BY <3>1, <3>2 DEF AddTimerReturn
    <3>4. PICK s \in Nat : issued' = issued \cup {<<tpc[t].addr, s>>}
      <4>1. 0 .. MaxTimers - 1 \subseteq Nat
        BY TimerAssumption, SMT
      <4> QED
        BY <3>1, <3>2, <4>1 DEF AddTimerReturn
    <3>5. <<tpc[t].addr, s>> \in Id
      BY <3>3, <3>4 DEF Id
    <3>6. tpc' = [tpc EXCEPT ![t] = Idle]
      BY <3>1 DEF AddTimerReturn
    <3>7. tpc' \in [Threads -> {Idle} \cup [addr : Addrs, sequence : Nat]]
      BY <3>2, <3>6
    <3> QED
      BY <3>2, <3>4, <3>5, <3>7
  <2>2. CASE UNCHANGED <<issued, tpc>>
    BY <1>0, <2>2 DEF TypeOK
  <2> QED
    BY <2>1, <2>2 DEF Poll, CallbackReturn, EndBatch, ResetEnd, Tick, StepWallClock, Cancel
<1>5. /\ pc' \in {"idle", "batch", "callback", "reset", "gone"}
      /\ pc' = "gone" <=> pc = "gone"
      /\ BatchInv'
  <2>1. CASE CallbackReturn
    BY <1>0, <1>1, <2>1 DEF CallbackReturn, BatchInv
  <2>2. CASE EndBatch
    BY <1>0, <1>1, <2>2 DEF EndBatch, BatchInv
  <2>3. CASE ResetEnd
    BY <1>0, <1>1, <2>3 DEF ResetEnd, BatchInv
  <2>4. CASE UNCHANGED <<pc, callingExpiredTimers_>>
    <3>1. BatchInv'
      BY <1>0, <1>1, <2>4 DEF BatchInv
    <3> QED
      BY <1>0, <2>4, <3>1 DEF TypeOK
  <2> QED
    BY <2>1, <2>2, <2>3, <2>4, ZenonT(60) DEF Poll, Tick, StepWallClock, AddTimerReturn, Cancel
<1>6. TypeOK'
  BY <1>0, <1>1, <1>2, <1>3, <1>4, <1>5 DEF TypeOK
<1>7. OwnerInv'
  BY <1>0, <1>1, <1>2 DEF OwnerInv, Entry, ActiveTimer
<1>8. DeadInv'
  BY <1>0, <1>1, <1>2 DEF DeadInv, DeadStaysDead, ActiveTimer
<1>9. OnlyOwnIdCancels'
  BY <1>0, <1>1, <1>5 DEF OnlyOwnIdCancels
<1> QED
  BY <1>2, <1>5, <1>6, <1>7, <1>8, <1>9 DEF IInv

\* Every step keeps the invariant.
LEMMA NextKeeps == ASSUME IInv, [Next]_vars PROVE IInv'
<1>1. ASSUME NEW id \in issued, LoopCancel(id) PROVE IInv'
  <2>1. /\ pc \in {"idle", "callback"} /\ CancelInLoop(id) /\ UNCHANGED pending
        /\ UNCHANGED <<clock, offset, nextSeq, pc, batchNow, expired, uncalled>>
        /\ UNCHANGED <<callingExpiredTimers_, tpc, issued>>
    BY <1>1 DEF LoopCancel, InUserCode
  <2>2. Queued' = Queued /\ QueueInv' /\ pending' \in Seq(Functor)
    BY <2>1, SameQueue DEF IInv
  <2>3. CancelStep(id)
    BY <2>1, <2>2 DEF CancelStep
  <2> QED
    BY <2>3, CancelKeeps
<1>2. ASSUME RunPendingCancel PROVE IInv'
  <2>1. /\ pc \in {"idle", "callback"} /\ CancelInLoop(Head(pending).id)
        /\ pending # <<>> /\ Head(pending).op = "cancel" /\ pending' = Tail(pending)
        /\ UNCHANGED <<clock, offset, nextSeq, pc, batchNow, expired, uncalled>>
        /\ UNCHANGED <<callingExpiredTimers_, tpc, issued>>
    BY <1>2 DEF RunPendingCancel
  <2>2. TypeOK /\ QueueInv
    BY DEF IInv
  <2>3. Queued' = Queued /\ QueueInv'
    BY <2>1, <2>2, Pop
  <2>4. pending' \in Seq(Functor)
    <3>1. pending \in Seq(Functor)
      BY <2>2 DEF TypeOK
    <3> QED
      BY <2>1, <3>1, HeadTailProperties
  <2>5. PICK id : id = Head(pending).id
    OBVIOUS
  <2>6. CancelStep(id)
    BY <2>1, <2>3, <2>4, <2>5 DEF CancelStep
  <2> QED
    BY <2>6, CancelKeeps
<1> QED
  BY <1>1, <1>2, LoopAddKeeps, AddKeeps, RunAddKeeps, ReadKeeps, CallbackKeeps, ResetKeeps,
     DestroyKeeps, RestKeeps DEF Next, LoopStep, UserCall

-----------------------------------------------------------------------------
\* The inductive invariant holds in every behaviour.
THEOREM Invariance == Spec => []IInv
<1>1. IInv /\ [Next]_vars => IInv'
  BY NextKeeps
<1> QED
  BY InitHolds, <1>1, PTL DEF Spec

\* timers_ and activeTimers_ hold the same timers, all of them alive: the
\* assertions in cancelInLoop(), getExpired() and insert() cannot fail.
THEOREM TheSetsAgree == Spec => []SetsAgree
<1>1. IInv => SetsAgree
  <2> SUFFICES ASSUME IInv PROVE SetsAgree
    OBVIOUS
  <2>1. \A p \in activeTimers_ : \E e \in timers_ : p = ActiveTimer(e[2])
    <3> TAKE p \in activeTimers_
    <3>1. Entry(p[1]) \in timers_ /\ p = ActiveTimer(p[1]) /\ Entry(p[1])[2] = p[1]
      BY DEF IInv, OwnerInv, Entry
    <3> QED
      BY <3>1
  <2>2. \A e \in timers_ : ActiveTimer(e[2]) \in activeTimers_
    BY DEF IInv, OwnerInv
  <2>3. activeTimers_ = {ActiveTimer(e[2]) : e \in timers_}
    BY <2>1, <2>2
  <2> QED
    BY <2>3 DEF IInv, OwnerInv, SetsAgree
<1> QED
  BY Invariance, <1>1, PTL

\* Each Timer object is owned by one functor, the sets or the batch: it is
\* deleted once, and no callback runs on a deleted one.
THEOREM TimersHaveOneOwner == Spec => []OneOwner
<1>1. ASSUME IInv PROVE OneOwner
  <2> DEFINE inserted == {e[2] : e \in timers_}
             running == {e[2] : e \in expired}
  <2>0. OwnerInv
    BY <1>1 DEF IInv
  <2>1. \A x : x \in inserted <=> x \in DOMAIN heap /\ Entry(x) \in timers_
    <3>1. \A e \in timers_ : e[2] \in DOMAIN heap /\ e = Entry(e[2])
      BY <2>0 DEF OwnerInv
    <3> QED
      BY <3>1 DEF Entry
  <2>2. \A x : x \in running <=> x \in DOMAIN heap /\ Entry(x) \in expired
    <3>1. \A e \in expired : e[2] \in DOMAIN heap /\ e = Entry(e[2])
      BY <2>0 DEF OwnerInv
    <3> QED
      BY <3>1 DEF Entry
  <2> HIDE DEF inserted, running
  <2>3. /\ DOMAIN heap = Queued \cup inserted \cup running
        /\ Queued \cap inserted = {} /\ Queued \cap running = {} /\ inserted \cap running = {}
    BY <2>0, <2>1, <2>2 DEF OwnerInv
  <2> QED
    BY <1>1, <2>3 DEF OneOwner, IInv, QueueInv, Queued, Adds, inserted, running
<1> QED
  BY Invariance, <1>1, PTL

\* A timer that was cancelled, or a one-shot timer that has run, never waits
\* again.
THEOREM TheDeadStayDead == Spec => []DeadStaysDead
<1>1. IInv => DeadStaysDead
  BY DEF IInv, DeadInv
<1> QED
  BY Invariance, <1>1, PTL

\* A TimerId cancels its own timer only, whoever has taken over its address.
THEOREM IdsAreNotConfused == Spec => []OnlyOwnIdCancels
<1>1. IInv => OnlyOwnIdCancels
  BY DEF IInv
<1> QED
  BY Invariance, <1>1, PTL

-----------------------------------------------------------------------------
\* The smallest offset of the wall clock, and the latest moment, in the
\* monotonic clock and at that offset, to look at a timer for the time w.
Slowest == CHOOSE o \in Offsets : \A p \in Offsets : o <= p
Latest(w) == IF w <= clock + Slowest THEN clock + Slowest + 1 ELSE w

\* A timerfd that is armed fires later than now and early enough for every timer.
ArmedInv ==
  /\ deadline \in Nat /\ (deadline # 0 => deadline > clock) /\ offset \in Offsets
  /\ pc = "idle" /\ timers_ # {} /\ ~readable /\ ~activated
       => deadline # 0 /\ \A e \in timers_ : deadline + Slowest <= Latest(e[1])

\* A set of naturals that is not empty has a least element.
LEMMA LeastNat ==
  ASSUME NEW S, S \subseteq Nat, S # {}
  PROVE  \E m \in S : \A n \in S : m <= n
<1> DEFINE R == {ss \in Nat \X Nat : ss[1] < ss[2]}
<1>1. PICK m \in S : \A n \in S : <<n, m>> \notin R
  <2>1. IsWellFoundedOn(R, Nat)
    BY NatLessThanWellFounded DEF OpToRel
  <2> HIDE DEF R
  <2> QED
    BY <2>1, WFMin
<1>2. ASSUME NEW n \in S PROVE m <= n
  <2>1. ~(n < m)
    BY <1>1
  <2> QED
    BY <2>1, SMT
<1> QED
  BY <1>2

\* The offset the wall clock is slowest at.
LEMMA SlowestIs ==
  ASSUME NEW o \in Offsets
  PROVE  Slowest \in Offsets /\ Slowest \in Nat /\ Slowest <= o
<1>1. \E m \in Offsets : \A p \in Offsets : m <= p
  BY LeastNat, TimerAssumption
<1>2. Slowest \in Offsets /\ \A p \in Offsets : Slowest <= p
  BY <1>1 DEF Slowest
<1> QED
  BY <1>2, TimerAssumption

\* timers_.begin(): the order of std::set<Entry> has a first entry, and no timer
\* expires before it.
LEMMA FirstIs ==
  ASSUME NEW S, S # {}, S \subseteq Nat \X Nat
  PROVE  First(S) \in S /\ \A e \in S : First(S)[1] <= e[1]
<1>1. PICK w \in {e[1] : e \in S} : \A x \in {e[1] : e \in S} : w <= x
  <2>1. {e[1] : e \in S} \subseteq Nat /\ {e[1] : e \in S} # {}
    OBVIOUS
  <2> QED
    BY <2>1, LeastNat
<1> DEFINE T == {e \in S : e[1] = w}
<1>2. PICK a \in {e[2] : e \in T} : \A x \in {e[2] : e \in T} : a <= x
  <2>1. {e[2] : e \in T} \subseteq Nat /\ {e[2] : e \in T} # {}
    BY <1>1
  <2> HIDE DEF T
  <2> QED
    BY <2>1, LeastNat
<1>3. PICK f \in S : f[1] = w /\ f[2] = a
  BY <1>2
<1>4. IsFirst(f, S)
  <2> SUFFICES ASSUME NEW d \in S, d # f PROVE Before(f, d)
    BY DEF IsFirst
  <2>1. w <= d[1] /\ (d[1] = w => a <= d[2]) /\ w \in Nat /\ a \in Nat /\ d[1] \in Nat /\ d[2] \in Nat
    BY <1>1, <1>2, <1>3
  <2>2. d = <<d[1], d[2]>> /\ f = <<w, a>>
    BY <1>3, SMT
  <2> QED
    BY <1>3, <2>1, <2>2, SMT DEF Before
<1>5. IsFirst(First(S), S)
  BY <1>4 DEF First, IsFirst
<1>6. ASSUME NEW e \in S PROVE First(S)[1] <= e[1]
  <2>1. e = First(S) \/ Before(First(S), e)
    BY <1>5 DEF IsFirst
  <2>2. First(S)[1] \in Nat /\ e[1] \in Nat
    BY <1>5 DEF IsFirst
  <2> QED
    BY <2>1, <2>2, SMT DEF Before
<1> QED
  BY <1>5, <1>6 DEF IsFirst

\* resetTimerfd() arms it in time for the timer it is given and all later ones.
LEMMA ResetArms ==
  ASSUME TypeOK, ArmedInv, NEW when \in Nat, ResetTimerfd(when), UNCHANGED clock
  PROVE  /\ deadline' \in Nat /\ deadline' > clock
         /\ \A w \in Nat : when <= w => deadline' + Slowest <= Latest(w)
<1>1. clock \in Nat /\ offset \in Nat /\ Slowest \in Nat /\ Slowest <= offset
  BY SlowestIs DEF TypeOK, ArmedInv
<1>2. deadline' = clock + (IF when - (clock + offset) < 1 THEN 1 ELSE when - (clock + offset))
  BY DEF ResetTimerfd, Wall
<1>3. deadline' \in Nat /\ deadline' > clock
  BY <1>1, <1>2, SMT
<1>4. ASSUME NEW w \in Nat, when <= w PROVE deadline' + Slowest <= Latest(w)
  <2>1. CASE w <= clock + Slowest
    BY <1>1, <1>2, <1>4, <2>1, SMT DEF Latest
  <2>2. CASE ~(w <= clock + Slowest)
    BY <1>1, <1>2, <1>4, <2>2, SMT DEF Latest
  <2> QED
    BY <2>1, <2>2
<1> QED
  BY <1>3, <1>4

\* The deadlines in timers_ are times.
LEMMA Expirations == ASSUME IInv PROVE \A e \in timers_ : e[1] \in Nat
<1> SUFFICES ASSUME NEW e \in timers_ PROVE e[1] \in Nat
  OBVIOUS
<1>1. e[2] \in DOMAIN heap /\ e = Entry(e[2])
  BY DEF IInv, OwnerInv
<1>2. heap[e[2]] \in TimerObject
  BY <1>1 DEF IInv, TypeOK
<1>3. heap[e[2]].expiration \in Nat
  BY <1>2 DEF TimerObject
<1> QED
  BY <1>1, <1>3, SMT DEF Entry

\* A timerfd that was armed in time for every timer there is now.
LEMMA RearmedInTime ==
  ASSUME ArmedInv, UNCHANGED <<clock, offset>>,
         deadline' \in Nat, deadline' > clock, deadline' # 0,
         \A e \in timers_' : deadline' + Slowest <= Latest(e[1])
  PROVE  ArmedInv'
<1>1. \A w : Latest(w)' = Latest(w)
  BY DEF Latest
<1>2. \A e \in timers_' : deadline' + Slowest <= Latest(e[1])'
  BY <1>1
<1>3. deadline' > clock' /\ offset' \in Offsets
  BY DEF ArmedInv
<1> QED
  BY <1>2, <1>3 DEF ArmedInv

\* addTimerInLoop() re-arms the timerfd when the new timer is the earliest.
LEMMA AddArms ==
  ASSUME IInv, ArmedInv, NEW a, NEW timer, timer.expiration \in Nat, AddTimerInLoop(a, timer),
         UNCHANGED <<clock, offset, pc>>
  PROVE  ArmedInv'
<1>1. PICK when \in Nat : when = timer.expiration
  OBVIOUS
<1>2. timers_' = timers_ \cup {<<when, a>>} /\ TypeOK
  BY <1>1 DEF AddTimerInLoop, IInv
<1>3. \A e \in timers_ : e[1] \in Nat
  BY Expirations
<1>4. CASE EarliestChanged(when)
  <2>1. ResetTimerfd(when)
    BY <1>1, <1>4 DEF AddTimerInLoop
  <2>2. /\ deadline' \in Nat /\ deadline' > clock
        /\ \A w \in Nat : when <= w => deadline' + Slowest <= Latest(w)
    BY <1>2, <2>1, ResetArms
  <2>3. \A e \in timers_' : e[1] \in Nat /\ when <= e[1]
    BY <1>2, <1>3, <1>4, SMT DEF EarliestChanged
  <2>4. \A e \in timers_' : deadline' + Slowest <= Latest(e[1])
    BY <2>2, <2>3
  <2>5. deadline' # 0
    BY <1>2, <2>2, SMT DEF TypeOK
  <2> QED
    BY <2>2, <2>4, <2>5, RearmedInTime
<1>5. CASE ~EarliestChanged(when)
  <2>1. UNCHANGED timerfdVars
    BY <1>1, <1>5 DEF AddTimerInLoop
  <2>2. PICK d \in timers_ : ~(when < d[1])
    BY <1>5 DEF EarliestChanged
  <2>3. d[1] <= when
    BY <1>3, <2>2, SMT
  <2>4. ASSUME pc = "idle", ~readable, ~activated
        PROVE  deadline # 0 /\ \A e \in timers_' : deadline + Slowest <= Latest(e[1])
    <3>1. deadline # 0 /\ \A e \in timers_ : deadline + Slowest <= Latest(e[1])
      BY <2>2, <2>4 DEF ArmedInv
    <3>2. Latest(d[1]) <= Latest(when)
      <4>1. clock \in Nat /\ Slowest \in Nat /\ d[1] \in Nat
        BY <1>2, <1>3, SlowestIs DEF ArmedInv, TypeOK
      <4> QED
        BY <2>3, <4>1, SMT DEF Latest
    <3>3. deadline + Slowest <= Latest(when)
      <4>1. clock \in Nat /\ Slowest \in Nat /\ d[1] \in Nat /\ deadline \in Nat
        BY <1>2, <1>3, SlowestIs DEF ArmedInv, TypeOK
      <4>2. Latest(d[1]) \in Nat /\ Latest(when) \in Nat
        BY <4>1, SMT DEF Latest
      <4> QED
        BY <3>1, <3>2, <4>1, <4>2, SMT
    <3> QED
      BY <1>2, <3>1, <3>3, SMT
  <2> QED
    BY <2>1, <2>4 DEF ArmedInv, timerfdVars, Latest
<1> QED
  BY <1>4, <1>5

\* The clock: an expiration makes the timerfd readable, and until then the
\* deadline is in time for later clocks too.
LEMMA TickArms ==
  ASSUME IInv, ArmedInv, Tick
  PROVE  ArmedInv'
<1>1. /\ clock \in Nat /\ Slowest \in Nat /\ deadline \in Nat
      /\ clock' = clock + 1 /\ UNCHANGED <<offset, activated, timers_, pc>>
  BY SlowestIs DEF ArmedInv, IInv, TypeOK, Tick, setVars, batchVars
<1>2. \A e \in timers_ : e[1] \in Nat
  BY Expirations
<1>3. CASE deadline # 0 /\ deadline <= clock + 1
  BY <1>1, <1>3, SMT DEF Tick, ArmedInv
<1>4. CASE ~(deadline # 0 /\ deadline <= clock + 1)
  <2>1. UNCHANGED <<deadline, readable>>
    BY <1>4 DEF Tick
  <2>2. deadline # 0 => deadline > clock'
    BY <1>1, <1>4, SMT
  <2>3. ASSUME NEW e \in timers_, deadline # 0, deadline + Slowest <= Latest(e[1])
        PROVE  deadline + Slowest <= Latest(e[1])'
    <3>1. deadline + Slowest <= (IF e[1] <= clock + 1 + Slowest THEN clock + 1 + Slowest + 1 ELSE e[1])
      BY <1>1, <1>2, <2>3, SMT DEF Latest
    <3> QED
      BY <1>1, <3>1 DEF Latest
  <2> QED
    BY <1>1, <2>1, <2>2, <2>3 DEF ArmedInv
<1> QED
  BY <1>3, <1>4

\* Every step leaves the timerfd armed in time.
LEMMA NextArms ==
  ASSUME IInv, ArmedInv, [Next]_vars
  PROVE  ArmedInv'
<1>1. CASE \/ \E t \in Threads, a \in Addrs, r \in Requests : AddTimer(t, a, r)
           \/ \E t \in Threads : AddTimerReturn(t)
           \/ \E t \in Threads, id \in issued : Cancel(t, id)
           \/ \E id \in issued : LoopCancel(id)
           \/ RunPendingCancel \/ UNCHANGED vars
  <2>1. UNCHANGED <<clock, offset, deadline, readable, activated, pc>> /\ timers_' \subseteq timers_
    BY <1>1 DEF AddTimer, AddTimerReturn, Cancel, LoopCancel, RunPendingCancel, CancelInLoop, Erased,
                vars, timerfdVars, setVars, batchVars
  <2> QED
    BY <2>1 DEF ArmedInv, Latest
<1>2. CASE HandleRead \/ RunCallback \/ CallbackReturn \/ EndBatch \/ ResetTimer \/ Poll \/ Destroy
  <2>1. /\ UNCHANGED <<clock, offset>> /\ (deadline' = deadline \/ deadline' = 0)
        /\ pc' # "idle" \/ activated'
    BY <1>2 DEF HandleRead, RunCallback, CallbackReturn, EndBatch, ResetTimer, Poll, Destroy,
                timerfdVars, batchVars
  <2> QED
    BY <2>1, SMT DEF ArmedInv
<1>3. ASSUME NEW a \in Addrs, NEW r \in Requests, LoopAddTimer(a, r) PROVE ArmedInv'
  <2>1. r[1] \in Nat
    <3>1. CASE \E when \in Times : r = <<when, FALSE, 0>>
      BY <3>1, TimerAssumption, SMT
    <3>2. CASE \E i \in Intervals : r = <<Wall + i, TRUE, i>>
      <4>1. PICK i \in Intervals : r[1] = Wall + i
        BY <3>2, SMT
      <4>2. i \in Nat /\ clock \in Nat /\ offset \in Nat
        BY TimerAssumption DEF IInv, TypeOK
      <4> QED
        BY <4>1, <4>2, SMT DEF Wall
    <3> QED
      BY <3>1, <3>2 DEF Requests
  <2>2. PICK timer : timer = Timer(r[1], r[2], r[3])
    OBVIOUS
  <2>3. /\ AddTimerInLoop(a, timer) /\ timer.expiration \in Nat
        /\ UNCHANGED <<clock, offset, pc>>
    BY <1>3, <2>1, <2>2 DEF LoopAddTimer, Timer, batchVars
  <2> QED
    BY <2>3, AddArms
<1>4. CASE RunPendingAdd
  <2>1. PICK a, timer : a = Head(pending).id[1] /\ timer = heap[a]
    OBVIOUS
  <2>2. AddTimerInLoop(a, timer) /\ UNCHANGED <<clock, offset, pc>> /\ pending # <<>>
        /\ Head(pending).op = "add"
    BY <1>4, <2>1 DEF RunPendingAdd, batchVars
  <2>3. a \in DOMAIN heap
    <3>1. pending \in Seq(Functor)
      BY DEF IInv, TypeOK
    <3>2. 1 \in DOMAIN pending /\ Head(pending) = pending[1]
      BY <2>2, <3>1, HeadTailProperties, LenProperties, EmptySeq, SMT
    <3>3. a \in Queued
      BY <2>1, <2>2, <3>2 DEF Queued, Adds
    <3> QED
      BY <3>3 DEF IInv, OwnerInv
  <2>4. timer.expiration \in Nat
    BY <2>1, <2>3 DEF IInv, TypeOK, TimerObject
  <2> QED
    BY <2>2, <2>4, AddArms
<1>5. CASE ResetEnd
  <2>1. UNCHANGED <<clock, offset, timers_>> /\ Rearm /\ pc' = "idle"
    BY <1>5 DEF ResetEnd, setVars
  <2>2. CASE timers_ = {}
    BY <2>1, <2>2 DEF Rearm, ArmedInv, timerfdVars
  <2>3. CASE timers_ # {}
    <3>1. timers_ \subseteq Nat \X Nat
      <4> SUFFICES ASSUME NEW e \in timers_ PROVE e \in Nat \X Nat
        OBVIOUS
      <4>1. e[2] \in DOMAIN heap /\ e = <<heap[e[2]].expiration, e[2]>>
        BY DEF IInv, OwnerInv, Entry
      <4>2. heap[e[2]].expiration \in Nat /\ e[2] \in Nat
        BY <4>1, TimerAssumption DEF IInv, TypeOK, TimerObject
      <4> QED
        BY <4>1, <4>2, SMT
    <3>2. First(timers_) \in timers_ /\ \A e \in timers_ : First(timers_)[1] <= e[1]
      BY <2>3, <3>1, FirstIs
    <3>3. PICK when \in Nat : when = First(timers_)[1]
      BY <3>1, <3>2
    <3>4. ResetTimerfd(when)
      BY <2>1, <2>3, <3>3 DEF Rearm
    <3>5. /\ deadline' \in Nat /\ deadline' > clock
          /\ \A w \in Nat : when <= w => deadline' + Slowest <= Latest(w)
      BY <2>1, <3>4, ResetArms DEF IInv
    <3>6. \A e \in timers_ : deadline' + Slowest <= Latest(e[1])
      BY <3>1, <3>2, <3>3, <3>5
    <3>7. deadline' # 0
      BY <3>5, SMT DEF IInv, TypeOK
    <3> QED
      BY <2>1, <3>5, <3>6, <3>7, RearmedInTime
  <2> QED
    BY <2>2, <2>3
<1>6. CASE StepWallClock
  BY <1>6 DEF StepWallClock, ArmedInv, Latest, timerfdVars, setVars, batchVars
<1> QED
  BY <1>1, <1>2, <1>3, <1>4, <1>5, <1>6, TickArms DEF Next, LoopStep, UserCall

\* While timers wait in an idle loop the timerfd is armed, and fires in time for
\* the earliest of them however the wall clock is stepped.
THEOREM TimersArePunctual == Spec => []Punctual
<1>1. Init => ArmedInv
  BY SMT DEF Init, ArmedInv
<1>2. IInv /\ ArmedInv /\ [Next]_vars => ArmedInv'
  BY NextArms
<1>3. ArmedInv => Punctual
  BY DEF ArmedInv, Punctual, Slowest, Latest
<1> QED
  BY Invariance, <1>1, <1>2, <1>3, PTL DEF Spec
=============================================================================
