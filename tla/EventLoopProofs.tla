--------------------------- MODULE EventLoopProofs ---------------------------
(***************************************************************************)
(* Proofs about EventLoop for any number of threads, callbacks and         *)
(* channels and any limit of the eventfd counter.                          *)
(***************************************************************************)
EXTENDS EventLoop, SequenceTheorems, TLAPS

(* What is queued is what was executed, then the rest of the batch, then   *)
(* the queue.                                                              *)
Conservation == submitted = (executed \o functors) \o pendingFunctors_

(* NoLostWakeup holds from the swap, which empties the queue, up to the    *)
(* return of epoll_wait; between that return and the next swap the eventfd *)
(* may have been read while functors are queued.                           *)
WakeupOwed ==
  pc \notin {"dispatch", "handling", "swap"}
    /\ Elements(pendingFunctors_) \ silent # {} => WakeInFlight

IInv ==
  /\ TypeOK
  /\ callingPendingFunctors_ <=> (pc \in {"swap", "run", "functor"})
  /\ pc \notin {"run", "functor"} => functors = <<>>
  /\ WakeupOwed
  /\ Conservation

-----------------------------------------------------------------------------
(* The elements of a sequence after an append.                             *)
LEMMA ElementsAppend ==
  ASSUME NEW S, NEW s \in Seq(S), NEW e \in S
  PROVE  Elements(Append(s, e)) = Elements(s) \cup {e}
<1>1. /\ Len(Append(s, e)) = Len(s) + 1
      /\ \A i \in 1 .. Len(s) : Append(s, e)[i] = s[i]
      /\ Append(s, e)[Len(s) + 1] = e
      /\ Len(s) \in Nat
  BY AppendProperties, LenProperties
<1>2. 1 .. (Len(s) + 1) = (1 .. Len(s)) \cup {Len(s) + 1}
  BY <1>1
<1> QED
  BY <1>1, <1>2 DEF Elements

(* The type invariant is inductive: every step of every thread keeps it.    *)
LEMMA TypeOKStep == TypeOK /\ [Next]_vars => TypeOK'
<1> SUFFICES ASSUME TypeOK, [Next]_vars
             PROVE  TypeOK'
  OBVIOUS
<1> USE LoopAssumption
<1>1. CounterAfterWakeup \in 0 .. EventfdMax
  BY DEF TypeOK, CounterAfterWakeup
<1>2. ASSUME NEW f \in Functors, LoopQueueInLoop(f)
      PROVE  TypeOK'
  BY <1>1, <1>2, AppendProperties DEF TypeOK, LoopQueueInLoop, Push, loopVars
<1>3. ASSUME NEW f \in Functors, LoopRunInLoop(f)
      PROVE  TypeOK'
  BY <1>3 DEF TypeOK, LoopRunInLoop, loopVars
<1>4. CASE LoopQuit
  BY <1>4 DEF TypeOK, LoopQuit, loopVars
<1>5. ASSUME NEW t \in Threads, NEW f \in Functors, QueueInLoop(t, f)
      PROVE  TypeOK'
  BY <1>5, AppendProperties DEF TypeOK, QueueInLoop, Push, loopVars
<1>6. ASSUME NEW t \in Threads, Quit(t) \/ CallWakeup(t)
      PROVE  TypeOK'
  BY <1>6, Zenon DEF TypeOK, Quit, CallWakeup, loopVars
<1>7. ASSUME NEW t \in Threads, Wakeup(t)
      PROVE  TypeOK'
  BY <1>1, <1>7 DEF TypeOK, Wakeup, loopVars
<1>8. CASE Loop \/ StartedReturn \/ LoopCheck
  BY <1>8, Zenon DEF TypeOK, Loop, StartedReturn, LoopCheck, otherVars, PCs
<1>9. CASE PollEvents \/ PollTimeout
  BY <1>9 DEF TypeOK, PollEvents, PollTimeout, Pollable, otherVars, PCs
<1>10. CASE HandleWakeup
  BY <1>10 DEF TypeOK, HandleWakeup
<1>11. ASSUME NEW c \in Channels, HandleChannel(c)
       PROVE  TypeOK'
  BY <1>11 DEF TypeOK, HandleChannel, PCs
<1>12. CASE HandlerReturn \/ BeginPending \/ FunctorReturn \/ EndPending
  BY <1>12, Zenon DEF TypeOK, HandlerReturn, BeginPending, FunctorReturn, EndPending, otherVars, PCs
<1>13. CASE Swap
  BY <1>13 DEF TypeOK, Swap, PCs
<1>14. CASE RunFunctor
  BY <1>14, HeadTailProperties, AppendProperties DEF TypeOK, RunFunctor, otherVars, PCs
<1>15. ASSUME NEW c \in Channels, IoEvent(c)
       PROVE  TypeOK'
  BY <1>15 DEF TypeOK, IoEvent, loopVars
<1>16. CASE UNCHANGED vars
  BY <1>16 DEF TypeOK, vars
<1> QED
  BY <1>2, <1>3, <1>4, <1>5, <1>6, <1>7, <1>8, <1>9, <1>10, <1>11, <1>12, <1>13,
     <1>14, <1>15, <1>16 DEF Next, LoopStep, LoopCall, ThreadStep

(* The initial state is well typed.                                         *)
LEMMA InitTypeOK == Init => TypeOK
<1> SUFFICES ASSUME Init
             PROVE  TypeOK
  OBVIOUS
<1>1. << >> \in Seq(Functors)
  OBVIOUS
<1>2. 0 \in 0 .. EventfdMax
  BY LoopAssumption
<1>3. tpc \in [Threads -> {"idle", "wakeup"}]
  BY DEF Init
<1> QED
  BY <1>1, <1>2, <1>3, Zenon DEF Init, TypeOK, PCs

(* Type correctness of EventLoop.                                           *)
THEOREM TypeCorrect == Spec => []TypeOK
  BY InitTypeOK, TypeOKStep, PTL DEF Spec

-----------------------------------------------------------------------------
(* Moving the head of a batch to the end of what was executed.              *)
LEMMA MoveHead ==
  ASSUME NEW S, NEW s \in Seq(S), NEW t \in Seq(S), t # <<>>
  PROVE  /\ Append(s, Head(t)) \o Tail(t) = s \o t
         /\ Len(s) < Len(s \o t)
         /\ Head(t) = (s \o t)[Len(s) + 1]
<1>1. /\ Head(t) \in S /\ Tail(t) \in Seq(S) /\ Len(Tail(t)) = Len(t) - 1
      /\ \A i \in 1 .. Len(Tail(t)) : Tail(t)[i] = t[i + 1]
  BY HeadTailProperties
<1>2. Len(t) \in Nat \ {0} /\ Len(s) \in Nat /\ Head(t) = t[1]
  BY EmptySeq, LenProperties
<1>3. <<Head(t)>> \o Tail(t) = t
  <2>1. /\ <<Head(t)>> \o Tail(t) \in Seq(S)
        /\ Len(<<Head(t)>> \o Tail(t)) = Len(t)
        /\ \A i \in 1 .. Len(t) : (<<Head(t)>> \o Tail(t))[i] = t[i]
    BY <1>1, <1>2, ConcatProperties
  <2> QED
    BY <2>1, SeqEqual
<1>4. Append(s, Head(t)) \o Tail(t) = (s \o <<Head(t)>>) \o Tail(t)
  BY <1>1, AppendIsConcat, SMTT(30)
<1>5. (s \o <<Head(t)>>) \o Tail(t) = s \o (<<Head(t)>> \o Tail(t))
  BY <1>1, ConcatAssociative, SMTT(30)
<1>6. Len(s \o t) = Len(s) + Len(t) /\ (s \o t)[Len(s) + 1] = t[1]
  BY <1>2, ConcatProperties
<1> QED
  BY <1>2, <1>3, <1>4, <1>5, <1>6

(* Queueing keeps what was queued accounted for.                            *)
LEMMA PushConserves ==
  ASSUME TypeOK, Conservation, NEW f \in Functors, Push(f),
         UNCHANGED <<executed, functors>>
  PROVE  Conservation'
<1> DEFINE done == executed \o functors
<1>1. done \in Seq(Functors) /\ pendingFunctors_ \in Seq(Functors)
  BY ConcatProperties DEF TypeOK
<1>2. submitted = done \o pendingFunctors_
  BY DEF Conservation
<1>3. /\ submitted' = Append(submitted, f)
      /\ pendingFunctors_' = Append(pendingFunctors_, f)
      /\ done' = done
  BY DEF Push
<1> HIDE DEF done
<1>4. <<f>> \in Seq(Functors) /\ done \o pendingFunctors_ \in Seq(Functors)
  BY <1>1, ConcatProperties
<1>5. /\ Append(done \o pendingFunctors_, f) = (done \o pendingFunctors_) \o <<f>>
      /\ Append(pendingFunctors_, f) = pendingFunctors_ \o <<f>>
  BY <1>1, <1>4, AppendIsConcat
<1>6. (done \o pendingFunctors_) \o <<f>> = done \o (pendingFunctors_ \o <<f>>)
  BY <1>1, <1>4, ConcatAssociative
<1>7. submitted' = done' \o pendingFunctors_'
  BY <1>2, <1>3, <1>5, <1>6
<1> QED
  BY <1>7 DEF Conservation, done

(* Every step preserves the accounting of queued functors.                  *)
LEMMA ConservationStep == IInv /\ [Next]_vars => Conservation'
<1> SUFFICES ASSUME IInv, [Next]_vars
             PROVE  Conservation'
  OBVIOUS
<1>1. ASSUME NEW f \in Functors, LoopQueueInLoop(f)
      PROVE  Conservation'
  BY <1>1, PushConserves DEF IInv, LoopQueueInLoop, loopVars
<1>2. ASSUME NEW t \in Threads, NEW f \in Functors, QueueInLoop(t, f)
      PROVE  Conservation'
  BY <1>2, PushConserves DEF IInv, QueueInLoop, loopVars
<1>3. CASE Swap
  <2>1. functors = <<>> /\ executed \in Seq(Functors) /\ pendingFunctors_ \in Seq(Functors)
    BY <1>3 DEF IInv, TypeOK, Swap
  <2>2. /\ (executed \o <<>>) \o pendingFunctors_ = executed \o pendingFunctors_
        /\ (executed \o pendingFunctors_) \o <<>> = executed \o pendingFunctors_
    BY <2>1, ConcatEmptySeq, ConcatProperties
  <2> QED
    BY <1>3, <2>1, <2>2 DEF IInv, Conservation, Swap
<1>4. CASE RunFunctor
  <2>1. Append(executed, Head(functors)) \o Tail(functors) = executed \o functors
    BY <1>4, MoveHead, Zenon DEF IInv, TypeOK, RunFunctor
  <2> QED
    BY <1>4, <2>1, SMTT(30) DEF IInv, Conservation, RunFunctor, otherVars
<1>5. CASE UNCHANGED <<submitted, executed, functors, pendingFunctors_>>
  BY <1>5 DEF IInv, Conservation
<1>6. ASSUME NEW f \in Functors, LoopRunInLoop(f)
      PROVE  UNCHANGED <<submitted, executed, functors, pendingFunctors_>>
  BY <1>6 DEF LoopRunInLoop, loopVars
<1>7. ASSUME NEW t \in Threads, Quit(t) \/ CallWakeup(t) \/ Wakeup(t)
      PROVE  UNCHANGED <<submitted, executed, functors, pendingFunctors_>>
  BY <1>7 DEF Quit, CallWakeup, Wakeup, loopVars
<1>8. ASSUME NEW c \in Channels, HandleChannel(c) \/ IoEvent(c)
      PROVE  UNCHANGED <<submitted, executed, functors, pendingFunctors_>>
  BY <1>8 DEF HandleChannel, IoEvent, loopVars
<1>9. CASE \/ LoopQuit \/ Loop \/ StartedReturn \/ LoopCheck \/ PollEvents
           \/ PollTimeout \/ HandleWakeup \/ HandlerReturn \/ BeginPending
           \/ FunctorReturn \/ EndPending \/ UNCHANGED vars
  BY <1>5, <1>9 DEF LoopQuit, Loop, StartedReturn, LoopCheck, PollEvents, PollTimeout,
     HandleWakeup, HandlerReturn, BeginPending, FunctorReturn, EndPending, loopVars,
     otherVars, vars
<1> QED
  BY <1>1, <1>2, <1>3, <1>4, <1>5, <1>6, <1>7, <1>8, <1>9
     DEF Next, LoopStep, LoopCall, ThreadStep

-----------------------------------------------------------------------------
(* The flag of doPendingFunctors() and its local vector follow the control  *)
(* of the loop thread.                                                      *)
LEMMA ControlStep ==
  IInv /\ [Next]_vars
    => /\ callingPendingFunctors_' <=> (pc' \in {"swap", "run", "functor"})
       /\ pc' \notin {"run", "functor"} => functors' = <<>>
<1> SUFFICES ASSUME IInv, [Next]_vars
             PROVE  /\ callingPendingFunctors_' <=> (pc' \in {"swap", "run", "functor"})
                    /\ pc' \notin {"run", "functor"} => functors' = <<>>
  OBVIOUS
<1>1. CASE UNCHANGED <<pc, callingPendingFunctors_, functors>>
  BY <1>1 DEF IInv
<1>2. ASSUME NEW f \in Functors, LoopQueueInLoop(f) \/ LoopRunInLoop(f)
      PROVE  UNCHANGED <<pc, callingPendingFunctors_, functors>>
  BY <1>2 DEF LoopQueueInLoop, LoopRunInLoop, loopVars
<1>3. ASSUME NEW t \in Threads, ThreadStep(t)
      PROVE  UNCHANGED <<pc, callingPendingFunctors_, functors>>
  BY <1>3 DEF ThreadStep, QueueInLoop, Quit, CallWakeup, Wakeup, loopVars
<1>4. ASSUME NEW c \in Channels, IoEvent(c)
      PROVE  UNCHANGED <<pc, callingPendingFunctors_, functors>>
  BY <1>4 DEF IoEvent, loopVars
<1>5. CASE LoopQuit \/ HandleWakeup \/ UNCHANGED vars
  BY <1>1, <1>5 DEF LoopQuit, HandleWakeup, loopVars, vars
<1>6. ASSUME NEW c \in Channels, HandleChannel(c)
      PROVE  /\ callingPendingFunctors_' <=> (pc' \in {"swap", "run", "functor"})
             /\ pc' \notin {"run", "functor"} => functors' = <<>>
  BY <1>6 DEF IInv, HandleChannel
<1>7. CASE Loop \/ StartedReturn \/ LoopCheck \/ PollEvents \/ PollTimeout \/ HandlerReturn
  BY <1>7 DEF IInv, Loop, StartedReturn, LoopCheck, PollEvents, PollTimeout, HandlerReturn
<1>8. CASE BeginPending \/ Swap
  BY <1>8 DEF IInv, BeginPending, Swap
<1>9. CASE RunFunctor \/ FunctorReturn
  BY <1>9 DEF IInv, RunFunctor, FunctorReturn
<1>10. CASE EndPending
  BY <1>10 DEF IInv, EndPending
<1> QED
  BY <1>1, <1>2, <1>3, <1>4, <1>5, <1>6, <1>7, <1>8, <1>9, <1>10 DEF Next, LoopStep, LoopCall

(* No step loses a wakeup that is owed to a queued functor.                 *)
LEMMA WakeupOwedStep == IInv /\ [Next]_vars => WakeupOwed'
<1> SUFFICES ASSUME IInv, [Next]_vars
             PROVE  WakeupOwed'
  OBVIOUS
<1> USE LoopAssumption
<1>1. CounterAfterWakeup > 0
  BY DEF IInv, TypeOK, CounterAfterWakeup
<1>2. ASSUME NEW f \in Functors, LoopQueueInLoop(f)
      PROVE  WakeupOwed'
  <2>1. Elements(pendingFunctors_') = Elements(pendingFunctors_) \cup {f}
    BY <1>2, ElementsAppend DEF IInv, TypeOK, LoopQueueInLoop, Push
  <2>2. CASE callingPendingFunctors_
    BY <1>1, <1>2, <2>2 DEF LoopQueueInLoop, WakeupOwed, WakeInFlight
  <2>3. CASE ~callingPendingFunctors_ /\ pc = "handling"
    BY <1>2, <2>3 DEF LoopQueueInLoop, WakeupOwed, loopVars
  <2>4. CASE ~callingPendingFunctors_ /\ pc \in {"outside", "started"}
    <3>1. Elements(pendingFunctors_') \ silent' \subseteq Elements(pendingFunctors_) \ silent
      BY <1>2, <2>1, <2>4 DEF LoopQueueInLoop
    <3> QED
      BY <1>2, <2>4, <3>1 DEF IInv, LoopQueueInLoop, WakeupOwed, WakeInFlight, loopVars
  <2> QED
    BY <1>2, <2>2, <2>3, <2>4 DEF IInv, LoopQueueInLoop, UserCode
<1>3. ASSUME NEW t \in Threads, NEW f \in Functors, QueueInLoop(t, f)
      PROVE  WakeupOwed'
  BY <1>3 DEF IInv, TypeOK, QueueInLoop, WakeupOwed, WakeInFlight
<1>4. ASSUME NEW t \in Threads, Wakeup(t)
      PROVE  WakeupOwed'
  BY <1>1, <1>4 DEF Wakeup, WakeupOwed, WakeInFlight
<1>5. ASSUME NEW t \in Threads, Quit(t) \/ CallWakeup(t)
      PROVE  WakeupOwed'
  BY <1>5 DEF IInv, TypeOK, Quit, CallWakeup, WakeupOwed, WakeInFlight
<1>6. CASE Swap
  BY <1>6 DEF Swap, WakeupOwed, Elements
<1>7. ASSUME NEW c \in Channels, HandleChannel(c)
      PROVE  WakeupOwed'
  BY <1>7 DEF HandleChannel, WakeupOwed
<1>8. CASE HandleWakeup \/ HandlerReturn \/ BeginPending \/ PollEvents \/ PollTimeout
  BY <1>8 DEF HandleWakeup, HandlerReturn, BeginPending, PollEvents, PollTimeout, WakeupOwed
<1>9. CASE Loop \/ StartedReturn \/ LoopCheck \/ RunFunctor \/ FunctorReturn \/ EndPending
  BY <1>9 DEF IInv, Loop, StartedReturn, LoopCheck, RunFunctor, FunctorReturn, EndPending,
     otherVars, WakeupOwed, WakeInFlight, Elements
<1>10. ASSUME NEW f \in Functors, LoopRunInLoop(f)
       PROVE  WakeupOwed'
  BY <1>10 DEF IInv, LoopRunInLoop, loopVars, WakeupOwed, WakeInFlight, Elements
<1>11. ASSUME NEW c \in Channels, IoEvent(c)
       PROVE  WakeupOwed'
  BY <1>11 DEF IInv, IoEvent, loopVars, WakeupOwed, WakeInFlight, Elements
<1>12. CASE LoopQuit \/ UNCHANGED vars
  BY <1>12 DEF IInv, LoopQuit, loopVars, vars, WakeupOwed, WakeInFlight, Elements
<1> QED
  BY <1>2, <1>3, <1>4, <1>5, <1>6, <1>7, <1>8, <1>9, <1>10, <1>11, <1>12
     DEF Next, LoopStep, LoopCall, ThreadStep

-----------------------------------------------------------------------------
(* The inductive invariant: types, control, wakeups owed, and accounting.   *)
THEOREM Invariance == Spec => []IInv
<1>1. Init => IInv
  <2> SUFFICES ASSUME Init
               PROVE  IInv
    OBVIOUS
  <2>1. TypeOK
    BY InitTypeOK
  <2>2. Elements(pendingFunctors_) = {}
    BY DEF Init, Elements
  <2>3. (<<>> \o <<>>) \o <<>> = <<>>
    BY ConcatEmptySeq
  <2> QED
    BY <2>1, <2>2, <2>3 DEF Init, IInv, WakeupOwed, Conservation
<1>2. IInv /\ [Next]_vars => IInv'
  BY TypeOKStep, ControlStep, WakeupOwedStep, ConservationStep DEF IInv
<1> QED
  BY <1>1, <1>2, PTL DEF Spec

(* The loop never sleeps over a functor queued by another thread or from    *)
(* inside the loop unless its wakeup is on the way.                         *)
THEOREM NoWakeupLost == Spec => []NoLostWakeup
<1>1. IInv => NoLostWakeup
  BY DEF IInv, WakeupOwed, NoLostWakeup
<1> QED
  BY <1>1, Invariance, PTL

(* A batch of functors is never left half run, not even by quit().          *)
THEOREM BatchesComplete == Spec => []BatchRunToEnd
<1>1. IInv => BatchRunToEnd
  BY DEF IInv, BatchRunToEnd
<1> QED
  BY <1>1, Invariance, PTL

-----------------------------------------------------------------------------
(* What QuitHonoured rests on, inductive with the types.                    *)
(* The loop never sleeps after quit() unless its wakeup is on the way, for  *)
(* any number of threads that call quit(), queue functors and wake it up.   *)
THEOREM QuitIsHeard == Spec => []QuitOwed
<1>1. Init => QuitOwed
  BY DEF Init, QuitOwed
<1>2. TypeOK /\ QuitOwed /\ [Next]_vars => QuitOwed'
  <2> SUFFICES ASSUME TypeOK, QuitOwed, [Next]_vars
               PROVE  QuitOwed'
    OBVIOUS
  <2> USE LoopAssumption
  <2>1. CounterAfterWakeup > 0
    BY DEF TypeOK, CounterAfterWakeup
  <2>2. ASSUME NEW f \in Functors, LoopQueueInLoop(f) \/ LoopRunInLoop(f)
        PROVE  QuitOwed'
    BY <2>2, Zenon DEF LoopQueueInLoop, LoopRunInLoop, UserCode, QuitOwed, loopVars
  <2>3. ASSUME NEW t \in Threads, NEW f \in Functors, QueueInLoop(t, f)
        PROVE  QuitOwed'
    BY <2>3 DEF TypeOK, QueueInLoop, QuitOwed, WakeInFlight
  <2>4. ASSUME NEW t \in Threads, Quit(t) \/ CallWakeup(t)
        PROVE  QuitOwed'
    BY <2>4, Zenon DEF TypeOK, Quit, CallWakeup, QuitOwed, WakeInFlight
  <2>5. ASSUME NEW t \in Threads, Wakeup(t)
        PROVE  QuitOwed'
    BY <2>1, <2>5 DEF Wakeup, QuitOwed, WakeInFlight
  <2>6. ASSUME NEW c \in Channels, HandleChannel(c)
        PROVE  QuitOwed'
    BY <2>6 DEF HandleChannel, QuitOwed
  <2>7. ASSUME NEW c \in Channels, IoEvent(c)
        PROVE  QuitOwed'
    BY <2>7 DEF IoEvent, loopVars, QuitOwed, WakeInFlight
  <2>8. CASE LoopCheck
    BY <2>8 DEF LoopCheck, otherVars, QuitOwed
  <2>9. CASE LoopQuit
    BY <2>9 DEF LoopQuit, UserCode, QuitOwed, loopVars
  <2>10. CASE \/ Loop \/ StartedReturn \/ PollEvents \/ PollTimeout \/ HandleWakeup
              \/ HandlerReturn \/ BeginPending \/ Swap \/ RunFunctor \/ FunctorReturn
              \/ EndPending
    BY <2>10 DEF Loop, StartedReturn, PollEvents, PollTimeout, HandleWakeup, HandlerReturn,
       BeginPending, Swap, RunFunctor, FunctorReturn, EndPending, QuitOwed
  <2>11. CASE UNCHANGED vars
    BY <2>11 DEF vars, QuitOwed, WakeInFlight
  <2> QED
    BY <2>2, <2>3, <2>4, <2>5, <2>6, <2>7, <2>8, <2>9, <2>10, <2>11
       DEF Next, LoopStep, LoopCall, ThreadStep
<1> QED
  BY <1>1, <1>2, TypeCorrect, PTL DEF Spec

(* EventLoop implements TaskQueue: queued functors are executed in the      *)
(* order of queueing, each at most once, none invented.                     *)
THEOREM Refinement == Spec => TaskQueueSpec
<1>1. Init => Abstract!Init
  BY DEF Init, Abstract!Init
<1>2. IInv /\ [Next]_vars => [Abstract!Next]_<<submitted, executed>>
  <2> SUFFICES ASSUME IInv, [Next]_vars
               PROVE  [Abstract!Next]_<<submitted, executed>>
    OBVIOUS
  <2>1. ASSUME NEW f \in Functors, Push(f), UNCHANGED executed
        PROVE  Abstract!Next
    BY <2>1 DEF Push, Fresh, Elements, Abstract!Next, Abstract!Submit
  <2>2. CASE RunFunctor
    <3> DEFINE taken == executed \o functors
    <3>1. /\ executed \in Seq(Functors) /\ functors \in Seq(Functors)
          /\ functors # <<>> /\ pendingFunctors_ \in Seq(Functors)
      BY <2>2 DEF IInv, TypeOK, RunFunctor
    <3>2. Len(executed) < Len(taken) /\ Head(functors) = taken[Len(executed) + 1]
      BY <3>1, MoveHead
    <3>3. taken \in Seq(Functors) /\ Len(taken) \in Nat /\ Len(executed) \in Nat
      BY <3>1, ConcatProperties, LenProperties
    <3> HIDE DEF taken
    <3>4. submitted = taken \o pendingFunctors_
      BY DEF IInv, Conservation, taken
    <3>5. /\ Len(executed) < Len(submitted)
          /\ submitted[Len(executed) + 1] = taken[Len(executed) + 1]
      BY <3>1, <3>2, <3>3, <3>4, ConcatProperties, LenProperties
    <3> QED
      BY <2>2, <3>2, <3>5 DEF RunFunctor, otherVars, Abstract!Next, Abstract!Execute
  <2>3. ASSUME NEW f \in Functors, LoopQueueInLoop(f) \/ LoopRunInLoop(f)
        PROVE  [Abstract!Next]_<<submitted, executed>>
    BY <2>1, <2>3 DEF LoopQueueInLoop, LoopRunInLoop, loopVars
  <2>4. ASSUME NEW t \in Threads, ThreadStep(t)
        PROVE  [Abstract!Next]_<<submitted, executed>>
    BY <2>1, <2>4 DEF ThreadStep, QueueInLoop, Quit, CallWakeup, Wakeup, loopVars
  <2>5. ASSUME NEW c \in Channels, HandleChannel(c) \/ IoEvent(c)
        PROVE  UNCHANGED <<submitted, executed>>
    BY <2>5, SMTT(30) DEF HandleChannel, IoEvent, loopVars
  <2>6. CASE \/ LoopQuit \/ Loop \/ StartedReturn \/ LoopCheck \/ PollEvents
             \/ PollTimeout \/ HandleWakeup \/ HandlerReturn \/ BeginPending \/ Swap
             \/ FunctorReturn \/ EndPending \/ UNCHANGED vars
    BY <2>6 DEF LoopQuit, Loop, StartedReturn, LoopCheck, PollEvents, PollTimeout,
       HandleWakeup, HandlerReturn, BeginPending, Swap, FunctorReturn, EndPending,
       loopVars, otherVars, vars
  <2> QED
    BY <2>2, <2>3, <2>4, <2>5, <2>6 DEF Next, LoopStep, LoopCall
<1> QED
  BY <1>1, <1>2, Invariance, PTL DEF Spec, TaskQueueSpec, Abstract!Spec
=============================================================================
