------------------------------ MODULE TaskQueue ------------------------------
(***************************************************************************)
(* What EventLoop promises to the callers of queueInLoop(): a first-in     *)
(* first-out executor.  A callback is submitted at most once; callbacks    *)
(* are executed in the order of their submission, each at most once, and   *)
(* nothing is executed that was not submitted.                             *)
(***************************************************************************)
EXTENDS Naturals, Sequences

CONSTANT Functors

VARIABLES submitted,   \* the callbacks handed over so far, oldest first
          executed     \* the callbacks executed so far, oldest first

Init ==
  /\ submitted = <<>>
  /\ executed = <<>>

Submit(f) ==
  /\ \A i \in 1 .. Len(submitted) : submitted[i] # f
  /\ submitted' = Append(submitted, f)
  /\ UNCHANGED executed

Execute ==
  /\ Len(executed) < Len(submitted)
  /\ executed' = Append(executed, submitted[Len(executed) + 1])
  /\ UNCHANGED submitted

Next == Execute \/ \E f \in Functors : Submit(f)

Spec == Init /\ [][Next]_<<submitted, executed>>
=============================================================================
