----------------------------- MODULE ByteQueue ------------------------------
(***************************************************************************)
(* What Buffer promises: a queue of bytes that can also be added to in     *)
(* front.  call is the last call with its argument and what it returned.   *)
(***************************************************************************)
EXTENDS Integers, Sequences

CONSTANTS
  Data,     \* the byte strings that may be added
  Lengths   \* the lengths that may be asked for

VARIABLES bytes, call

vars == <<bytes, call>>

NoCall == [fn |-> "none", data |-> <<>>]

Init == bytes = <<>> /\ call = NoCall

Put(fn) ==
  \E d \in Data :
    /\ bytes' = IF fn = "prepend" THEN d \o bytes ELSE bytes \o d
    /\ call' = [fn |-> fn, data |-> d]

\* The first bytes, all of them if fewer are there, leave the queue.
Take(fn) ==
  \E n \in Lengths \cup {Len(bytes)} :
    LET m == IF n < Len(bytes) THEN n ELSE Len(bytes)
    IN  /\ bytes' = SubSeq(bytes, m + 1, Len(bytes))
        /\ call' = [fn |-> fn, data |-> SubSeq(bytes, 1, m)]

Shrink == bytes' = bytes /\ call' = [fn |-> "shrink", data |-> <<>>]

Next ==
  \/ \E fn \in {"append", "prepend", "readFd"} : Put(fn)
  \/ \E fn \in {"retrieve", "retrieveAsString", "writeFd"} : Take(fn)
  \/ Shrink

Spec == Init /\ [][Next]_vars
=============================================================================
