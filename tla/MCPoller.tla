------------------------------ MODULE MCPoller ------------------------------
(* Poller with two descriptors, each of them used by two channels, one after *)
(* the other.                                                              *)
EXTENDS Poller, TLC

CONSTANTS c1, c2, c3, c4, f1, f2

MCFd == (c1 :> f1) @@ (c2 :> f1) @@ (c3 :> f2) @@ (c4 :> f2)
=============================================================================
