-------------------------- MODULE SendThenShutdown --------------------------
(***************************************************************************)
(* TcpConnection with histories of who called what, for a question about a *)
(* thread that calls send() and then shutdown().  They are kept out of     *)
(* TcpConnection because they multiply its states.                         *)
(***************************************************************************)
EXTENDS TcpConnection

VARIABLES
  sentBy,           \* history: messages each thread has queued by send()
  shutBy            \* history: the callers of shutdown() that passed its test

HistoryInit == Init /\ sentBy = [t \in Threads |-> {}] /\ shutBy = {}

HistoryNext ==
  /\ Next
  /\ sentBy' = [t \in Threads |->
                  sentBy[t] \cup {m \in {tpc[t].msg} : tpc[t].call = "send" /\ tpc'[t] = Idle}]
  /\ shutBy' = shutBy \cup {t \in Threads : tpc[t] = Idle /\ tpc'[t].call = "shutdown"}
                      \cup {w \in {"loop"} : state_' # state_ /\ tpc' = tpc /\ state_' = "kDisconnecting"}

HistorySpec == HistoryInit /\ [][HistoryNext]_<<vars, sentBy, shutBy>>

\* md/代码细节/二/3.md:173: shutdown() closes after the data has been sent.
\* state_ is set in the caller's thread, so handleWrite() may shut down while messages
\* the same thread sent before are still queued in the loop.
SentBeforeShutdown ==
  shut /\ ~closed /\ peer \in {"up", "fin"}
    => \A t \in Threads : shutBy = {t}
         => \A m \in sentBy[t] : \E i \in DOMAIN accepted : accepted[i] = m
=============================================================================
