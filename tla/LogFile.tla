------------------------------- MODULE LogFile -------------------------------
(***************************************************************************)
(* LogFile and AppendFile (src/base/LogFile.cpp, src/base/FileUtil.cpp):   *)
(* the file the logging thread writes to, replaced by a new one when it    *)
(* gets too long or its period (a day in the code) is over.                *)
(*                                                                         *)
(* A LogFile is a record and its functions map it to the set of records    *)
(* it may become.  Bytes passed to fwrite() stay in stdio's buffer until   *)
(* it is flushed, by the caller or by stdio itself; only the kernel's copy *)
(* (disk) outlives the process.  Time is counted in steps of a second's    *)
(* 1/Micros.                                                               *)
(***************************************************************************)
EXTENDS Integers, Sequences

CONSTANTS
  rollSize_, flushInterval_, checkEveryN_, kRollPerSeconds,
  Micros     \* clock steps in a second, 10^6 in the code

ASSUME LogFileAssumption ==
  /\ rollSize_ \in Nat /\ flushInterval_ \in Nat
  /\ checkEveryN_ \in Nat \ {0} /\ kRollPerSeconds \in Nat \ {0} /\ Micros \in Nat \ {0}

\* No file yet: the members before the constructor's rollFile().
NoFile ==
  [name |-> <<>>, fp_ |-> FALSE, writtenBytes_ |-> 0, buffer_ |-> <<>>,
   count_ |-> 0, startOfPeriod_ |-> 0, lastRoll_ |-> 0,
   disk |-> <<>>,    \* what the kernel has: lines with the name of their file
   lost |-> {},      \* history: lines written while no file was open
   late |-> 0]       \* history: writes to this file after its period

Time(t) == t \div Micros
Period(t) == Time(t) \div kRollPerSeconds
Named(lines, name) == [i \in DOMAIN lines |-> [name |-> name, line |-> lines[i]]]

\* Of stdio's buffer the first k lines go to the kernel.
Flushed(f, k) ==
  [f EXCEPT !.disk = @ \o Named(SubSeq(f.buffer_, 1, k), f.name),
            !.buffer_ = SubSeq(@, k + 1, Len(@))]

\* AppendFile::flush(), and the fclose() of ~AppendFile().
flush(f) == Flushed(f, Len(f.buffer_))

\* getLogFileName() reads the clock twice, at t for the second and at u >= t for
\* the microseconds: names repeat when the second ends in between.
getLogFileName(t, u) == <<Time(t), u % Micros>>

MutRollTruncates(f, t, u, ok) ==
  [flush(f) EXCEPT !.name = getLogFileName(t, u), !.fp_ = ok, !.writtenBytes_ = 0,
                   !.lastRoll_ = Time(t), !.startOfPeriod_ = Period(t), !.late = 0,
                   !.disk = SelectSeq(flush(f).disk, LAMBDA e : e.name # getLogFileName(t, u))]

\* rollFile(): the new file is opened, for appending, before the old one is
\* closed; fopen() may fail (~ok), which is reported on stderr only.
rollFile(f, t, u, ok) ==
  [flush(f) EXCEPT !.name = getLogFileName(t, u), !.fp_ = ok, !.writtenBytes_ = 0,
                   !.lastRoll_ = Time(t), !.startOfPeriod_ = Period(t), !.late = 0]

Rolled(f, t, u) == {rollFile(f, t, u, ok) : ok \in BOOLEAN}

\* AppendFile::append() of lines with len bytes; stdio may pass some on.
Appended(f, lines, len) ==
  IF ~f.fp_ THEN {[f EXCEPT !.lost = @ \cup {lines[i] : i \in DOMAIN lines}]}
  ELSE LET g == [f EXCEPT !.buffer_ = @ \o lines, !.writtenBytes_ = @ + len]
       IN  {Flushed(g, k) : k \in 0 .. Len(g.buffer_)}

MutCheckEveryN(f, t, u) ==
  IF f.count_ + 1 <= checkEveryN_ THEN {[f EXCEPT !.count_ = @ + 1]}
  ELSE Rolled([f EXCEPT !.count_ = 0], t, u)

\* The count of writes, and what every checkEveryN_-th one looks at.
CheckEveryN(f, t, u) ==
  LET g == [f EXCEPT !.count_ = 0] IN
  IF f.count_ + 1 < checkEveryN_ THEN {[f EXCEPT !.count_ = @ + 1]}
  ELSE IF Period(t) # f.startOfPeriod_ THEN Rolled(g, t, u)
  ELSE IF Time(t) - f.lastRoll_ > flushInterval_ THEN {flush([g EXCEPT !.lastRoll_ = Time(t)])}
  ELSE {g}

\* append_unlocked()
append(f, lines, len, t, u) ==
  UNION {LET h == [g EXCEPT !.late = IF Period(t) # f.startOfPeriod_ THEN @ + 1 ELSE @]
         IN  IF h.writtenBytes_ > rollSize_ THEN Rolled(h, t, u) ELSE CheckEveryN(h, t, u)
         : g \in Appended(f, lines, len)}
=============================================================================
