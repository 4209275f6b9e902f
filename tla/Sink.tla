-------------------------------- MODULE Sink --------------------------------
(***************************************************************************)
(* What one Appender has been given, as its callers may count on it: the   *)
(* records in the order they were written, how many of them are known to   *)
(* have left the process, and how many are known to be on the device.      *)
(***************************************************************************)
EXTENDS Integers, Sequences

Empty == [lines |-> <<>>, flushed |-> 0, synced |-> 0]

(* append(): the record is last, and a FATAL one is flushed with all that  *)
(* precede it before append() returns.                                     *)
Wrote(s, line, fatal) ==
    [lines   |-> Append(s.lines, line),
     flushed |-> IF fatal THEN Len(s.lines) + 1 ELSE s.flushed,
     synced  |-> s.synced]

Flushed(s) == [s EXCEPT !.flushed = Len(s.lines)]

Synced(s) == [lines |-> s.lines, flushed |-> Len(s.lines), synced |-> Len(s.lines)]

(* A full stdio buffer hands records to the system earlier than asked.     *)
Spilled(s, n) == [s EXCEPT !.flushed = n]

(* A crash keeps at least what is known to be out of its reach: everything *)
(* flushed if only the process dies, everything synced if the system does. *)
Survivors(s, n) ==
    [lines   |-> SubSeq(s.lines, 1, n),
     flushed |-> n,
     synced  |-> IF s.synced < n THEN s.synced ELSE n]

=============================================================================
