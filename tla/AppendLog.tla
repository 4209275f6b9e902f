------------------------------ MODULE AppendLog ------------------------------
(***************************************************************************)
(* A log of whole records that is late: what is appended leaves the        *)
(* process some time, and reaches the device some time.  This is all that  *)
(* is left of AtomicLog once an operation on the file has failed; and each *)
(* stream of a SharedOutput is such a log, whoever else writes to the      *)
(* output and syncs it.                                                    *)
(***************************************************************************)
EXTENDS Sink

CONSTANT Line                   \* what can be appended

VARIABLE sink

Init == sink = Empty

(* A full stdio buffer may empty itself during a write.                    *)
Write ==
    \E line \in Line :
        \E n \in sink.flushed..Len(sink.lines) + 1 :
            sink' = Spilled(Wrote(sink, line, FALSE), n)
Flush == sink' = Flushed(sink)
Sync  == sink' = Synced(sink)
Spill == \E n \in sink.flushed..Len(sink.lines) : sink' = Spilled(sink, n)
Crash == \E n \in sink.synced..Len(sink.lines) : sink' = Survivors(sink, n)

(* What the system has goes to the device, with no flush before it: the    *)
(* flush of a sync has failed, or another appender on the file is synced.  *)
WriteBack == \E n \in sink.synced..sink.flushed : sink' = [sink EXCEPT !.synced = n]

Keep == Write \/ Flush \/ Sync \/ Spill \/ WriteBack

Next == Keep \/ Crash

Spec == Init /\ [][Next]_sink

=============================================================================
