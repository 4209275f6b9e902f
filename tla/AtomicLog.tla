------------------------------ MODULE AtomicLog ------------------------------
(***************************************************************************)
(* What an Appender promises to the threads that use it: a log of whole    *)
(* records, on which append, flush and sync act at one moment each and     *)
(* return only when they have acted.  There is no lock, no stdio buffer    *)
(* and no chunk.  A crash of the process keeps all that was flushed, a     *)
(* power loss all that was synced.                                         *)
(*                                                                         *)
(* Once an operation on the file has failed (nobody is told of it) what is *)
(* left is AppendLog: late, or short of a record, but whole records.       *)
(***************************************************************************)
EXTENDS LogLevel, Sink

CONSTANTS
    Threads,
    Records,                    \* what can be appended
    Device,                     \* whether sync goes beyond the system
    MayFail                     \* whether operations may fail

VARIABLES
    sink,
    threshold,                  \* the level of the appender
    open,                       \* whether there is an appender on the file
    outages,                    \* power losses so far
    job,                        \* per thread: the call it is in
    failed                      \* an operation on the file has failed

vars == <<sink, threshold, open, outages, job, failed>>

NoJob == [phase |-> "idle"]

Init ==
    /\ sink = Empty
    /\ threshold = DEBUG
    /\ open = TRUE
    /\ outages = 0
    /\ job = [t \in Threads |-> NoJob]
    /\ failed = FALSE

At(t, phase) == job[t].phase = phase

Becomes(t, j) == job' = [job EXCEPT ![t] = j]

Goto(t, phase) == Becomes(t, [job[t] EXCEPT !.phase = phase])

(* A call is made; append() first looks at the level.                      *)
Call ==
    [phase : {"gate"}, op : {"append"}, rec : Records, level : Level]
      \cup [phase : {"enter"}, op : {"flush", "sync"}, rec : Records, level : Level]

Take(t) ==
    /\ open /\ At(t, "idle")
    /\ job'[t] \in Call
    /\ Becomes(t, job'[t])
    /\ UNCHANGED <<sink, threshold, open, outages>>

SetLevel(t) ==
    /\ open /\ At(t, "idle")
    /\ threshold' \in Level
    /\ UNCHANGED <<sink, open, outages, job>>

(* The level it has at this moment decides.                                *)
Gate(t) ==
    /\ At(t, "gate")
    /\ IF Below(job[t].level, threshold) THEN Becomes(t, NoJob) ELSE Goto(t, "enter")
    /\ UNCHANGED <<sink, threshold, open, outages>>

Enter(t) ==
    /\ At(t, "enter")
    /\ Goto(t, IF job[t].op = "append" THEN "write" ELSE "flush")
    /\ UNCHANGED <<sink, threshold, open, outages>>

(* A call that fails before it has touched the log leaves no trace.        *)
Reject(t) ==
    /\ MayFail
    /\ At(t, "enter")
    /\ Becomes(t, NoJob)
    /\ UNCHANGED <<sink, threshold, open, outages>>

(* The record is last in the log, once; stdio may be full just now.        *)
Write(t) ==
    /\ At(t, "write")
    /\ \E n \in sink.flushed..Len(sink.lines) + 1 :
          sink' = Spilled(Wrote(sink, job[t].rec, FALSE), n)
    /\ Goto(t, IF job[t].level = FATAL THEN "flush" ELSE "return")
    /\ UNCHANGED <<threshold, open, outages>>

Flush(t) ==
    /\ At(t, "flush")
    /\ sink' = Flushed(sink)
    /\ Goto(t, IF job[t].op = "sync" /\ Device THEN "sync" ELSE "return")
    /\ UNCHANGED <<threshold, open, outages>>

(* What has been flushed, at least by this call, is on the device.         *)
Sync(t) ==
    /\ At(t, "sync")
    /\ sink' = [sink EXCEPT !.synced = sink.flushed]
    /\ Goto(t, "return")
    /\ UNCHANGED <<threshold, open, outages>>

Return(t) ==
    /\ At(t, "return")
    /\ Becomes(t, NoJob)
    /\ UNCHANGED <<sink, threshold, open, outages>>

(* While a record is being written stdio may push out what is before it.   *)
Spill(t) ==
    /\ At(t, "write")
    /\ \E n \in sink.flushed..Len(sink.lines) : sink' = Spilled(sink, n)
    /\ UNCHANGED <<threshold, open, outages, job>>

Quiet == \A t \in Threads : At(t, "idle")

Close ==
    /\ open /\ Quiet
    /\ open' = FALSE
    /\ sink' = IF Device THEN Flushed(sink) ELSE sink
    /\ UNCHANGED <<threshold, outages, job>>

Reopen ==
    /\ ~open
    /\ open' = TRUE
    /\ threshold' = DEBUG
    /\ UNCHANGED <<sink, outages, job>>

Stop(n) ==
    /\ sink' = Survivors(sink, n)
    /\ open' = FALSE
    /\ job' = [t \in Threads |-> NoJob]
    /\ UNCHANGED threshold

Crash == Stop(sink.flushed) /\ UNCHANGED outages

PowerLoss == (\E n \in sink.synced..sink.flushed : Stop(n)) /\ outages' = outages + 1

Step(t) ==
    \/ Take(t) \/ SetLevel(t) \/ Gate(t) \/ Enter(t) \/ Reject(t)
    \/ Write(t) \/ Spill(t) \/ Flush(t) \/ Sync(t) \/ Return(t)

Good == (\E t \in Threads : Step(t)) \/ Close \/ Reopen \/ Crash \/ PowerLoss

Late == INSTANCE AppendLog WITH Line <- Records

Next ==
    \/ ~failed' /\ ~failed /\ Good
    \/ MayFail /\ failed' /\ [Late!Next]_sink

Spec == Init /\ [][Next]_vars

=============================================================================
