------------------------------ MODULE Appender ------------------------------
(***************************************************************************)
(* One pans::Appender: threads append, flush and sync it, the process that *)
(* owns it stops, crashes and starts again, the machine loses power.       *)
(*                                                                         *)
(* append() tests the appender's level before it takes the mutex; what     *)
(* follows is under the mutex.  A record reaches fwrite() as one buffer    *)
(* but leaves stdio in pieces, whenever its buffer is full: here a record  *)
(* is two chunks, and the system may have any prefix of the chunks.        *)
(* stdio's own locking is not relied on.  The appender ignores the results *)
(* of fwrite, fflush and fdatasync.                                        *)
(***************************************************************************)
EXTENDS LogLevel, Sequences, FiniteSets

CONSTANTS
    Threads,
    None,           \* nobody holds the mutex
    Kind,           \* "file" or "stdout": which of the two subclasses
    Levels,         \* the levels in use
    MaxCalls,       \* bound: the calls of one thread
    MaxCrashes,     \* bound: crashes, and power losses, with the restarts
    MayFail         \* whether mutex, fwrite, fflush and fdatasync may fail

ASSUME AppenderAssumption ==
    /\ None \notin Threads
    /\ Kind \in {"file", "stdout"}
    /\ Levels \subseteq Level
    /\ MaxCalls \in Nat /\ MaxCrashes \in Nat
    /\ MayFail \in BOOLEAN

VARIABLES
    mlevel,         \* Appender::Impl::m_level
    mutex,          \* the thread that holds Appender::Impl::m_mutex
    open,           \* m_file is an open stream
    stream,         \* the chunks in the file and, behind them, in stdio
    osEnd,          \* how many of them the system has
    diskEnd,        \* how many of them fdatasync has confirmed
    pc, op, lv,     \* per thread: where it is, in which call, with what level
    calls,          \* per thread: calls made so far
    crashes,        \* crashes of the process so far
    outages,        \* power losses so far
    returned,       \* ghost: the records whose append has returned
    mark,           \* ghost, per thread: the value of returned when it called
    flushedFor,     \* ghost: the records promised to be out of the process
    syncedFor,      \* ghost: the records promised to be on the device
    cuts,           \* ghost: where a crash ended the file
    failed          \* ghost: an operation on the file has failed

file   == <<stream, osEnd, diskEnd>>
stops  == <<crashes, outages>>
ghosts == <<returned, mark, flushedFor, syncedFor, cuts>>
vars   == <<mlevel, mutex, open, stream, osEnd, diskEnd, pc, op, lv, calls, crashes,
            outages, returned, mark, flushedFor, syncedFor, cuts, failed>>

Record(t) == <<t, calls[t]>>
Records   == Threads \X (0..MaxCalls)
Chunk     == [rec : Records, part : {1, 2}]

(* The places between lock_guard and its destruction.                      *)
Locked == {"write", "rest", "flush", "fdatasync", "unlock"}

TypeOK ==
    /\ mlevel \in Level
    /\ mutex \in Threads \cup {None}
    /\ open \in BOOLEAN
    /\ stream \in Seq(Chunk)
    /\ osEnd \in 0..Len(stream) /\ diskEnd \in 0..osEnd
    /\ pc \in [Threads -> {"idle", "gate", "lock"} \cup Locked]
    /\ op \in [Threads -> {"append", "flush", "sync"}]
    /\ lv \in [Threads -> Level]
    /\ calls \in [Threads -> 0..MaxCalls]
    /\ crashes \in 0..MaxCrashes /\ outages \in 0..MaxCrashes
    /\ returned \subseteq Records
    /\ mark \in [Threads -> SUBSET Records]
    /\ flushedFor \subseteq Records /\ syncedFor \subseteq Records
    /\ cuts \subseteq Nat
    /\ failed \in {FALSE, MayFail}

-----------------------------------------------------------------------------

Init ==
    /\ mlevel = DEBUG
    /\ mutex = None
    /\ open = TRUE
    /\ stream = <<>> /\ osEnd = 0 /\ diskEnd = 0
    /\ pc = [t \in Threads |-> "idle"]
    /\ op = [t \in Threads |-> "append"]
    /\ lv = [t \in Threads |-> DEBUG]
    /\ calls = [t \in Threads |-> 0]
    /\ crashes = 0 /\ outages = 0
    /\ returned = {}
    /\ mark = [t \in Threads |-> {}]
    /\ flushedFor = {} /\ syncedFor = {}
    /\ cuts = {}
    /\ failed = FALSE

Goto(t, where) == pc' = [pc EXCEPT ![t] = where]

(* A thread that is in no call makes one; it holds the appender by a       *)
(* shared_ptr, so the stream is open.                                      *)
Begin(t, o, level, where) ==
    /\ open
    /\ pc[t] = "idle"
    /\ calls[t] < MaxCalls
    /\ calls' = [calls EXCEPT ![t] = @ + 1]
    /\ op' = [op EXCEPT ![t] = o]
    /\ lv' = [lv EXCEPT ![t] = level]
    /\ mark' = [mark EXCEPT ![t] = returned]
    /\ Goto(t, where)
    /\ UNCHANGED <<mutex, open, file, stops, returned, flushedFor, syncedFor, cuts, failed>>

CallAppend(t) ==
    \E level \in Levels : Begin(t, "append", level, "gate") /\ UNCHANGED mlevel

(* Appender::flush and sync.                                               *)
CallDrain(t) ==
    \E o \in {"flush", "sync"} : Begin(t, o, DEBUG, "lock") /\ UNCHANGED mlevel

(* setLevel is an atomic store.                                            *)
SetLevel(t) ==
    \E level \in Levels : Begin(t, "append", level, "idle") /\ mlevel' = level

(* The level test of append, with no lock.                                 *)
Gate(t) ==
    /\ pc[t] = "gate"
    /\ Goto(t, IF Below(lv[t], mlevel) THEN "idle" ELSE "lock")
    /\ UNCHANGED <<mlevel, mutex, open, file, op, lv, calls, stops, ghosts, failed>>

(* Faulty: append() does not lock.                                         *)
LockNothing(t) ==
    /\ pc[t] = "lock"
    /\ mutex' = t
    /\ Goto(t, IF op[t] = "append" THEN "write" ELSE "flush")
    /\ UNCHANGED <<mlevel, open, file, op, lv, calls, stops, ghosts, failed>>

Lock(t) ==
    /\ pc[t] = "lock"
    /\ mutex = None
    /\ mutex' = t
    /\ Goto(t, IF op[t] = "append" THEN "write" ELSE "flush")
    /\ UNCHANGED <<mlevel, open, file, op, lv, calls, stops, ghosts, failed>>

(* std::system_error: caught by append, thrown on by flush and sync.       *)
LockThrows(t) ==
    /\ MayFail
    /\ pc[t] = "lock"
    /\ Goto(t, "idle")
    /\ UNCHANGED <<mlevel, mutex, open, file, op, lv, calls, stops, ghosts, failed>>

(* fwrite copies the record into stdio's buffer, which empties itself into *)
(* the system when it has to.                                              *)
Put(t, part) ==
    /\ stream' = Append(stream, [rec |-> Record(t), part |-> part])
    /\ osEnd' \in osEnd..Len(stream) + 1
    /\ UNCHANGED diskEnd

NeverFlush(t) == "unlock"           \* faulty: FATAL is not special

AfterWrite(t) == IF lv[t] = FATAL THEN "flush" ELSE "unlock"

Write(t) ==
    /\ pc[t] = "write"
    /\ Put(t, 1)
    /\ Goto(t, "rest")
    /\ UNCHANGED <<mlevel, mutex, open, op, lv, calls, stops, ghosts, failed>>

WriteRest(t) ==
    /\ pc[t] = "rest"
    /\ Put(t, 2)
    /\ Goto(t, AfterWrite(t))
    /\ UNCHANGED <<mlevel, mutex, open, op, lv, calls, stops, ghosts, failed>>

(* The rest of the record did not fit on the device, and nobody looks.     *)
WriteFails(t) ==
    /\ MayFail
    /\ pc[t] \in {"write", "rest"}
    /\ Goto(t, AfterWrite(t))
    /\ failed' = TRUE
    /\ UNCHANGED <<mlevel, mutex, open, file, op, lv, calls, stops, ghosts>>

NoFdatasync(t) == "unlock"          \* faulty: sync is a flush

AfterFlush(t) == IF op[t] = "sync" /\ Kind = "file" THEN "fdatasync" ELSE "unlock"

Flush(t) ==
    /\ pc[t] = "flush"
    /\ osEnd' = Len(stream)
    /\ Goto(t, AfterFlush(t))
    /\ UNCHANGED <<mlevel, mutex, open, stream, diskEnd, op, lv, calls, stops, ghosts, failed>>

FlushFails(t) ==
    /\ MayFail
    /\ pc[t] = "flush"
    /\ Goto(t, AfterFlush(t))
    /\ failed' = TRUE
    /\ UNCHANGED <<mlevel, mutex, open, file, op, lv, calls, stops, ghosts>>

(* fdatasync covers what the system has, whoever gave it that.             *)
Fdatasync(t) ==
    /\ pc[t] = "fdatasync"
    /\ diskEnd' = osEnd
    /\ Goto(t, "unlock")
    /\ UNCHANGED <<mlevel, mutex, open, stream, osEnd, op, lv, calls, stops, ghosts, failed>>

FdatasyncFails(t) ==
    /\ MayFail
    /\ pc[t] = "fdatasync"
    /\ Goto(t, "unlock")
    /\ failed' = TRUE
    /\ UNCHANGED <<mlevel, mutex, open, file, op, lv, calls, stops, ghosts>>

(* The call returns, and its caller may now count on what it asked for:    *)
(* a FATAL record is out of the process; after flush() so is every record  *)
(* whose append had returned before; after sync() they are on the device.  *)
Unlock(t) ==
    /\ pc[t] = "unlock"
    /\ mutex' = None
    /\ Goto(t, "idle")
    /\ returned' = IF op[t] = "append" THEN returned \cup {Record(t)} ELSE returned
    /\ flushedFor' = flushedFor \cup
           (IF op[t] # "append" THEN mark[t]
            ELSE IF lv[t] = FATAL THEN {Record(t)} ELSE {})
    /\ syncedFor' = IF op[t] = "sync" /\ Kind = "file" THEN syncedFor \cup mark[t] ELSE syncedFor
    /\ UNCHANGED <<mlevel, open, file, op, lv, calls, stops, mark, cuts, failed>>

-----------------------------------------------------------------------------
(* The life of the appender                                                *)

Quiet == \A t \in Threads : pc[t] = "idle"

(* The last shared_ptr goes.  A file is flushed and closed, as silently as *)
(* ever; a stdout appender leaves what std::cout still holds to std::cout. *)
Destroy ==
    /\ open
    /\ Quiet
    /\ open' = FALSE
    /\ IF Kind = "file"
       THEN osEnd' = Len(stream) /\ flushedFor' = flushedFor \cup returned
       ELSE UNCHANGED <<osEnd, flushedFor>>
    /\ UNCHANGED <<mlevel, mutex, stream, diskEnd, pc, op, lv, calls, stops, returned, mark,
                   syncedFor, cuts, failed>>

DestroyFails ==
    /\ MayFail
    /\ Kind = "file"
    /\ open
    /\ Quiet
    /\ open' = FALSE
    /\ stream' = SubSeq(stream, 1, osEnd)
    /\ cuts' = {c \in cuts : c < osEnd} \cup {osEnd}
    /\ failed' = TRUE
    /\ UNCHANGED <<mlevel, mutex, osEnd, diskEnd, pc, op, lv, calls, stops, returned, mark,
                   flushedFor, syncedFor>>

(* Faulty: the file is opened with "wb"; what was confirmed is gone.       *)
ReopenTruncating ==
    /\ ~open
    /\ open' = TRUE
    /\ mlevel' = DEBUG
    /\ stream' = <<>> /\ osEnd' = 0
    /\ UNCHANGED <<diskEnd, mutex, pc, op, lv, calls, stops, ghosts, failed>>

(* A new appender on the same file, or on std::cout: "ab" writes behind    *)
(* what is there, and the level is the default one again.                  *)
Reopen ==
    /\ ~open
    /\ open' = TRUE
    /\ mlevel' = DEBUG
    /\ UNCHANGED <<mutex, file, pc, op, lv, calls, stops, ghosts, failed>>

(* The file keeps its first n chunks, and every thread is gone.            *)
Stop(n) ==
    /\ stream' = SubSeq(stream, 1, n)
    /\ osEnd' = n
    /\ cuts' = {c \in cuts : c < n} \cup {n}
    /\ open' = FALSE
    /\ mutex' = None
    /\ pc' = [t \in Threads |-> "idle"]
    /\ returned' = {}
    /\ mark' = [t \in Threads |-> {}]
    /\ UNCHANGED <<mlevel, diskEnd, op, lv, calls, syncedFor, failed>>

(* The process dies: the system still has what it was given.               *)
Crash ==
    /\ crashes < MaxCrashes
    /\ crashes' = crashes + 1
    /\ Stop(osEnd)
    /\ UNCHANGED <<outages, flushedFor>>

(* The system dies: an append-only file keeps some prefix, at least what   *)
(* was confirmed.  Promises about the process are void.                    *)
PowerLoss ==
    /\ outages < MaxCrashes
    /\ outages' = outages + 1
    /\ \E n \in diskEnd..osEnd : Stop(n)
    /\ flushedFor' = syncedFor
    /\ UNCHANGED crashes

-----------------------------------------------------------------------------

Calls(t) == CallAppend(t) \/ CallDrain(t) \/ SetLevel(t)

Work(t) ==
    \/ Gate(t) \/ Lock(t) \/ Write(t) \/ WriteRest(t) \/ Flush(t) \/ Fdatasync(t) \/ Unlock(t)

Fail(t) == LockThrows(t) \/ WriteFails(t) \/ FlushFails(t) \/ FdatasyncFails(t)

Step(t) == Work(t) \/ Fail(t)

Life == Destroy \/ DestroyFails \/ Reopen \/ Crash \/ PowerLoss

(* The file is closed, or left alone.                                      *)
Rest == Quiet /\ UNCHANGED vars

Next == (\E t \in Threads : Calls(t) \/ Step(t)) \/ Life \/ Rest

Spec == Init /\ [][Next]_vars

-----------------------------------------------------------------------------
(* Properties                                                              *)

(* The record r is whole among the first n chunks of s.                    *)
WholeIn(s, r, n) ==
    \E i \in 1..n - 1 : /\ s[i] = [rec |-> r, part |-> 1]
                        /\ s[i + 1] = [rec |-> r, part |-> 2]

(* Whatever threads do at the same time, the records in the file are whole *)
(* and one behind the other; a record lacks its end only where a crash cut *)
(* the file, and there at most one, or while its writer is in fwrite.      *)
RecordsWhole ==
    ~failed =>
        \A i \in 1..Len(stream) :
            IF stream[i].part = 1
            THEN \/ i \in cuts
                 \/ i < Len(stream) /\ stream[i + 1] = [stream[i] EXCEPT !.part = 2]
                 \/ i = Len(stream) /\ \E t \in Threads : pc[t] = "rest" /\ stream[i].rec = Record(t)
            ELSE i > 1 /\ stream[i - 1] = [stream[i] EXCEPT !.part = 1]

(* What a returned call promised holds from then on, across crashes and    *)
(* restarts: a FATAL record, and what flush() or the destructor covered,   *)
(* is with the system and survives a crash of the process; what sync()     *)
(* covered is on the device and survives a power loss.  (Unless an         *)
(* operation on the file failed: the appender does not tell.)              *)
PromisesKept ==
    ~failed => /\ \A r \in flushedFor : WholeIn(stream, r, osEnd)
               /\ \A r \in syncedFor : WholeIn(stream, r, diskEnd)

(* The records that are whole among the first n chunks of s, in order.     *)
Ends(s, n) == n > 1 /\ s[n].part = 2 /\ s[n - 1] = [s[n] EXCEPT !.part = 1]

Lines(s) ==
    LET upto[n \in 0..Len(s)] ==
            IF n = 0 THEN <<>>
            ELSE IF Ends(s, n) THEN Append(upto[n - 1], s[n].rec) ELSE upto[n - 1]
    IN  upto

(* The abstract log: the whole records, in order, and how many of them     *)
(* have left the process and are confirmed by the device.                  *)
LogSink == [lines   |-> Lines(stream)[Len(stream)],
            flushed |-> Len(Lines(stream)[osEnd]),
            synced  |-> Len(Lines(stream)[diskEnd])]

(* What is left to do of a call.                                           *)
Phase(where) ==
    CASE where = "gate" -> "gate"
      [] where = "lock" -> "enter"
      [] where \in {"write", "rest"} -> "write"
      [] where = "flush" -> "flush"
      [] where = "fdatasync" -> "sync"
      [] where = "unlock" -> "return"

Job(t) ==
    IF pc[t] = "idle" THEN [phase |-> "idle"]
    ELSE [phase |-> Phase(pc[t]), op |-> op[t], rec |-> Record(t), level |-> lv[t]]

Jobs == [t \in Threads |-> Job(t)]

Log == INSTANCE AtomicLog WITH sink <- LogSink, threshold <- mlevel, job <- Jobs,
                               Device <- Kind = "file"

(* The chunks, the mutex and the stdio buffer implement a log on which     *)
(* each call acts at one moment: a record is in it whole and once before   *)
(* its append returns, a flush covers all that is in the log at that       *)
(* moment, a crash of the process keeps what was flushed and a power loss  *)
(* what was synced, and a new appender goes on behind it.  An operation on *)
(* the file that fails leaves a log that is late, or short of a record.    *)
AppendsToOneLog == Log!Spec

=============================================================================
