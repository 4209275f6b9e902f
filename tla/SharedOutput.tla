---------------------------- MODULE SharedOutput ----------------------------
(***************************************************************************)
(* Several appenders on one output, as a program gets them that makes a    *)
(* file appender twice for one name, or a stdout appender beside the one   *)
(* of the root logger.  Each has a mutex of its own.                       *)
(*                                                                         *)
(* File appenders have a stream each: what they give to the system ends up *)
(* at the end of the same file ("ab").  Stdout appenders have one stream,  *)
(* std::cout, which is stdio's stdout (sync_with_stdio); only the lock     *)
(* that stdio takes for each of its calls is common to them.  A record is  *)
(* two chunks, as in Appender; the level test, and the end of an appender, *)
(* are there.                                                              *)
(***************************************************************************)
EXTENDS Naturals, Sequences

CONSTANTS
    Threads, Appenders,
    Cout,           \* the stream of every stdout appender
    None,           \* nobody holds a lock
    MaxCalls,       \* bound: the calls of all threads
    MaxCrashes,     \* bound: crashes and power losses
    MayFail         \* whether mutex, stdio and fdatasync may fail

ASSUME SharedOutputAssumption ==
    /\ None \notin Threads /\ Cout \notin Appenders /\ Appenders # {}
    /\ MaxCalls \in Nat /\ MaxCrashes \in Nat
    /\ MayFail \in BOOLEAN

VARIABLES
    kind,           \* what the appenders are: "file" or "stdout"
    mutex,          \* per appender: the thread that holds Impl::m_mutex
    lock,           \* per stream: the thread that is in a stdio call on it
    buffer,         \* per stream: the chunks in stdio
    output,         \* the chunks the system has, in the order it got them
    diskEnd,        \* how many of them fdatasync has confirmed
    pc, call,       \* per thread: where it is, in which call
    calls, crashes, \* calls and crashes so far
    returned,       \* ghost: the records whose append has returned
    mark,           \* ghost, per thread: the records its call must cover
    flushedFor,     \* ghost: the records promised to be out of the process
    syncedFor,      \* ghost: the records promised to be on the device
    failed          \* ghost: stdio or fdatasync has failed

data   == <<buffer, output, diskEnd>>
ghosts == <<returned, mark, flushedFor, syncedFor>>
vars   == <<kind, mutex, lock, buffer, output, diskEnd, pc, call, calls, crashes,
            returned, mark, flushedFor, syncedFor, failed>>

Streams   == Appenders \cup {Cout}
Stream(a) == IF kind = "file" THEN a ELSE Cout

(* A record is known by its call and by the life of the process it is of.  *)
Records   == [nr : 1..MaxCalls, life : 0..MaxCrashes, via : Streams]
Chunks    == [rec : Records, part : {1, 2}]
Calls     == [op : {"append", "fatal", "flush", "sync"}, app : Appenders, nr : 0..MaxCalls]
Via(t)    == Stream(call[t].app)
Record(t) == [nr |-> call[t].nr, life |-> crashes, via |-> Via(t)]

TypeOK ==
    /\ kind \in {"file", "stdout"}
    /\ mutex \in [Appenders -> Threads \cup {None}]
    /\ lock \in [Streams -> Threads \cup {None}]
    /\ buffer \in [Streams -> Seq(Chunks)]
    /\ output \in Seq(Chunks)
    /\ diskEnd \in 0..Len(output)
    /\ pc \in [Threads -> {"idle", "lock", "write", "rest", "flush", "fdatasync", "unlock"}]
    /\ call \in [Threads -> Calls]
    /\ calls \in 0..MaxCalls
    /\ crashes \in 0..MaxCrashes
    /\ returned \subseteq Records /\ mark \in [Threads -> SUBSET Records]
    /\ flushedFor \subseteq Records /\ syncedFor \subseteq Records
    /\ failed \in BOOLEAN

-----------------------------------------------------------------------------

Init ==
    /\ kind \in {"file", "stdout"}
    /\ mutex = [a \in Appenders |-> None]
    /\ lock = [s \in Streams |-> None]
    /\ buffer = [s \in Streams |-> <<>>]
    /\ output = <<>> /\ diskEnd = 0
    /\ pc = [t \in Threads |-> "idle"]
    /\ call = [t \in Threads |-> [op |-> "flush", app |-> CHOOSE a \in Appenders : TRUE, nr |-> 0]]
    /\ calls = 0 /\ crashes = 0
    /\ returned = {}
    /\ mark = [t \in Threads |-> {}]
    /\ flushedFor = {} /\ syncedFor = {}
    /\ failed = FALSE

Goto(t, where) == pc' = [pc EXCEPT ![t] = where]

Appends(t) == call[t].op \in {"append", "fatal"}

(* A flush or a sync of an appender answers for the records of its stream. *)
Begin(t) ==
    /\ pc[t] = "idle"
    /\ calls < MaxCalls
    /\ calls' = calls + 1
    /\ \E c \in {d \in Calls : d.nr = calls'} :
           /\ call' = [call EXCEPT ![t] = c]
           /\ mark' = [mark EXCEPT ![t] = {r \in returned : r.via = Stream(c.app)}]
    /\ Goto(t, "lock")
    /\ UNCHANGED <<kind, mutex, lock, data, crashes, returned, flushedFor, syncedFor, failed>>

Lock(t) ==
    /\ pc[t] = "lock"
    /\ mutex[call[t].app] = None
    /\ mutex' = [mutex EXCEPT ![call[t].app] = t]
    /\ Goto(t, IF Appends(t) THEN "write" ELSE "flush")
    /\ UNCHANGED <<kind, lock, data, call, calls, crashes, ghosts, failed>>

(* Faulty: a FATAL record goes to the system at once, past stdio.          *)
PutDirect(t, part) ==
    LET s == Via(t)
        c == [rec |-> Record(t), part |-> part]
    IN  /\ UNCHANGED diskEnd
        /\ IF call[t].op = "fatal"
           THEN output' = Append(output, c) /\ UNCHANGED buffer
           ELSE buffer' = [buffer EXCEPT ![s] = Append(@, c)] /\ UNCHANGED output

(* stdio copies the record into its buffer; when that is full, what was in *)
(* it goes to the system, and what then goes directly.                     *)
Put(t, part) ==
    LET s    == Via(t)
        full == Append(buffer[s], [rec |-> Record(t), part |-> part])
    IN  \E n \in {0, Len(full) - 1, Len(full)} :
            /\ output' = output \o SubSeq(full, 1, n)
            /\ buffer' = [buffer EXCEPT ![s] = SubSeq(full, n + 1, Len(full))]
            /\ UNCHANGED diskEnd

NeverFlush(t) == "unlock"           \* faulty: FATAL is not special

AfterWrite(t) == IF call[t].op = "fatal" THEN "flush" ELSE "unlock"

(* Faulty: std::cout is no longer stdio's stdout, and has no lock.         *)
WriteUnsynced(t) ==
    /\ pc[t] = "write"
    /\ kind = "file" => lock[Via(t)] = None
    /\ lock' = [lock EXCEPT ![Via(t)] = t]
    /\ Put(t, 1)
    /\ Goto(t, "rest")
    /\ UNCHANGED <<kind, mutex, call, calls, crashes, ghosts, failed>>

Write(t) ==
    /\ pc[t] = "write"
    /\ lock[Via(t)] = None
    /\ lock' = [lock EXCEPT ![Via(t)] = t]
    /\ Put(t, 1)
    /\ Goto(t, "rest")
    /\ UNCHANGED <<kind, mutex, call, calls, crashes, ghosts, failed>>

WriteRest(t) ==
    /\ pc[t] = "rest"
    /\ lock' = [lock EXCEPT ![Via(t)] = None]
    /\ Put(t, 2)
    /\ Goto(t, AfterWrite(t))
    /\ UNCHANGED <<kind, mutex, call, calls, crashes, ghosts, failed>>

AfterFlush(t) == IF call[t].op = "sync" /\ kind = "file" THEN "fdatasync" ELSE "unlock"

Flush(t) ==
    /\ pc[t] = "flush"
    /\ lock[Via(t)] = None
    /\ output' = output \o buffer[Via(t)]
    /\ buffer' = [buffer EXCEPT ![Via(t)] = <<>>]
    /\ Goto(t, AfterFlush(t))
    /\ UNCHANGED <<kind, mutex, lock, diskEnd, call, calls, crashes, ghosts, failed>>

(* fdatasync is for the file, whichever stream its bytes came from.        *)
Fdatasync(t) ==
    /\ pc[t] = "fdatasync"
    /\ diskEnd' = Len(output)
    /\ Goto(t, "unlock")
    /\ UNCHANGED <<kind, mutex, lock, buffer, output, call, calls, crashes, ghosts, failed>>

Unlock(t) ==
    /\ pc[t] = "unlock"
    /\ mutex' = [mutex EXCEPT ![call[t].app] = None]
    /\ Goto(t, "idle")
    /\ returned' = IF Appends(t) THEN returned \cup {Record(t)} ELSE returned
    /\ flushedFor' = flushedFor \cup CASE call[t].op = "append" -> {}
                                       [] call[t].op = "fatal" -> {Record(t)}
                                       [] OTHER -> mark[t]
    /\ syncedFor' = IF call[t].op = "sync" /\ kind = "file" THEN syncedFor \cup mark[t] ELSE syncedFor
    /\ UNCHANGED <<kind, lock, data, call, calls, crashes, mark, failed>>

(* std::system_error: caught by append, thrown on by flush and sync.       *)
LockThrows(t) ==
    /\ pc[t] = "lock"
    /\ Goto(t, "idle")
    /\ UNCHANGED <<mutex, lock, failed>>

(* Faulty: the error is returned at once, with the mutex locked.           *)
StdioFailsLocked(t) ==
    /\ pc[t] \in {"write", "rest", "flush", "fdatasync"}
    /\ Goto(t, "idle")
    /\ lock' = [s \in Streams |-> IF lock[s] = t THEN None ELSE lock[s]]
    /\ failed' = TRUE
    /\ UNCHANGED mutex

(* What stdio or fdatasync could not do is not noticed: the call goes on.  *)
StdioFails(t) ==
    /\ pc[t] \in {"write", "rest", "flush", "fdatasync"}
    /\ Goto(t, CASE pc[t] \in {"write", "rest"} -> AfterWrite(t)
                 [] pc[t] = "flush"             -> AfterFlush(t)
                 [] OTHER                       -> "unlock")
    /\ lock' = [s \in Streams |-> IF lock[s] = t THEN None ELSE lock[s]]
    /\ failed' = TRUE
    /\ UNCHANGED mutex

Fail(t) ==
    /\ MayFail
    /\ LockThrows(t) \/ StdioFails(t)
    /\ UNCHANGED <<kind, data, call, calls, crashes, ghosts>>

(* The output keeps its first n chunks, what stdio had is gone, and a new  *)
(* process makes its appenders on the same output.                         *)
Stop(n) ==
    /\ crashes < MaxCrashes
    /\ crashes' = crashes + 1
    /\ output' = SubSeq(output, 1, n)
    /\ buffer' = [s \in Streams |-> <<>>]
    /\ mutex' = [a \in Appenders |-> None]
    /\ lock' = [s \in Streams |-> None]
    /\ pc' = [t \in Threads |-> "idle"]
    /\ returned' = {}
    /\ mark' = [t \in Threads |-> {}]
    /\ UNCHANGED <<kind, diskEnd, call, calls, syncedFor, failed>>

(* The process dies: the system still has what it was given.               *)
Crash == Stop(Len(output)) /\ UNCHANGED flushedFor

(* The system dies: a file keeps a prefix, at least what was confirmed.    *)
PowerLoss == kind = "file" /\ \E n \in diskEnd..Len(output) : Stop(n) /\ flushedFor' = syncedFor

-----------------------------------------------------------------------------

Work(t) == Lock(t) \/ Write(t) \/ WriteRest(t) \/ Flush(t) \/ Fdatasync(t) \/ Unlock(t)

Rest == (\A t \in Threads : pc[t] = "idle") /\ UNCHANGED vars

Next == (\E t \in Threads : Begin(t) \/ Work(t) \/ Fail(t)) \/ Crash \/ PowerLoss \/ Rest

(* A thread inside a call is scheduled again, unless the process dies;     *)
(* nothing has to fail.                                                    *)
Spec == Init /\ [][Next]_vars /\ \A t \in Threads : WF_vars(Work(t))

-----------------------------------------------------------------------------
(* Properties                                                              *)

(* What is in C of q, in order.                                            *)
Within(q, C) ==
    LET upto[n \in 0..Len(q)] ==
            IF n = 0 THEN <<>>
            ELSE IF q[n] \in C THEN Append(upto[n - 1], q[n]) ELSE upto[n - 1]
    IN  upto[Len(q)]

(* What stream s has been given, in the order in which a reader of the     *)
(* output gets it.                                                         *)
ChunksOf(s) == {c \in Chunks : c.rec.via = s}
Content(s)  == Within(output, ChunksOf(s)) \o buffer[s]

(* The records of one stream are whole and one behind the other, although  *)
(* two appenders may write to it under different mutexes; for std::cout    *)
(* that is all of the output.  A record lacks its end only while it is     *)
(* being written, or where a crash has ended the output: what follows is   *)
(* of a later life.                                                        *)
RecordsWhole ==
    ~failed => \A s \in Streams : LET q == Content(s) IN \A i \in DOMAIN q :
        IF q[i].part = 2
        THEN i > 1 /\ q[i - 1] = [q[i] EXCEPT !.part = 1]
        ELSE IF i < Len(q)
        THEN q[i + 1] = [q[i] EXCEPT !.part = 2] \/ q[i].rec.life < q[i + 1].rec.life
        ELSE q[i].rec.life < crashes \/ \E t \in Threads : pc[t] = "rest" /\ q[i].rec = Record(t)

(* Flushing one appender is a promise for the records of its stream: for   *)
(* all stdout appenders, but for no other appender on the same file.       *)
(* Syncing it puts these on the device.  Both survive what they should.    *)
PromisesKept ==
    ~failed =>
        /\ \A r \in flushedFor : \E i \in 1..Len(output) : output[i] = [rec |-> r, part |-> 2]
        /\ \A r \in syncedFor : \E i \in 1..diskEnd : output[i] = [rec |-> r, part |-> 2]

(* The log that stream s is: its whole records, in order, and how many of  *)
(* them are with the system and on the device.                             *)
Ends(s, q) == Within(q, {c \in ChunksOf(s) : c.part = 2})

SinkOf(s) ==
    LET ends == Ends(s, output \o buffer[s])
    IN  [lines   |-> [i \in 1..Len(ends) |-> ends[i].rec],
         flushed |-> Len(Ends(s, output)),
         synced  |-> Len(Ends(s, SubSeq(output, 1, diskEnd)))]

Log(s) == INSTANCE AppendLog WITH Line <- {r \in Records : r.via = s}, sink <- SinkOf(s)

(* However the appenders share the output, each stream is one log of whole *)
(* records: what another appender does to the same file can neither take   *)
(* from it nor reorder it; only a crash takes a tail, never a synced one.  *)
EachStreamIsOneLog ==
    /\ \A s \in Streams : Log(s)!Init
    /\ [][\A s \in Streams :
              \/ SinkOf(s)' = SinkOf(s)
              \/ IF crashes' = crashes THEN Log(s)!Keep ELSE Log(s)!Crash]_vars

(* Nobody waits for a mutex or for stdio's lock for ever, failed           *)
(* operations included.                                                    *)
CallsReturn == \A t \in Threads : pc[t] # "idle" ~> pc[t] = "idle"

=============================================================================
