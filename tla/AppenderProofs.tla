--------------------------- MODULE AppenderProofs ---------------------------
(***************************************************************************)
(* Proofs about Appender for any threads, calls, crashes and failures.     *)
(***************************************************************************)
EXTENDS Appender, WellFoundedInduction, TLAPS

(* The mutex and the program counters agree.                               *)
LockOK == \A t \in Threads : pc[t] \in Locked <=> mutex = t

(* Which calls get where.                                                  *)
FlowOK ==
    \A t \in Threads :
        /\ pc[t] \in {"gate", "write", "rest"} => op[t] = "append"
        /\ pc[t] = "fdatasync" => op[t] = "sync"
        /\ pc[t] # "idle" => mark[t] \subseteq returned

(* A writer in the middle of a record wrote the last chunk.                *)
WriterOK ==
    \A t \in Threads :
        pc[t] = "rest" => /\ Len(stream) >= 1
                          /\ stream[Len(stream)] = [rec |-> Record(t), part |-> 1]

LEMMA CutSeq ==
    ASSUME NEW S, NEW s \in Seq(S), NEW n \in 0..Len(s)
    PROVE  /\ SubSeq(s, 1, n) \in Seq(S) /\ Len(SubSeq(s, 1, n)) = n
           /\ \A i \in 1..n : SubSeq(s, 1, n)[i] = s[i]
OBVIOUS

LEMMA TypeInit == Init => TypeOK
<1> SUFFICES ASSUME Init PROVE TypeOK
  OBVIOUS
<1>1. /\ <<>> \in Seq(Chunk) /\ Len(<<>>) = 0 /\ DEBUG \in Level
      /\ 0 \in 0..MaxCalls /\ 0 \in 0..MaxCrashes
  BY AppenderAssumption DEF DEBUG, Level, OFF
<1>2. /\ stream \in Seq(Chunk) /\ osEnd \in 0..Len(stream) /\ diskEnd \in 0..osEnd
      /\ calls \in [Threads -> 0..MaxCalls]
      /\ crashes \in 0..MaxCrashes /\ outages \in 0..MaxCrashes
  BY <1>1 DEF Init
<1>3. mlevel \in Level /\ lv \in [Threads -> Level]
  BY <1>1 DEF Init
<1> QED
  BY <1>2, <1>3 DEF Init, TypeOK

LEMMA BeginType ==
    ASSUME TypeOK, NEW t \in Threads, NEW o \in {"append", "flush", "sync"}, NEW level \in Level,
           NEW where \in {"idle", "gate", "lock"}, Begin(t, o, level, where), mlevel' \in Level
    PROVE  TypeOK'
<1>1. calls' \in [Threads -> 0..MaxCalls]
  <2>1. calls[t] + 1 \in 0..MaxCalls
    BY AppenderAssumption DEF TypeOK, Begin
  <2> QED
    BY <2>1 DEF TypeOK, Begin
<1>2. /\ pc' \in [Threads -> {"idle", "gate", "lock"} \cup Locked]
      /\ op' \in [Threads -> {"append", "flush", "sync"}]
      /\ lv' \in [Threads -> Level]
      /\ mark' \in [Threads -> SUBSET Records]
  BY DEF TypeOK, Begin, Goto
<1> QED
  BY <1>1, <1>2 DEF TypeOK, Begin, file, stops

LEMMA TypeStep == ASSUME TypeOK, [Next]_vars PROVE TypeOK'
<1> USE AppenderAssumption DEF Goto, file, stops, ghosts, Locked
<1>0. DEBUG \in Level
  BY DEF Level, DEBUG, OFF
<1>1. ASSUME NEW t \in Threads, Calls(t) PROVE TypeOK'
  <2>1. mlevel' \in Level
    BY <1>1 DEF Calls, CallAppend, CallDrain, SetLevel, TypeOK
  <2>2. \E o \in {"append", "flush", "sync"}, level \in Level, where \in {"idle", "gate", "lock"} :
           Begin(t, o, level, where)
    BY <1>0, <1>1 DEF Calls, CallAppend, CallDrain, SetLevel
  <2> QED
    BY <2>1, <2>2, BeginType
<1>2. ASSUME NEW t \in Threads, Step(t) PROVE TypeOK'
  <2>1. CASE Gate(t) \/ Lock(t) \/ LockThrows(t)
    BY <2>1 DEF Gate, Lock, LockThrows, TypeOK
  <2>2. CASE Write(t) \/ WriteRest(t)
    <3>1. PICK part \in {1, 2} : Put(t, part)
      BY <2>2 DEF Write, WriteRest
    <3>2. [rec |-> Record(t), part |-> part] \in Chunk
      BY DEF Chunk, Record, Records, TypeOK
    <3>3. stream' \in Seq(Chunk) /\ osEnd' \in 0..Len(stream') /\ diskEnd' \in 0..osEnd'
      BY <3>1, <3>2 DEF Put, TypeOK
    <3> QED
      BY <2>2, <3>3 DEF Write, WriteRest, AfterWrite, TypeOK
  <2>3. CASE WriteFails(t)
    BY <2>3 DEF WriteFails, AfterWrite, TypeOK
  <2>4. CASE Flush(t) \/ FlushFails(t)
    <3>1. Len(stream) \in Nat /\ osEnd' \in 0..Len(stream) /\ diskEnd \in 0..osEnd'
      BY <2>4 DEF Flush, FlushFails, TypeOK
    <3>2. pc' \in [Threads -> {"idle", "gate", "lock"} \cup Locked]
      BY <2>4 DEF Flush, FlushFails, AfterFlush, TypeOK
    <3> QED
      BY <2>4, <3>1, <3>2 DEF Flush, FlushFails, TypeOK
  <2>5. CASE Fdatasync(t) \/ FdatasyncFails(t)
    <3>1. osEnd' \in 0..Len(stream') /\ diskEnd' \in 0..osEnd'
      BY <2>5 DEF Fdatasync, FdatasyncFails, TypeOK
    <3>2. pc' \in [Threads -> {"idle", "gate", "lock"} \cup Locked]
      BY <2>5 DEF Fdatasync, FdatasyncFails, TypeOK
    <3> QED
      BY <2>5, <3>1, <3>2 DEF Fdatasync, FdatasyncFails, TypeOK
  <2>6. CASE Unlock(t)
    <3>1. Record(t) \in Records
      BY DEF Record, Records, TypeOK
    <3> QED
      BY <2>6, <3>1 DEF Unlock, TypeOK
  <2> QED
    BY <1>2, <2>1, <2>2, <2>3, <2>4, <2>5, <2>6 DEF Step, Work, Fail
<1>3. CASE Destroy \/ Reopen
  <2>1. Len(stream) \in Nat /\ Len(stream) \in 0..Len(stream) /\ diskEnd \in 0..Len(stream)
    BY DEF TypeOK
  <2>2. CASE Destroy
    BY <2>1, <2>2 DEF Destroy, TypeOK
  <2>3. CASE Reopen
    BY <1>0, <2>3 DEF Reopen, TypeOK
  <2> QED
    BY <1>3, <2>2, <2>3
<1>4. CASE DestroyFails
  <2>1. SubSeq(stream, 1, osEnd) \in Seq(Chunk) /\ Len(SubSeq(stream, 1, osEnd)) = osEnd
    BY CutSeq DEF TypeOK
  <2>2. stream' \in Seq(Chunk) /\ osEnd' \in 0..Len(stream') /\ diskEnd' \in 0..osEnd'
    BY <1>4, <2>1 DEF DestroyFails, TypeOK
  <2>3. cuts' \subseteq Nat /\ failed' \in {FALSE, MayFail}
    <3>1. osEnd \in Nat /\ cuts \subseteq Nat
      BY DEF TypeOK
    <3>2. cuts' = {c \in cuts : c < osEnd} \cup {osEnd} /\ failed' = TRUE /\ MayFail = TRUE
      BY <1>4 DEF DestroyFails
    <3> QED
      BY <3>1, <3>2
  <2>4. /\ open' \in BOOLEAN
        /\ UNCHANGED <<mlevel, mutex, pc, op, lv, calls, stops, returned, mark, flushedFor, syncedFor>>
    BY <1>4 DEF DestroyFails
  <2> QED
    BY <2>2, <2>3, <2>4 DEF TypeOK
<1>5. ASSUME NEW n \in diskEnd..osEnd, Stop(n), flushedFor' \in {flushedFor, syncedFor},
             crashes' \in 0..MaxCrashes, outages' \in 0..MaxCrashes
      PROVE  TypeOK'
  <2>1. /\ SubSeq(stream, 1, n) \in Seq(Chunk) /\ Len(SubSeq(stream, 1, n)) = n /\ n \in Nat
        /\ diskEnd \in 0..n
    BY <1>5, CutSeq DEF TypeOK
  <2>2. mark' \in [Threads -> SUBSET Records] /\ returned' \subseteq Records
    BY <1>5 DEF Stop
  <2>3. stream' \in Seq(Chunk) /\ osEnd' \in 0..Len(stream') /\ diskEnd' \in 0..osEnd'
    BY <1>5, <2>1 DEF Stop
  <2>4. cuts' \subseteq Nat
    BY <1>5, <2>1 DEF Stop, TypeOK
  <2> QED
    BY <1>5, <2>2, <2>3, <2>4 DEF Stop, TypeOK
<1>6. CASE Crash \/ PowerLoss
  <2>1. osEnd \in diskEnd..osEnd
    BY DEF TypeOK
  <2>2. crashes' \in 0..MaxCrashes /\ outages' \in 0..MaxCrashes
    BY <1>6 DEF Crash, PowerLoss, TypeOK
  <2> QED
    BY <1>5, <1>6, <2>1, <2>2 DEF Crash, PowerLoss
<1>7. CASE UNCHANGED vars
  BY <1>7 DEF vars, TypeOK
<1> QED
  BY <1>1, <1>2, <1>3, <1>4, <1>6, <1>7 DEF Next, Life, Rest

LEMMA LockStep == ASSUME TypeOK, LockOK, [Next]_vars PROVE LockOK'
<1> USE AppenderAssumption DEF Goto, file, stops, ghosts, Locked
<1>1. ASSUME NEW t \in Threads, Calls(t) PROVE LockOK'
  BY <1>1 DEF Calls, CallAppend, CallDrain, SetLevel, Begin, TypeOK, LockOK
<1>2. ASSUME NEW t \in Threads, Step(t) PROVE LockOK'
  <2>1. CASE Gate(t) \/ Lock(t) \/ LockThrows(t)
    BY <2>1 DEF Gate, Lock, LockThrows, TypeOK, LockOK
  <2>2. CASE Write(t) \/ WriteRest(t)
    BY <2>2 DEF Write, WriteRest, AfterWrite, TypeOK, LockOK
  <2>3. CASE WriteFails(t)
    BY <2>3 DEF WriteFails, AfterWrite, TypeOK, LockOK
  <2>4. CASE Flush(t) \/ FlushFails(t)
    BY <2>4 DEF Flush, FlushFails, AfterFlush, TypeOK, LockOK
  <2>5. CASE Fdatasync(t) \/ FdatasyncFails(t)
    BY <2>5 DEF Fdatasync, FdatasyncFails, TypeOK, LockOK
  <2>6. CASE Unlock(t)
    BY <2>6 DEF Unlock, TypeOK, LockOK
  <2> QED
    BY <1>2, <2>1, <2>2, <2>3, <2>4, <2>5, <2>6 DEF Step, Work, Fail
<1>3. CASE Destroy \/ Reopen
  BY <1>3 DEF Destroy, Reopen, TypeOK, LockOK
<1>4. CASE DestroyFails
  BY <1>4 DEF DestroyFails, LockOK
<1>6. CASE Crash \/ PowerLoss
  BY <1>6 DEF Crash, PowerLoss, Stop, TypeOK, LockOK
<1>7. CASE UNCHANGED vars
  BY <1>7 DEF vars, LockOK
<1> QED
  BY <1>1, <1>2, <1>3, <1>4, <1>6, <1>7 DEF Next, Life, Rest

LEMMA FlowStep == ASSUME TypeOK, LockOK, FlowOK, [Next]_vars PROVE FlowOK'
<1> USE AppenderAssumption DEF Goto, file, stops, ghosts, Locked
<1>1. ASSUME NEW t \in Threads, Calls(t) PROVE FlowOK'
  <2>1. ASSUME NEW o, NEW level, NEW where \in {"gate", "lock", "idle"}, Begin(t, o, level, where),
               where = "gate" => o = "append"
        PROVE  FlowOK'
    <3>1. pc'[t] = where /\ op'[t] = o /\ mark'[t] = returned /\ returned' = returned
      BY <2>1 DEF Begin, TypeOK
    <3>2. \A u \in Threads \ {t} : pc'[u] = pc[u] /\ op'[u] = op[u] /\ mark'[u] = mark[u]
      BY <2>1 DEF Begin, TypeOK
    <3> QED
      BY <2>1, <3>1, <3>2 DEF FlowOK
  <2> QED
    BY <1>1, <2>1 DEF Calls, CallAppend, CallDrain, SetLevel
<1>2. ASSUME NEW t \in Threads, Step(t) PROVE FlowOK'
  <2>1. CASE Gate(t) \/ Lock(t) \/ LockThrows(t)
    BY <2>1 DEF Gate, Lock, LockThrows, TypeOK, FlowOK
  <2>2. CASE Write(t) \/ WriteRest(t) \/ WriteFails(t)
    BY <2>2 DEF Write, WriteRest, WriteFails, AfterWrite, TypeOK, FlowOK
  <2>4. CASE Flush(t) \/ FlushFails(t)
    BY <2>4 DEF Flush, FlushFails, AfterFlush, TypeOK, FlowOK
  <2>5. CASE Fdatasync(t) \/ FdatasyncFails(t) \/ Unlock(t)
    BY <2>5 DEF Fdatasync, FdatasyncFails, Unlock, TypeOK, FlowOK
  <2> QED
    BY <1>2, <2>1, <2>2, <2>4, <2>5 DEF Step, Work, Fail
<1>3. CASE Life
  BY <1>3 DEF Life, Destroy, DestroyFails, Reopen, Crash, PowerLoss, Stop, TypeOK, FlowOK
<1>4. CASE UNCHANGED vars
  BY <1>4 DEF vars, FlowOK
<1> QED
  BY <1>1, <1>2, <1>3, <1>4 DEF Next, Rest

(* Nobody else writes while a writer is in the middle of a record.         *)
LEMMA WriterStep == ASSUME TypeOK, LockOK, WriterOK, [Next]_vars PROVE WriterOK'
<1> USE AppenderAssumption DEF Goto, file, stops, ghosts
<1>1. ASSUME stream' = stream,
             \A u \in Threads : pc'[u] = "rest" => pc[u] = "rest" /\ calls'[u] = calls[u]
      PROVE  WriterOK'
  BY <1>1 DEF WriterOK, Record
<1>2. ASSUME NEW t \in Threads, Calls(t) PROVE WriterOK'
  <2>1. stream' = stream /\ \A u \in Threads : pc'[u] = "rest" => pc[u] = "rest" /\ calls'[u] = calls[u]
    BY <1>2 DEF Calls, CallAppend, CallDrain, SetLevel, Begin, TypeOK
  <2> QED
    BY <1>1, <2>1
<1>3. ASSUME NEW t \in Threads, Step(t) PROVE WriterOK'
  <2>1. CASE Write(t)
    <3>1. stream' = Append(stream, [rec |-> Record(t), part |-> 1]) /\ stream \in Seq(Chunk)
      BY <2>1 DEF Write, Put, TypeOK
    <3>2. Len(stream') >= 1 /\ stream'[Len(stream')] = [rec |-> Record(t), part |-> 1]
      BY <3>1
    <3>3. \A u \in Threads : pc'[u] = "rest" => u = t
      BY <2>1 DEF Write, TypeOK, LockOK, Locked
    <3>4. Record(t)' = Record(t)
      BY <2>1 DEF Write, Record
    <3> QED
      BY <3>2, <3>3, <3>4 DEF WriterOK
  <2>2. CASE WriteRest(t)
    <3>1. \A u \in Threads : pc'[u] # "rest"
      BY <2>2 DEF WriteRest, AfterWrite, TypeOK, LockOK, Locked
    <3> QED
      BY <3>1 DEF WriterOK
  <2>3. CASE ~(Write(t) \/ WriteRest(t))
    <3>1. /\ stream' = stream /\ calls' = calls /\ pc'[t] # "rest"
          /\ \A u \in Threads \ {t} : pc'[u] = pc[u]
      BY <1>3, <2>3 DEF Step, Work, Fail, Gate, Lock, Flush, Fdatasync, Unlock, LockThrows,
           WriteFails, FlushFails, FdatasyncFails, AfterWrite, AfterFlush, TypeOK
    <3> QED
      BY <1>1, <3>1
  <2> QED
    BY <2>1, <2>2, <2>3
<1>4. CASE Destroy \/ Reopen
  BY <1>1, <1>4 DEF Destroy, Reopen
<1>5. CASE DestroyFails \/ Crash \/ PowerLoss
  <2>1. \A u \in Threads : pc'[u] # "rest"
    BY <1>5 DEF DestroyFails, Quiet, Crash, PowerLoss, Stop
  <2> QED
    BY <2>1 DEF WriterOK
<1>6. CASE UNCHANGED vars
  BY <1>1, <1>6 DEF vars
<1> QED
  BY <1>2, <1>3, <1>4, <1>5, <1>6 DEF Next, Life, Rest

-----------------------------------------------------------------------------
(* The promises                                                            *)

(* What makes the promises true by the time they are made: a returned      *)
(* record is whole in the stream, and a call about to return has seen to   *)
(* what it is about to promise.                                            *)
Ready(t) ==
    /\ op[t] = "append" /\ pc[t] \in {"flush", "unlock"} =>
         WholeIn(stream, Record(t), Len(stream))
    /\ op[t] = "append" /\ lv[t] = FATAL /\ pc[t] = "unlock" =>
         WholeIn(stream, Record(t), osEnd)
    /\ op[t] # "append" /\ pc[t] \in {"fdatasync", "unlock"} =>
         \A r \in mark[t] : WholeIn(stream, r, osEnd)
    /\ op[t] = "sync" /\ Kind = "file" /\ pc[t] = "unlock" =>
         \A r \in mark[t] : WholeIn(stream, r, diskEnd)

PromiseOK ==
    ~failed => /\ \A r \in flushedFor : WholeIn(stream, r, osEnd)
               /\ \A r \in syncedFor : WholeIn(stream, r, diskEnd)
               /\ \A r \in returned : WholeIn(stream, r, Len(stream))
               /\ \A t \in Threads : Ready(t)

(* A record that is whole stays so where the chunks stay.                  *)
LEMMA WholeStays ==
    ASSUME NEW s, NEW s2, NEW r, NEW n \in Nat, NEW m \in Nat, n <= m,
           \A i \in 1..n : s2[i] = s[i], WholeIn(s, r, n)
    PROVE  WholeIn(s2, r, m)
<1>1. PICK i \in 1..n - 1 : s[i] = [rec |-> r, part |-> 1] /\ s[i + 1] = [rec |-> r, part |-> 2]
  BY DEF WholeIn
<1>2. i \in 1..m - 1 /\ i \in 1..n /\ i + 1 \in 1..n
  OBVIOUS
<1> QED
  BY <1>1, <1>2 DEF WholeIn

Base == TypeOK /\ LockOK /\ FlowOK /\ WriterOK

(* No chunk changes: the ends may advance, and one thread moves.           *)
LEMMA PromiseSameStream ==
    ASSUME Base, Base', PromiseOK, ~failed', ~failed, stream' = stream,
           osEnd <= osEnd', diskEnd <= diskEnd',
           \A r \in flushedFor' : r \in flushedFor \/ WholeIn(stream, r, osEnd'),
           \A r \in syncedFor' : r \in syncedFor \/ WholeIn(stream, r, diskEnd'),
           \A r \in returned' : r \in returned \/ WholeIn(stream, r, Len(stream)),
           NEW t, Ready(t)',
           \A u \in Threads \ {t} :
              pc'[u] = pc[u] /\ op'[u] = op[u] /\ lv'[u] = lv[u] /\ calls'[u] = calls[u]
              /\ mark'[u] = mark[u]
    PROVE  PromiseOK'
<1>1. osEnd \in Nat /\ osEnd' \in Nat /\ diskEnd \in Nat /\ diskEnd' \in Nat
  BY DEF Base, TypeOK
<1>2. \A r : WholeIn(stream, r, osEnd) => WholeIn(stream, r, osEnd')
  BY <1>1, WholeStays
<1>3. \A r : WholeIn(stream, r, diskEnd) => WholeIn(stream, r, diskEnd')
  BY <1>1, WholeStays
<1>4. ASSUME NEW u \in Threads \ {t} PROVE Ready(u)'
  BY <1>2, <1>3 DEF PromiseOK, Ready, Record
<1> QED
  BY <1>2, <1>3, <1>4 DEF PromiseOK

(* A step that leaves the file and the promises alone, and takes a thread  *)
(* to a place where it has nothing to show.                                *)
LEMMA PromiseIdle ==
    ASSUME Base, Base', PromiseOK, ~failed', ~failed, NEW t \in Threads, UNCHANGED file,
           UNCHANGED <<returned, flushedFor, syncedFor>>,
           pc'[t] \in {"idle", "gate", "lock", "write"} \/ (pc'[t] = "flush" /\ op'[t] # "append"),
           \A u \in Threads \ {t} :
              pc'[u] = pc[u] /\ op'[u] = op[u] /\ lv'[u] = lv[u] /\ calls'[u] = calls[u]
              /\ mark'[u] = mark[u]
    PROVE  PromiseOK'
<1>1. Ready(t)'
  BY DEF Ready
<1>2. osEnd <= osEnd' /\ diskEnd <= diskEnd' /\ stream' = stream
  BY DEF file, Base, TypeOK
<1> QED
  BY <1>1, <1>2, PromiseSameStream

LEMMA PromiseCalls ==
    ASSUME Base, Base', PromiseOK, ~failed', NEW t \in Threads, Calls(t)
    PROVE  PromiseOK'
<1>1. \E o, level, where : Begin(t, o, level, where) /\ where \in {"idle", "gate", "lock"}
  BY DEF Calls, CallAppend, CallDrain, SetLevel
<1>2. PICK o, level, where : Begin(t, o, level, where) /\ where \in {"idle", "gate", "lock"}
  BY <1>1
<1>3. /\ ~failed /\ UNCHANGED file /\ UNCHANGED <<returned, flushedFor, syncedFor>>
      /\ pc'[t] \in {"idle", "gate", "lock", "write"}
      /\ \A u \in Threads \ {t} :
            pc'[u] = pc[u] /\ op'[u] = op[u] /\ lv'[u] = lv[u] /\ calls'[u] = calls[u]
            /\ mark'[u] = mark[u]
  BY <1>2 DEF Begin, Goto, Base, TypeOK
<1>4. pc'[t] \in {"idle", "gate", "lock", "write"} \/ (pc'[t] = "flush" /\ op'[t] # "append")
  BY <1>3
<1> QED
  BY <1>3, <1>4, PromiseIdle

LEMMA PromiseGate ==
    ASSUME Base, Base', PromiseOK, ~failed', NEW t \in Threads, Gate(t) \/ Lock(t) \/ LockThrows(t)
    PROVE  PromiseOK'
<1>1. /\ ~failed /\ UNCHANGED file /\ UNCHANGED <<returned, flushedFor, syncedFor>>
      /\ UNCHANGED <<op, lv, calls, mark>>
      /\ \A u \in Threads \ {t} : pc'[u] = pc[u]
  BY DEF Gate, Lock, LockThrows, Goto, stops, ghosts, Base, TypeOK
<1>2. pc'[t] \in {"idle", "gate", "lock", "write"} \/ (pc'[t] = "flush" /\ op'[t] # "append")
  <2>1. CASE Gate(t) \/ LockThrows(t)
    BY <2>1 DEF Gate, LockThrows, Goto, Base, TypeOK
  <2>2. CASE Lock(t)
    <3>1. pc'[t] = IF op[t] = "append" THEN "write" ELSE "flush"
      BY <2>2 DEF Lock, Goto, Base, TypeOK
    <3> QED
      BY <1>1, <3>1
  <2> QED
    BY <2>1, <2>2
<1> QED
  BY <1>1, <1>2, PromiseIdle

(* A write is behind everything promised, and every other thread is        *)
(* outside the mutex.                                                      *)
LEMMA PromiseWrite ==
    ASSUME Base, Base', PromiseOK, ~failed', NEW t \in Threads, Write(t) \/ WriteRest(t)
    PROVE  PromiseOK'
<1> USE DEF Base
<1>1. PICK part \in {1, 2} : Put(t, part)
  BY DEF Write, WriteRest
<1>2. /\ ~failed /\ UNCHANGED <<returned, flushedFor, syncedFor, op, lv, calls, mark, mutex>>
      /\ mutex = t
  BY AppenderAssumption DEF Write, WriteRest, stops, ghosts, LockOK, Locked
<1>3. /\ Len(stream') = Len(stream) + 1 /\ Len(stream) \in Nat
      /\ \A i \in 1..Len(stream) : stream'[i] = stream[i]
      /\ stream'[Len(stream) + 1] = [rec |-> Record(t), part |-> part]
  BY <1>1 DEF Put, TypeOK
<1>4. osEnd \in Nat /\ osEnd' \in Nat /\ osEnd <= osEnd' /\ osEnd <= Len(stream)
      /\ diskEnd \in Nat /\ diskEnd' = diskEnd /\ diskEnd <= Len(stream)
  BY <1>1, <1>3 DEF Put, TypeOK
<1>5. \A r : WholeIn(stream, r, osEnd) => WholeIn(stream', r, osEnd')
  BY <1>3, <1>4, WholeStays
<1>6. \A r : WholeIn(stream, r, diskEnd) => WholeIn(stream', r, diskEnd')
  <2>1. diskEnd \in 0..Len(stream) /\ diskEnd' \in Nat /\ diskEnd <= diskEnd'
    BY <1>4
  <2>2. \A i \in 1..diskEnd : stream'[i] = stream[i]
    BY <1>3, <2>1
  <2> QED
    BY <2>1, <2>2, WholeStays
<1>7. \A r : WholeIn(stream, r, Len(stream)) => WholeIn(stream', r, Len(stream'))
  BY <1>3, WholeStays
<1>8. ASSUME NEW u \in Threads \ {t} PROVE Ready(u)'
  <2>1. mutex' # u
    BY <1>2, <1>8
  <2>2. pc'[u] \notin Locked
    BY <1>8, <2>1 DEF LockOK
  <2> QED
    BY <2>2 DEF Ready, Locked
<1>9. Ready(t)'
  <2>1. op[t] = "append"
    BY DEF Write, WriteRest, FlowOK
  <2>2. CASE Write(t)
    <3>1. part = 1
      BY <1>1, <1>3, <2>2 DEF Write, Put
    <3>2. pc'[t] = "rest"
      BY <2>2 DEF Write, Goto, TypeOK
    <3> QED
      BY <1>2, <1>3, <3>1, <3>2, <2>1 DEF Ready, Record
  <2>3. CASE WriteRest(t)
    <3>1. part = 2
      BY <1>1, <1>3, <2>3 DEF WriteRest, Put
    <3>2. pc'[t] = AfterWrite(t)
      BY <2>3 DEF WriteRest, Goto, TypeOK
    <3>3. Len(stream) >= 1 /\ stream[Len(stream)] = [rec |-> Record(t), part |-> 1]
      BY <2>3 DEF WriteRest, WriterOK
    <3>4. WholeIn(stream', Record(t), Len(stream'))
      BY <1>3, <3>1, <3>3 DEF WholeIn
    <3>5. Record(t)' = Record(t)
      BY <1>2 DEF Record
    <3> QED
      BY <1>2, <2>1, <3>2, <3>4, <3>5 DEF Ready, AfterWrite
  <2> QED
    BY <2>2, <2>3
<1>10. \A u \in Threads : Ready(u)'
  BY <1>8, <1>9
<1> QED
  BY <1>2, <1>5, <1>6, <1>7, <1>10 DEF PromiseOK

LEMMA PromiseDrain ==
    ASSUME Base, Base', PromiseOK, ~failed', NEW t \in Threads,
           Flush(t) \/ Fdatasync(t)
    PROVE  PromiseOK'
<1> USE DEF Base
<1>1. /\ ~failed /\ stream' = stream /\ osEnd <= osEnd' /\ diskEnd <= diskEnd'
      /\ UNCHANGED <<returned, flushedFor, syncedFor, op, lv, calls, mark>>
      /\ \A u \in Threads \ {t} : pc'[u] = pc[u]
  BY DEF Flush, Fdatasync, Goto, stops, ghosts, TypeOK, LockOK
<1>2. Record(t)' = Record(t)
  BY <1>1 DEF Record
<1>3. mark[t] \subseteq returned
  BY DEF Flush, Fdatasync, FlowOK
<1>4. Ready(t)'
  <2>1. CASE Flush(t)
    <3>1. pc'[t] = AfterFlush(t) /\ osEnd' = Len(stream)
      BY <2>1 DEF Flush, Goto, TypeOK
    <3>2. \A r \in mark[t] : WholeIn(stream, r, osEnd')
      BY <1>1, <1>3, <3>1 DEF PromiseOK
    <3>3. op[t] = "append" => WholeIn(stream, Record(t), Len(stream))
      BY <1>1, <2>1 DEF Flush, PromiseOK, Ready
    <3>4. pc'[t] \in {"fdatasync", "unlock"} /\ ~(op[t] = "sync" /\ Kind = "file" /\ pc'[t] = "unlock")
      BY <3>1 DEF AfterFlush
    <3> QED
      BY <1>1, <1>2, <3>1, <3>2, <3>3, <3>4 DEF Ready
  <2>2. CASE Fdatasync(t)
    <3>1. pc'[t] = "unlock" /\ diskEnd' = osEnd /\ osEnd' = osEnd /\ op[t] = "sync"
      BY <2>2 DEF Fdatasync, Goto, TypeOK, FlowOK
    <3>2. \A r \in mark[t] : WholeIn(stream, r, osEnd)
      BY <1>1, <2>2, <3>1 DEF Fdatasync, PromiseOK, Ready
    <3> QED
      BY <1>1, <3>1, <3>2 DEF Ready
  <2> QED
    BY <2>1, <2>2
<1> QED
  BY <1>1, <1>4, PromiseSameStream

(* What a call promises, Ready has shown.                                  *)
LEMMA PromiseUnlock ==
    ASSUME Base, Base', PromiseOK, ~failed', NEW t \in Threads, Unlock(t)
    PROVE  PromiseOK'
<1> USE DEF Base
<1>1. /\ ~failed /\ UNCHANGED file /\ UNCHANGED <<op, lv, calls, mark>>
      /\ \A u \in Threads \ {t} : pc'[u] = pc[u]
      /\ pc'[t] = "idle"
  BY DEF Unlock, Goto, TypeOK
<1>2. Ready(t) /\ Ready(t)' /\ pc[t] = "unlock"
  BY <1>1 DEF Unlock, PromiseOK, Ready
<1>3. \A r \in flushedFor' : r \in flushedFor \/ WholeIn(stream, r, osEnd')
  BY <1>1, <1>2 DEF Unlock, Ready, file
<1>4. \A r \in syncedFor' : r \in syncedFor \/ WholeIn(stream, r, diskEnd')
  BY <1>1, <1>2 DEF Unlock, Ready, file
<1>5. \A r \in returned' : r \in returned \/ WholeIn(stream, r, Len(stream))
  BY <1>1, <1>2 DEF Unlock, Ready, file
<1>6. osEnd <= osEnd' /\ diskEnd <= diskEnd' /\ stream' = stream
  BY <1>1 DEF file, TypeOK
<1> QED
  BY <1>1, <1>2, <1>3, <1>4, <1>5, <1>6, PromiseSameStream

(* A crash keeps what the system has, a power loss what the device has.    *)
LEMMA PromiseLife ==
    ASSUME Base, Base', PromiseOK, ~failed', Life
    PROVE  PromiseOK'
<1> USE DEF Base
<1>0. /\ Len(stream) \in Nat /\ osEnd \in Nat /\ diskEnd \in Nat
      /\ osEnd <= Len(stream) /\ diskEnd <= osEnd
  BY DEF TypeOK
<1>1. CASE Destroy
  <2>1. ~failed /\ UNCHANGED <<stream, diskEnd, pc, op, lv, calls, returned, mark, syncedFor>>
    BY <1>1 DEF Destroy
  <2>2. \A u \in Threads : Ready(u)'
    BY <1>1, <2>1 DEF Destroy, Quiet, Ready
  <2>3. \A r : WholeIn(stream, r, osEnd) => WholeIn(stream, r, Len(stream))
    BY <1>0, WholeStays
  <2>4. \A r \in flushedFor' : WholeIn(stream, r, osEnd')
    BY <1>1, <2>1, <2>3 DEF Destroy, PromiseOK
  <2> QED
    BY <2>1, <2>2, <2>4 DEF PromiseOK
<1>2. CASE DestroyFails
  BY <1>2 DEF DestroyFails
<1>3. CASE Reopen
  BY <1>3 DEF Reopen, file, stops, ghosts, PromiseOK, Ready, Record
<1>4. ASSUME NEW n \in diskEnd..osEnd, Stop(n),
             \A r \in flushedFor' : WholeIn(stream, r, n)
      PROVE  PromiseOK'
  <2>1. ~failed /\ returned' = {} /\ syncedFor' = syncedFor /\ osEnd' = n /\ diskEnd' = diskEnd
        /\ stream' = SubSeq(stream, 1, n)
    BY <1>4 DEF Stop
  <2>2. \A i \in 1..n : stream'[i] = stream[i]
    BY <1>0, <1>4, <2>1, CutSeq DEF TypeOK
  <2>3. \A r : WholeIn(stream, r, n) => WholeIn(stream', r, n)
    BY <1>0, <1>4, <2>2, WholeStays
  <2>4. \A r : WholeIn(stream, r, diskEnd) => WholeIn(stream', r, diskEnd)
    BY <1>0, <1>4, <2>2, WholeStays
  <2>5. \A u \in Threads : Ready(u)'
    BY <1>4 DEF Stop, Ready
  <2> QED
    BY <1>4, <2>1, <2>3, <2>4, <2>5 DEF PromiseOK
<1>5. CASE Crash
  <2>1. osEnd \in diskEnd..osEnd /\ ~failed
    BY <1>0, <1>5 DEF Crash, Stop
  <2>2. \A r \in flushedFor' : WholeIn(stream, r, osEnd)
    BY <1>5, <2>1 DEF Crash, PromiseOK
  <2> QED
    BY <1>4, <1>5, <2>1, <2>2 DEF Crash
<1>6. CASE PowerLoss
  <2>1. PICK n \in diskEnd..osEnd : Stop(n)
    BY <1>6 DEF PowerLoss
  <2>2. ~failed
    BY <2>1 DEF Stop
  <2>3. \A r : WholeIn(stream, r, diskEnd) => WholeIn(stream, r, n)
    BY <1>0, WholeStays
  <2> QED
    BY <1>4, <1>6, <2>1, <2>2, <2>3 DEF PowerLoss, PromiseOK
<1> QED
  BY <1>1, <1>2, <1>3, <1>5, <1>6 DEF Life

LEMMA PromiseStep == ASSUME Base, Base', PromiseOK, [Next]_vars PROVE PromiseOK'
<1> SUFFICES ASSUME ~failed' PROVE PromiseOK'
  BY DEF PromiseOK
<1>1. ASSUME NEW t \in Threads, Step(t) PROVE PromiseOK'
  <2>1. CASE WriteFails(t) \/ FlushFails(t) \/ FdatasyncFails(t)
    BY <2>1 DEF WriteFails, FlushFails, FdatasyncFails
  <2> QED
    BY <1>1, <2>1, PromiseGate, PromiseWrite, PromiseDrain, PromiseUnlock DEF Step, Work, Fail
<1>2. CASE UNCHANGED vars
  BY <1>2 DEF vars, PromiseOK, Ready, Record
<1> QED
  BY <1>1, <1>2, PromiseCalls, PromiseLife DEF Next, Rest

-----------------------------------------------------------------------------
(* The records in the file                                                 *)

(* RecordsWhole at the i-th chunk.                                         *)
WholeAt(i) ==
    IF stream[i].part = 1
    THEN \/ i \in cuts
         \/ i < Len(stream) /\ stream[i + 1] = [stream[i] EXCEPT !.part = 2]
         \/ i = Len(stream) /\ \E t \in Threads : pc[t] = "rest" /\ stream[i].rec = Record(t)
    ELSE i > 1 /\ stream[i - 1] = [stream[i] EXCEPT !.part = 1]

(* Where the chunks and the cuts stay, and who writes a record writes on.  *)
LEMMA WholeSameStream ==
    ASSUME RecordsWhole, ~failed, stream' = stream, cuts' = cuts,
           \A u \in Threads : pc[u] = "rest" => pc'[u] = "rest" /\ calls'[u] = calls[u]
    PROVE  RecordsWhole'
<1>1. ASSUME NEW i \in 1..Len(stream) PROVE WholeAt(i)'
  <2>1. WholeAt(i)
    BY <1>1 DEF RecordsWhole, WholeAt
  <2>2. \A u \in Threads : pc[u] = "rest" => pc'[u] = "rest" /\ Record(u)' = Record(u)
    BY DEF Record
  <2>3. CASE i = Len(stream) /\ \E u \in Threads : pc[u] = "rest" /\ stream[i].rec = Record(u)
    <3>1. \E u \in Threads : pc'[u] = "rest" /\ stream'[i].rec = Record(u)'
      BY <2>2, <2>3
    <3> QED
      BY <2>1, <2>3, <3>1 DEF WholeAt
  <2>4. CASE ~(i = Len(stream) /\ \E u \in Threads : pc[u] = "rest" /\ stream[i].rec = Record(u))
    BY <2>1, <2>4 DEF WholeAt
  <2> QED
    BY <2>3, <2>4
<1> QED
  BY <1>1 DEF RecordsWhole, WholeAt

(* Only one thread is in the middle of a record, so a new record is behind *)
(* a whole one, or a cut.                                                  *)
LEMMA WholeWrite ==
    ASSUME Base, RecordsWhole, ~failed, NEW t \in Threads, Write(t)
    PROVE  RecordsWhole'
<1> USE DEF Base
<1>1. /\ Len(stream') = Len(stream) + 1 /\ Len(stream) \in Nat
      /\ \A i \in 1..Len(stream) : stream'[i] = stream[i]
      /\ stream'[Len(stream) + 1] = [rec |-> Record(t), part |-> 1]
  BY DEF Write, Put, TypeOK
<1>2. cuts' = cuts /\ Record(t)' = Record(t) /\ pc'[t] = "rest"
  BY DEF Write, Goto, stops, ghosts, Record, TypeOK
<1>3. \A u \in Threads : pc[u] # "rest"
  <2>1. mutex = t /\ pc[t] = "write"
    BY DEF Write, LockOK, Locked
  <2> QED
    BY <2>1 DEF LockOK, Locked
<1>4. ASSUME NEW i \in 1..Len(stream) PROVE WholeAt(i)'
  <2>1. WholeAt(i)
    BY <1>4 DEF RecordsWhole, WholeAt
  <2>2. i \in 1..Len(stream)
    BY <1>4
  <2>3. CASE stream[i].part = 1
    BY <1>1, <1>2, <1>3, <2>1, <2>2, <2>3 DEF WholeAt
  <2>4. CASE stream[i].part # 1
    <3>1. i > 1 /\ stream[i - 1] = [stream[i] EXCEPT !.part = 1] /\ i - 1 \in 1..Len(stream)
      BY <1>1, <2>1, <2>2, <2>4 DEF WholeAt
    <3> QED
      BY <1>1, <2>2, <2>4, <3>1 DEF WholeAt
  <2> QED
    BY <2>3, <2>4
<1>5. WholeAt(Len(stream))'
  BY <1>1, <1>2 DEF WholeAt
<1>6. ASSUME NEW i \in 1..Len(stream') PROVE WholeAt(i)'
  <2>1. i \in 1..Len(stream) \/ i = Len(stream')
    BY <1>1, <1>6
  <2> QED
    BY <1>4, <1>5, <2>1
<1> QED
  BY <1>6 DEF RecordsWhole, WholeAt

(* The second chunk is behind the first.                                   *)
LEMMA WholeWriteRest ==
    ASSUME Base, PromiseOK, RecordsWhole, ~failed, NEW t \in Threads, WriteRest(t)
    PROVE  RecordsWhole'
<1> USE DEF Base
<1>1. /\ Len(stream') = Len(stream) + 1 /\ Len(stream) \in Nat
      /\ \A i \in 1..Len(stream) : stream'[i] = stream[i]
      /\ stream'[Len(stream) + 1] = [rec |-> Record(t), part |-> 2]
  BY DEF WriteRest, Put, TypeOK
<1>2. cuts' = cuts
  BY DEF WriteRest, stops, ghosts
<1>3. Len(stream) >= 1 /\ stream[Len(stream)] = [rec |-> Record(t), part |-> 1]
  BY DEF WriteRest, WriterOK
<1>4. ASSUME NEW i \in 1..Len(stream) PROVE WholeAt(i)'
  <2>1. WholeAt(i)
    BY <1>4 DEF RecordsWhole, WholeAt
  <2>2. i \in 1..Len(stream) /\ stream'[i] = stream[i]
    BY <1>1, <1>4
  <2>3. CASE i = Len(stream)
    <3>1. stream'[i + 1] = [stream'[i] EXCEPT !.part = 2] /\ stream'[i].part = 1
      BY <1>1, <1>3, <2>2, <2>3
    <3> QED
      BY <1>1, <2>2, <2>3, <3>1 DEF WholeAt
  <2>4. CASE i # Len(stream) /\ stream[i].part = 1
    <3>1. i \in cuts \/ (i < Len(stream) /\ stream[i + 1] = [stream[i] EXCEPT !.part = 2])
      BY <2>1, <2>4 DEF WholeAt
    <3>2. i + 1 \in 1..Len(stream) /\ stream'[i + 1] = stream[i + 1]
      BY <1>1, <2>2, <2>4
    <3> QED
      BY <1>1, <1>2, <2>2, <2>4, <3>1, <3>2 DEF WholeAt
  <2>5. CASE stream[i].part # 1
    <3>1. i > 1 /\ stream[i - 1] = [stream[i] EXCEPT !.part = 1] /\ i - 1 \in 1..Len(stream)
      BY <1>1, <2>1, <2>2, <2>5 DEF WholeAt
    <3> QED
      BY <1>1, <2>2, <2>5, <3>1 DEF WholeAt
  <2> QED
    BY <2>3, <2>4, <2>5
<1>5. WholeAt(Len(stream))'
  <2>1. Len(stream) \in 1..Len(stream) /\ (Len(stream) + 1) - 1 = Len(stream)
    BY <1>1, <1>3
  <2>2. stream'[Len(stream)] = [stream'[Len(stream) + 1] EXCEPT !.part = 1]
    BY <1>1, <1>3, <2>1
  <2> QED
    BY <1>1, <1>3, <2>1, <2>2 DEF WholeAt
<1>6. ASSUME NEW i \in 1..Len(stream') PROVE WholeAt(i)'
  <2>1. i \in 1..Len(stream) \/ i = Len(stream')
    BY <1>1, <1>6
  <2> QED
    BY <1>4, <1>5, <2>1
<1> QED
  BY <1>6 DEF RecordsWhole, WholeAt

(* A crash breaks at most the record at the cut.                           *)
LEMMA WholeStop ==
    ASSUME Base, RecordsWhole, ~failed, NEW n \in 0..Len(stream), Stop(n)
    PROVE  RecordsWhole'
<1> USE DEF Base
<1>1. /\ Len(stream') = n /\ Len(stream) \in Nat
      /\ \A i \in 1..n : stream'[i] = stream[i]
      /\ cuts' = {c \in cuts : c < n} \cup {n}
  BY CutSeq DEF Stop, TypeOK
<1>2. ASSUME NEW i \in 1..n PROVE WholeAt(i)'
  <2>1. WholeAt(i) /\ i \in 1..Len(stream) /\ stream'[i] = stream[i]
    BY <1>1, <1>2 DEF RecordsWhole, WholeAt
  <2>2. CASE i = n
    <3>1. i \in cuts'
      BY <1>1, <2>2
    <3>2. CASE stream[i].part = 1
      BY <2>1, <3>1, <3>2 DEF WholeAt
    <3>3. CASE stream[i].part # 1
      <4>1. i > 1 /\ stream[i - 1] = [stream[i] EXCEPT !.part = 1] /\ i - 1 \in 1..n
        BY <1>1, <1>2, <2>1, <3>3 DEF WholeAt
      <4> QED
        BY <1>1, <2>1, <3>3, <4>1 DEF WholeAt
    <3> QED
      BY <3>2, <3>3
  <2>3. CASE i # n /\ stream[i].part = 1
    <3>1. i \in cuts \/ stream[i + 1] = [stream[i] EXCEPT !.part = 2]
      BY <1>1, <1>2, <2>1, <2>3 DEF WholeAt
    <3>2. i < n /\ stream'[i + 1] = stream[i + 1]
      BY <1>1, <1>2, <2>3
    <3> QED
      BY <1>1, <2>1, <2>3, <3>1, <3>2 DEF WholeAt
  <2>4. CASE stream[i].part # 1
    <3>1. i > 1 /\ stream[i - 1] = [stream[i] EXCEPT !.part = 1] /\ i - 1 \in 1..n
      BY <1>1, <1>2, <2>1, <2>4 DEF WholeAt
    <3> QED
      BY <1>1, <2>1, <2>4, <3>1 DEF WholeAt
  <2> QED
    BY <2>2, <2>3, <2>4
<1> QED
  BY <1>1, <1>2 DEF RecordsWhole, WholeAt

LEMMA WholeStep == ASSUME Base, PromiseOK, RecordsWhole, [Next]_vars PROVE RecordsWhole'
<1> USE DEF Base
<1>0. SUFFICES ASSUME ~failed' PROVE RecordsWhole'
  BY DEF RecordsWhole
<1>1. ASSUME NEW t \in Threads, Calls(t) PROVE RecordsWhole'
  <2>1. /\ ~failed /\ stream' = stream /\ cuts' = cuts
        /\ \A u \in Threads : pc[u] = "rest" => pc'[u] = "rest" /\ calls'[u] = calls[u]
    BY <1>0, <1>1 DEF Calls, CallAppend, CallDrain, SetLevel, Begin, Goto, file, TypeOK
  <2> QED
    BY <2>1, WholeSameStream
<1>2. ASSUME NEW t \in Threads, Step(t) PROVE RecordsWhole'
  <2>1. CASE Gate(t) \/ Lock(t) \/ LockThrows(t) \/ Flush(t) \/ Fdatasync(t) \/ Unlock(t)
    <3>1. /\ ~failed /\ stream' = stream /\ cuts' = cuts /\ calls' = calls
          /\ pc[t] # "rest" /\ \A u \in Threads \ {t} : pc'[u] = pc[u]
      BY <1>0, <2>1 DEF Gate, Lock, LockThrows, Flush, Fdatasync, Unlock, Goto, file, stops, ghosts, TypeOK
    <3> QED
      BY <3>1, WholeSameStream
  <2>2. CASE Write(t)
    BY <1>0, <2>2, WholeWrite DEF Write
  <2>3. CASE WriteRest(t)
    BY <1>0, <2>3, WholeWriteRest DEF WriteRest
  <2>4. CASE WriteFails(t) \/ FlushFails(t) \/ FdatasyncFails(t)
    BY <1>0, <2>4 DEF WriteFails, FlushFails, FdatasyncFails
  <2> QED
    BY <1>2, <2>1, <2>2, <2>3, <2>4 DEF Step, Work, Fail
<1>3. CASE Destroy \/ Reopen
  BY <1>0, <1>3, WholeSameStream DEF Destroy, Reopen, file, stops, ghosts
<1>4. CASE DestroyFails
  BY <1>0, <1>4 DEF DestroyFails
<1>5. CASE Crash \/ PowerLoss
  <2>1. PICK n \in 0..Len(stream) : Stop(n)
    BY <1>5 DEF Crash, PowerLoss, TypeOK
  <2> QED
    BY <1>0, <2>1, WholeStop DEF Stop
<1>6. CASE UNCHANGED vars
  BY <1>0, <1>6, WholeSameStream DEF vars
<1> QED
  BY <1>1, <1>2, <1>3, <1>4, <1>5, <1>6 DEF Next, Life, Rest

-----------------------------------------------------------------------------
(* The theorems                                                            *)

LEMMA Start == Init => Base /\ PromiseOK
<1> SUFFICES ASSUME Init PROVE Base /\ PromiseOK
  OBVIOUS
<1>1. TypeOK
  BY TypeInit
<1>2. LockOK
  BY AppenderAssumption DEF Init, LockOK, Locked
<1>3. FlowOK
  BY DEF Init, FlowOK
<1>4. PromiseOK
  BY DEF Init, PromiseOK, Ready
<1>5. WriterOK
  BY DEF Init, WriterOK
<1> QED
  BY <1>1, <1>2, <1>3, <1>4, <1>5 DEF Base

LEMMA Invariance == Spec => [](Base /\ PromiseOK)
<1>1. Base /\ PromiseOK /\ [Next]_vars => (Base /\ PromiseOK)'
  <2> SUFFICES ASSUME Base, PromiseOK, [Next]_vars PROVE (Base /\ PromiseOK)'
    OBVIOUS
  <2>1. Base'
    BY TypeStep, LockStep, FlowStep, WriterStep DEF Base
  <2> QED
    BY <2>1, PromiseStep
<1> QED
  BY Start, <1>1, PTL DEF Spec

(* Every variable keeps its type, for any number of threads and crashes.   *)
THEOREM TypeCorrect == Spec => []TypeOK
<1>1. Base => TypeOK
  BY DEF Base
<1> QED
  BY <1>1, Invariance, PTL

(* A FATAL record, what flush() or the destructor of a file covered, is    *)
(* with the system, what sync() covered is on the device: across crashes,  *)
(* power losses and restarts, for any number of threads and of them.       *)
THEOREM PromisesAreKept == Spec => []PromisesKept
<1>1. PromiseOK => PromisesKept
  BY DEF PromiseOK, PromisesKept
<1> QED
  BY <1>1, Invariance, PTL

(* Whatever threads do at the same time, the records in the file are whole *)
(* and one behind the other, but for the one a crash cut.                  *)
THEOREM RecordsStayWhole == Spec => []RecordsWhole
<1>1. Init => RecordsWhole
  BY DEF Init, RecordsWhole
<1>2. Base /\ PromiseOK /\ RecordsWhole /\ [Next]_vars => RecordsWhole'
  BY WholeStep
<1> QED
  BY <1>1, <1>2, Invariance, PTL DEF Spec

-----------------------------------------------------------------------------
(* The log that the file is                                                *)

(* A set of numbers has a least one: what the inductions below go by.      *)
LEMMA Least ==
  ASSUME NEW T, T \subseteq Nat, T # {}
  PROVE  \E n \in T : \A m \in T : n <= m
<1> DEFINE R == OpToRel(<, Nat)
<1>1. \A m, n \in Nat : m < n => <<m, n>> \in R
  BY DEF OpToRel
<1>2. IsWellFoundedOn(R, Nat)
  BY NatLessThanWellFounded
<1> HIDE DEF R
<1>3. PICK n \in T : \A m \in T : ~(<<m, n>> \in R)
  BY <1>2, WFMin
<1>4. \A m \in T : ~(m < n)
  BY <1>1, <1>3
<1> QED
  BY <1>4

(* One step of Lines: the records before n + 1, and the chunk after them.  *)
Line1(s, before, n) == IF Ends(s, n) THEN Append(before, s[n].rec) ELSE before

(* f is Lines(s) as far as n.                                              *)
LinesTo(s, f, n) ==
    /\ f \in [0..n -> Seq(Records)]
    /\ f[0] = <<>>
    /\ \A i \in 1..n : f[i] = Line1(s, f[i - 1], i)

LEMMA LinesExist ==
    ASSUME NEW s \in Seq(Chunk)
    PROVE  \E f : LinesTo(s, f, Len(s))
<1>1. Len(s) \in Nat /\ \A i \in 1..Len(s) : s[i].rec \in Records
  <2>1. ASSUME NEW i \in 1..Len(s) PROVE s[i].rec \in Records
    <3>1. s[i] \in Chunk
      OBVIOUS
    <3> QED
      BY <3>1 DEF Chunk
  <2> QED
    BY <2>1
<1> DEFINE Bad == {n \in 0..Len(s) : ~ \E f : LinesTo(s, f, n)}
<1>2. SUFFICES ASSUME Bad # {} PROVE FALSE
  <2>1. ASSUME Bad = {} PROVE \E f : LinesTo(s, f, Len(s))
    <3>1. Len(s) \in 0..Len(s) /\ Len(s) \notin Bad
      BY <1>1, <2>1
    <3> QED
      BY <3>1
  <2> QED
    BY <2>1
<1>3. PICK n \in Bad : \A m \in Bad : n <= m
  <2>1. Bad \subseteq Nat
    BY <1>1
  <2> HIDE DEF Bad
  <2> QED
    BY <1>2, <2>1, Least
<1>4. n # 0
  <2>1. LinesTo(s, [i \in 0..0 |-> <<>>], 0)
    BY DEF LinesTo
  <2> QED
    BY <2>1
<1>5. n \in 1..Len(s) /\ n - 1 \in 0..Len(s) /\ n - 1 \notin Bad
  <2>1. n \in 1..Len(s)
    BY <1>1, <1>4
  <2>2. ~(n <= n - 1)
    BY <2>1
  <2> HIDE DEF Bad
  <2> QED
    BY <1>1, <1>3, <2>1, <2>2
<1>6. PICK f : LinesTo(s, f, n - 1)
  BY <1>5
<1> DEFINE g == [i \in 0..n |-> IF i = n THEN Line1(s, f[n - 1], n) ELSE f[i]]
<1>7. Line1(s, f[n - 1], n) \in Seq(Records)
  <2>1. f[n - 1] \in Seq(Records) /\ s[n].rec \in Records
    BY <1>1, <1>5, <1>6 DEF LinesTo
  <2> QED
    BY <2>1 DEF Line1
<1>8. \A i \in 0..n - 1 : g[i] = f[i]
  BY <1>5
<1>9. g \in [0..n -> Seq(Records)] /\ g[0] = <<>> /\ g[n] = Line1(s, f[n - 1], n)
  <2>1. \A i \in 0..n : i # n => i \in 0..n - 1
    BY <1>5
  <2>2. \A i \in 0..n - 1 : f[i] \in Seq(Records)
    BY <1>6 DEF LinesTo
  <2>3. g \in [0..n -> Seq(Records)]
    BY <1>7, <2>1, <2>2
  <2>4. 0 \in 0..n /\ 0 # n /\ n \in 0..n /\ f[0] = <<>>
    BY <1>5, <1>6 DEF LinesTo
  <2> QED
    BY <2>3, <2>4
<1>10. \A i \in 1..n : g[i] = Line1(s, g[i - 1], i)
  <2> SUFFICES ASSUME NEW i \in 1..n PROVE g[i] = Line1(s, g[i - 1], i)
    OBVIOUS
  <2>1. i - 1 \in 0..n - 1 /\ (i # n => i \in 1..n - 1)
    BY <1>5
  <2> HIDE DEF g
  <2>2. CASE i = n
    <3>1. g[i - 1] = f[n - 1]
      BY <1>8, <2>1, <2>2
    <3> QED
      BY <1>9, <2>2, <3>1
  <2>3. CASE i # n
    <3>1. g[i - 1] = f[i - 1] /\ g[i] = f[i]
      BY <1>5, <1>8, <2>1, <2>3
    <3>2. f[i] = Line1(s, f[i - 1], i)
      BY <1>6, <2>1, <2>3 DEF LinesTo
    <3> QED
      BY <3>1, <3>2
  <2> QED
    BY <2>2, <2>3
<1>11. LinesTo(s, g, n)
  <2> HIDE DEF g
  <2> QED
    BY <1>9, <1>10 DEF LinesTo
<1> QED
  BY <1>3, <1>11

(* Two such functions agree where the chunks do.                           *)
LEMMA LinesAgree ==
    ASSUME NEW s, NEW s2, NEW f, NEW f2, NEW n \in Nat, NEW k \in Nat, NEW m \in 0..n, m <= k,
           LinesTo(s, f, n), LinesTo(s2, f2, k), \A i \in 1..m : s2[i] = s[i]
    PROVE  f2[m] = f[m]
<1> DEFINE Bad == {i \in 0..m : f2[i] # f[i]}
<1>1. SUFFICES ASSUME Bad # {} PROVE FALSE
  OBVIOUS
<1>2. PICK i \in Bad : \A j \in Bad : i <= j
  <2>1. Bad \subseteq Nat
    OBVIOUS
  <2> HIDE DEF Bad
  <2> QED
    BY <1>1, <2>1, Least
<1>3. i # 0
  BY <1>2 DEF LinesTo
<1>4. i \in 1..m /\ i \in 1..n /\ i \in 1..k /\ i - 1 \in 0..m /\ ~(i <= i - 1)
  BY <1>2, <1>3
<1>5. f2[i - 1] = f[i - 1]
  BY <1>2, <1>4
<1>6. f[i] = Line1(s, f[i - 1], i) /\ f2[i] = Line1(s2, f2[i - 1], i)
  BY <1>4 DEF LinesTo
<1>7. s2[i] = s[i] /\ (Ends(s2, i) <=> Ends(s, i))
  BY <1>4 DEF Ends
<1> QED
  BY <1>2, <1>5, <1>6, <1>7 DEF Line1

LEMMA LinesAre ==
    ASSUME NEW s \in Seq(Chunk)
    PROVE  LinesTo(s, Lines(s), Len(s))
<1> DEFINE E(f, i) == IF i = 0 THEN <<>>
                      ELSE IF Ends(s, i) THEN Append(f[i - 1], s[i].rec) ELSE f[i - 1]
<1>1. PICK f : LinesTo(s, f, Len(s))
  BY LinesExist
<1>2. f = [i \in 0..Len(s) |-> E(f, i)]
  <2>1. ASSUME NEW i \in 0..Len(s) PROVE f[i] = E(f, i)
    <3>1. i # 0 => i \in 1..Len(s)
      OBVIOUS
    <3> QED
      BY <1>1, <3>1 DEF LinesTo, Line1
  <2> QED
    BY <1>1, <2>1 DEF LinesTo
<1> DEFINE G == CHOOSE g : g = [i \in 0..Len(s) |-> E(g, i)]
<1>3. G = [i \in 0..Len(s) |-> E(G, i)]
  BY <1>2
<1>4. Lines(s) = G
  BY DEF Lines
<1> HIDE DEF G
<1>5. ASSUME NEW i \in 0..Len(s) PROVE G[i] = f[i]
  <2> DEFINE Bad == {n \in 0..Len(s) : G[n] # f[n]}
  <2>1. SUFFICES ASSUME Bad # {} PROVE FALSE
    OBVIOUS
  <2>2. PICK n \in Bad : \A m \in Bad : n <= m
    <3>1. Bad \subseteq Nat
      OBVIOUS
    <3> HIDE DEF Bad
    <3> QED
      BY <2>1, <3>1, Least
  <2>3. G[n] = E(G, n) /\ f[n] = E(f, n)
    BY <1>2, <1>3, <2>2
  <2>4. n # 0
    BY <2>2, <2>3
  <2>5. n - 1 \in 0..Len(s) /\ n - 1 \notin Bad
    BY <2>2, <2>4
  <2>6. G[n - 1] = f[n - 1]
    BY <2>5
  <2> QED
    BY <2>2, <2>3, <2>4, <2>6
<1>6. G = f
  <2>1. f = [i \in 0..Len(s) |-> f[i]] /\ G = [i \in 0..Len(s) |-> G[i]]
    BY <1>1, <1>3 DEF LinesTo
  <2> QED
    BY <1>5, <2>1
<1> QED
  BY <1>1, <1>4, <1>6

Prefix(a, b) == Len(a) <= Len(b) /\ \A i \in 1..Len(a) : b[i] = a[i]

(* More chunks are more records.                                           *)
LEMMA LinesGrow ==
    ASSUME NEW s \in Seq(Chunk), NEW m \in 0..Len(s), NEW n \in m..Len(s)
    PROVE  /\ Lines(s)[m] \in Seq(Records) /\ Lines(s)[n] \in Seq(Records)
           /\ Prefix(Lines(s)[m], Lines(s)[n])
<1> DEFINE L == Lines(s)
<1>1. Len(s) \in Nat /\ LinesTo(s, L, Len(s))
  BY LinesAre
<1> HIDE DEF L
<1>2. \A i \in 0..Len(s) : L[i] \in Seq(Records)
  BY <1>1 DEF LinesTo
<1> DEFINE Bad == {i \in m..Len(s) : ~Prefix(L[m], L[i])}
<1>3. ASSUME Bad # {} PROVE FALSE
  <2>1. PICK i \in Bad : \A j \in Bad : i <= j
    <3>1. Bad \subseteq Nat
      OBVIOUS
    <3> HIDE DEF Bad
    <3> QED
      BY <1>3, <3>1, Least
  <2>2. i # m
    <3>1. L[m] \in Seq(Records)
      BY <1>2
    <3>2. Prefix(L[m], L[m])
      BY <3>1 DEF Prefix
    <3> QED
      BY <2>1, <3>2
  <2>3. i \in m..Len(s) /\ i \in 1..Len(s) /\ i - 1 \in m..Len(s) /\ ~(i <= i - 1)
    BY <1>1, <2>1, <2>2
  <2>4. Prefix(L[m], L[i - 1])
    <3>1. i - 1 \notin Bad
      <4> HIDE DEF Bad
      <4> QED
        BY <2>1, <2>3
    <3> QED
      BY <2>3, <3>1
  <2>5. L[i] = Line1(s, L[i - 1], i)
    BY <1>1, <2>3 DEF LinesTo
  <2>6. L[i - 1] \in Seq(Records) /\ s[i] \in Chunk /\ L[m] \in Seq(Records)
    BY <1>2, <2>3
  <2>7. s[i].rec \in Records
    BY <2>6 DEF Chunk
  <2> DEFINE a == L[m]
             b == L[i - 1]
             r == s[i].rec
  <2>8. Prefix(a, b) => Prefix(a, Append(b, r))
    <3>1. a \in Seq(Records) /\ b \in Seq(Records) /\ r \in Records
      BY <2>6, <2>7
    <3> HIDE DEF a, b, r
    <3>2. Len(Append(b, r)) = Len(b) + 1 /\ \A k \in 1..Len(b) : Append(b, r)[k] = b[k]
      BY <3>1
    <3>3. Len(a) \in Nat /\ Len(b) \in Nat
      BY <3>1
    <3> QED
      BY <3>2, <3>3 DEF Prefix
  <2>9. Prefix(L[m], L[i])
    BY <2>4, <2>5, <2>8 DEF Line1
  <2> QED
    BY <2>1, <2>9
<1>4. Prefix(L[m], L[n])
  <2>1. n \notin Bad
    BY <1>3
  <2> QED
    BY <2>1
<1> QED
  BY <1>2, <1>4 DEF L

(* The records of the chunks that are left are the first ones.             *)
LEMMA PrefixIsCut ==
    ASSUME NEW S, NEW a \in Seq(S), NEW b \in Seq(S), Prefix(a, b)
    PROVE  Len(a) \in 0..Len(b) /\ SubSeq(b, 1, Len(a)) = a
<1>1. Len(a) \in Nat /\ Len(b) \in Nat /\ Len(a) <= Len(b)
  BY DEF Prefix
<1>2. /\ SubSeq(b, 1, Len(a)) \in Seq(S) /\ Len(SubSeq(b, 1, Len(a))) = Len(a)
      /\ \A i \in 1..Len(a) : SubSeq(b, 1, Len(a))[i] = b[i]
  BY <1>1, CutSeq
<1> DEFINE c == SubSeq(b, 1, Len(a))
<1> HIDE DEF c
<1>3. \A i \in 1..Len(a) : c[i] = a[i]
  BY <1>2 DEF Prefix, c
<1>4. c \in Seq(S) /\ Len(c) = Len(a)
  BY <1>2 DEF c
<1>5. c = a
  BY <1>3, <1>4
<1> QED
  BY <1>1, <1>5 DEF c

(* Where the chunks are the same, the records are.                         *)
LEMMA LinesSame ==
    ASSUME NEW s \in Seq(Chunk), NEW s2 \in Seq(Chunk), NEW m \in 0..Len(s), m <= Len(s2),
           \A i \in 1..m : s2[i] = s[i]
    PROVE  Lines(s2)[m] = Lines(s)[m]
<1>1. LinesTo(s, Lines(s), Len(s)) /\ LinesTo(s2, Lines(s2), Len(s2))
  BY LinesAre
<1>2. Len(s) \in Nat /\ Len(s2) \in Nat
  OBVIOUS
<1> QED
  BY <1>1, <1>2, LinesAgree

(* A chunk more.                                                           *)
LEMMA LinesAppend ==
    ASSUME NEW s \in Seq(Chunk), NEW c \in Chunk, NEW s2 \in Seq(Chunk), Len(s2) = Len(s) + 1,
           \A i \in 1..Len(s) : s2[i] = s[i], s2[Len(s) + 1] = c
    PROVE  /\ \A n \in 0..Len(s) : Lines(s2)[n] = Lines(s)[n]
           /\ Lines(s2)[Len(s) + 1] = IF Ends(s2, Len(s) + 1) THEN Append(Lines(s)[Len(s)], c.rec)
                                      ELSE Lines(s)[Len(s)]
<1>1. Len(s) \in Nat
  OBVIOUS
<1>2. ASSUME NEW n \in 0..Len(s) PROVE Lines(s2)[n] = Lines(s)[n]
  <2>1. n <= Len(s2) /\ \A i \in 1..n : s2[i] = s[i]
    BY <1>1
  <2> QED
    BY <2>1, LinesSame
<1>3. Lines(s2)[Len(s) + 1] = Line1(s2, Lines(s2)[Len(s)], Len(s) + 1)
  <2>1. Len(s) + 1 \in 1..Len(s2) /\ (Len(s) + 1) - 1 = Len(s)
    BY <1>1
  <2>2. LinesTo(s2, Lines(s2), Len(s2))
    BY LinesAre
  <2> QED
    BY <2>1, <2>2 DEF LinesTo
<1>4. Lines(s2)[Len(s)] = Lines(s)[Len(s)]
  BY <1>1, <1>2
<1> QED
  BY <1>2, <1>3, <1>4 DEF Line1

(* The whole log, what is flushed of it and what is synced, in this order. *)
LEMMA LogShape ==
    ASSUME Base
    PROVE  /\ stream \in Seq(Chunk) /\ Len(stream) \in Nat
           /\ osEnd \in 0..Len(stream) /\ diskEnd \in 0..osEnd
           /\ LogSink.lines \in Seq(Records)
           /\ LogSink.flushed \in 0..Len(LogSink.lines)
           /\ LogSink.synced \in 0..LogSink.flushed
<1>1. /\ stream \in Seq(Chunk) /\ Len(stream) \in Nat
      /\ osEnd \in 0..Len(stream) /\ diskEnd \in 0..osEnd
  BY DEF Base, TypeOK, LockOK
<1>2. diskEnd \in 0..Len(stream) /\ osEnd \in diskEnd..Len(stream) /\ Len(stream) \in osEnd..Len(stream)
  BY <1>1
<1> DEFINE W == Lines(stream)[Len(stream)]
           F == Lines(stream)[osEnd]
           D == Lines(stream)[diskEnd]
<1>3. W \in Seq(Records) /\ F \in Seq(Records) /\ Prefix(F, W)
  BY <1>1, <1>2, LinesGrow
<1>4. D \in Seq(Records) /\ Prefix(D, F)
  BY <1>1, <1>2, LinesGrow
<1>5. LogSink = [lines |-> W, flushed |-> Len(F), synced |-> Len(D)]
  BY DEF LogSink
<1> HIDE DEF W, F, D
<1>6. Len(F) \in 0..Len(W) /\ Len(D) \in 0..Len(F)
  BY <1>3, <1>4, PrefixIsCut
<1> QED
  BY <1>1, <1>3, <1>5, <1>6

LEMMA WroteSpilled ==
    ASSUME NEW s, NEW line, NEW n
    PROVE  Log!Spilled(Log!Wrote(s, line, FALSE), n)
             = [lines |-> Append(s.lines, line), flushed |-> n, synced |-> s.synced]
<1> DEFINE a == Append(s.lines, line)
           b == s.flushed
           d == s.synced
<1>1. Log!Wrote(s, line, FALSE) = [lines |-> a, flushed |-> b, synced |-> d]
  BY DEF Log!Wrote
<1> HIDE DEF a, b, d
<1>2. [[lines |-> a, flushed |-> b, synced |-> d] EXCEPT !.flushed = n]
        = [lines |-> a, flushed |-> n, synced |-> d]
  OBVIOUS
<1>3. Log!Spilled(Log!Wrote(s, line, FALSE), n) = [lines |-> a, flushed |-> n, synced |-> d]
  BY <1>1, <1>2 DEF Log!Spilled
<1> QED
  BY <1>3 DEF a, d

(* A first chunk may only push records out of stdio; a second one is a     *)
(* record more.                                                            *)
LEMMA SinkPut ==
    ASSUME Base, NEW t \in Threads, NEW part \in {1, 2}, Put(t, part),
           part = 2 => Len(stream) >= 1 /\ stream[Len(stream)] = [rec |-> Record(t), part |-> 1]
    PROVE  /\ part = 1 => \E n \in LogSink.flushed..Len(LogSink.lines) :
                            LogSink' = Log!Spilled(LogSink, n)
           /\ part = 2 => \E n \in LogSink.flushed..Len(LogSink.lines) + 1 :
                            LogSink' = Log!Spilled(Log!Wrote(LogSink, Record(t), FALSE), n)
<1> DEFINE c == [rec |-> Record(t), part |-> part]
           W == Lines(stream)[Len(stream)]
           F == Len(Lines(stream)[osEnd])
           D == Len(Lines(stream)[diskEnd])
           n == Len(Lines(stream')[osEnd'])
<1>1. c \in Chunk /\ Record(t) \in Records
  BY DEF Base, TypeOK, Chunk, Record, Records
<1>2. /\ stream \in Seq(Chunk) /\ stream' = Append(stream, c)
      /\ osEnd' \in osEnd..Len(stream') /\ diskEnd' = diskEnd /\ Len(stream) \in Nat
      /\ osEnd \in 0..Len(stream) /\ diskEnd \in 0..Len(stream)
  BY LogShape DEF Put, Base, TypeOK
<1>0. /\ Len(stream') = Len(stream) + 1
      /\ stream' \in Seq(Chunk)
      /\ \A i \in 1..Len(stream) : stream'[i] = stream[i]
      /\ stream'[Len(stream) + 1] = c
  BY <1>1, <1>2
<1>a. Ends(stream', Len(stream) + 1) <=> part = 2
  <2>1. CASE part = 1
    BY <1>0, <2>1 DEF Ends
  <2>2. CASE part = 2
    <3>1. /\ Len(stream) \in 1..Len(stream) /\ (Len(stream) + 1) - 1 = Len(stream)
          /\ Len(stream) + 1 > 1
      BY <1>2, <2>2
    <3>2. stream'[Len(stream)] = [rec |-> Record(t), part |-> 1]
      BY <1>0, <2>2, <3>1
    <3>3. stream'[Len(stream) + 1] = [rec |-> Record(t), part |-> 2]
      BY <1>0, <2>2
    <3> QED
      BY <2>2, <3>1, <3>2, <3>3 DEF Ends
  <2> QED
    BY <2>1, <2>2
<1>3. /\ \A k \in 0..Len(stream) : Lines(stream')[k] = Lines(stream)[k]
      /\ Lines(stream')[Len(stream')] = IF part = 2 THEN Append(W, Record(t)) ELSE W
  <2> DEFINE s2 == stream'
  <2>1. /\ s2 \in Seq(Chunk) /\ Len(s2) = Len(stream) + 1
        /\ \A i \in 1..Len(stream) : s2[i] = stream[i]
        /\ s2[Len(stream) + 1] = c
        /\ Ends(s2, Len(stream) + 1) <=> part = 2
    BY <1>0, <1>a
  <2> HIDE DEF s2, c
  <2>2. /\ \A k \in 0..Len(stream) : Lines(s2)[k] = Lines(stream)[k]
        /\ Lines(s2)[Len(stream) + 1] = IF Ends(s2, Len(stream) + 1) THEN Append(W, c.rec) ELSE W
    BY <1>1, <1>2, <2>1, LinesAppend
  <2>3. c.rec = Record(t)
    BY DEF c
  <2> QED
    BY <2>1, <2>2, <2>3 DEF s2
<1>4. Lines(stream')[osEnd] = Lines(stream)[osEnd] /\ Lines(stream')[diskEnd'] = Lines(stream)[diskEnd]
  BY <1>2, <1>3
<1>5. W \in Seq(Records) /\ F \in Nat /\ D \in Nat
  BY LogShape DEF LogSink
<1>6. n \in F..Len(Lines(stream')[Len(stream')])
  <2>1. /\ osEnd \in 0..Len(stream') /\ osEnd' \in osEnd..Len(stream') /\ osEnd' \in 0..Len(stream')
        /\ Len(stream') \in osEnd'..Len(stream')
    BY <1>0, <1>2
  <2> DEFINE a == Lines(stream')[osEnd]
             b == Lines(stream')[osEnd']
             d == Lines(stream')[Len(stream')]
  <2>2. a \in Seq(Records) /\ b \in Seq(Records) /\ Prefix(a, b)
    BY <1>0, <2>1, LinesGrow
  <2>3. d \in Seq(Records) /\ Prefix(b, d)
    BY <1>0, <2>1, LinesGrow
  <2>4. F = Len(a) /\ n = Len(b)
    BY <1>4
  <2> HIDE DEF a, b, d, F, n
  <2>5. Len(a) \in 0..Len(b) /\ Len(b) \in 0..Len(d)
    BY <2>2, <2>3, PrefixIsCut
  <2>6. n \in F..Len(d)
    BY <2>2, <2>3, <2>4, <2>5
  <2> QED
    BY <2>6 DEF d
<1>7. /\ LogSink = [lines |-> W, flushed |-> F, synced |-> D]
      /\ LogSink' = [lines |-> Lines(stream')[Len(stream')], flushed |-> n, synced |-> D]
  BY <1>4 DEF LogSink
<1> HIDE DEF W, F, D, n
<1>8. CASE part = 1
  <2>1. LogSink' = [lines |-> W, flushed |-> n, synced |-> D] /\ n \in F..Len(W)
    BY <1>3, <1>6, <1>7, <1>8
  <2>2. LogSink' = Log!Spilled(LogSink, n)
    BY <1>7, <2>1 DEF Log!Spilled
  <2> QED
    BY <1>7, <1>8, <2>1, <2>2
<1>9. CASE part = 2
  <2>1. LogSink' = [lines |-> Append(W, Record(t)), flushed |-> n, synced |-> D]
    BY <1>3, <1>7, <1>9
  <2>2. n \in F..Len(W) + 1
    <3>1. Len(Append(W, Record(t))) = Len(W) + 1
      BY <1>1, <1>5
    <3> QED
      BY <1>3, <1>6, <1>9, <3>1
  <2>3. LogSink' = Log!Spilled(Log!Wrote(LogSink, Record(t), FALSE), n)
    <3>1. LogSink.lines = W /\ LogSink.synced = D
      BY <1>7
    <3>2. Log!Spilled(Log!Wrote(LogSink, Record(t), FALSE), n)
            = [lines |-> Append(LogSink.lines, Record(t)), flushed |-> n, synced |-> LogSink.synced]
      BY WroteSpilled
    <3> QED
      BY <2>1, <3>1, <3>2
  <2>4. n \in LogSink.flushed..Len(LogSink.lines) + 1
    BY <1>7, <2>2
  <2> QED
    <3>1. part # 1
      BY <1>9
    <3> QED
      BY <2>3, <2>4, <3>1
<1> QED
  BY <1>8, <1>9

(* What the ends of the file say of the log.                               *)
LEMMA SinkFlush ==
    ASSUME stream' = stream, osEnd' = Len(stream), diskEnd' = diskEnd
    PROVE  LogSink' = Log!Flushed(LogSink)
BY DEF LogSink, Log!Flushed

LEMMA SinkSync ==
    ASSUME stream' = stream, osEnd' = osEnd, diskEnd' = osEnd
    PROVE  LogSink' = [LogSink EXCEPT !.synced = LogSink.flushed]
BY DEF LogSink

(* A file that ends early is a log that ends early, behind what is synced; *)
(* and behind what is flushed, if the system keeps what it has.            *)
LEMMA SinkStop ==
    ASSUME Base, NEW n \in diskEnd..osEnd,
           stream' = SubSeq(stream, 1, n), osEnd' = n, diskEnd' = diskEnd
    PROVE  /\ \E m \in LogSink.synced..LogSink.flushed : LogSink' = Log!Survivors(LogSink, m)
           /\ n = osEnd => LogSink' = Log!Survivors(LogSink, LogSink.flushed)
<1> DEFINE W == Lines(stream)[Len(stream)]
           F == Lines(stream)[osEnd]
           N == Lines(stream)[n]
           D == Lines(stream)[diskEnd]
           s2 == stream'
<1>0. /\ stream \in Seq(Chunk) /\ Len(stream) \in Nat
      /\ osEnd \in 0..Len(stream) /\ diskEnd \in 0..osEnd
  BY LogShape
<1>1. /\ n \in 0..Len(stream) /\ diskEnd \in 0..Len(stream) /\ n \in diskEnd..Len(stream)
      /\ osEnd \in n..Len(stream)
      /\ Len(stream) \in n..Len(stream) /\ diskEnd <= n /\ n \in Nat
  BY <1>0
<1>2. s2 \in Seq(Chunk) /\ Len(s2) = n /\ \A i \in 1..n : s2[i] = stream[i]
  BY <1>0, <1>1, CutSeq
<1>3. Lines(s2)[n] = N /\ Lines(s2)[diskEnd] = D
  <2> HIDE DEF s2
  <2>1. Lines(s2)[n] = Lines(stream)[n]
    BY <1>0, <1>1, <1>2, LinesSame
  <2>2. \A i \in 1..diskEnd : s2[i] = stream[i]
    BY <1>0, <1>1, <1>2
  <2>3. Lines(s2)[diskEnd] = Lines(stream)[diskEnd]
    BY <1>0, <1>1, <1>2, <2>2, LinesSame
  <2> QED
    BY <2>1, <2>3
<1>4. N \in Seq(Records) /\ W \in Seq(Records) /\ Prefix(N, W)
  BY <1>0, <1>1, LinesGrow
<1>5. D \in Seq(Records) /\ Prefix(D, N)
  BY <1>0, <1>1, LinesGrow
<1>b. F \in Seq(Records) /\ Prefix(N, F)
  BY <1>0, <1>1, LinesGrow
<1>6. LogSink.lines = W /\ LogSink.flushed = Len(F) /\ LogSink.synced = Len(D)
  BY DEF LogSink
<1>7. LogSink' = [lines |-> N, flushed |-> Len(N), synced |-> Len(D)]
  BY <1>2, <1>3 DEF LogSink
<1>c. n = osEnd => N = F
  OBVIOUS
<1> HIDE DEF W, F, N, D, s2
<1>8. /\ Len(N) \in 0..Len(W) /\ SubSeq(W, 1, Len(N)) = N /\ Len(D) \in 0..Len(N)
      /\ Len(N) \in 0..Len(F)
  BY <1>4, <1>5, <1>b, PrefixIsCut
<1>9. LogSink' = Log!Survivors(LogSink, Len(N))
  <2>1. (IF Len(D) < Len(N) THEN Len(D) ELSE Len(N)) = Len(D)
    BY <1>4, <1>5, <1>8
  <2> QED
    BY <1>6, <1>7, <1>8, <2>1 DEF Log!Survivors
<1>10. Len(N) \in LogSink.synced..LogSink.flushed
  BY <1>4, <1>5, <1>6, <1>8, <1>b
<1> QED
  BY <1>6, <1>9, <1>10, <1>c

-----------------------------------------------------------------------------
(* A file on which an operation has failed                                 *)

LEMMA LatePut ==
    ASSUME Base, NEW t \in Threads, NEW part \in {1, 2}, Put(t, part),
           part = 2 => Len(stream) >= 1 /\ stream[Len(stream)] = [rec |-> Record(t), part |-> 1]
    PROVE  Log!Late!Next
<1>1. CASE part = 1
  <2>1. PICK n \in LogSink.flushed..Len(LogSink.lines) : LogSink' = Log!Spilled(LogSink, n)
    BY <1>1, SinkPut
  <2>2. Log!Late!Spill
    BY <2>1 DEF Log!Late!Spill, Log!Late!Spilled, Log!Spilled, LogSink
  <2> QED
    BY <2>2 DEF Log!Late!Next, Log!Late!Keep
<1>2. CASE part = 2
  <2>1. PICK n \in LogSink.flushed..Len(LogSink.lines) + 1 :
           LogSink' = Log!Spilled(Log!Wrote(LogSink, Record(t), FALSE), n)
    BY <1>2, SinkPut
  <2>2. Record(t) \in Records
    BY DEF Base, TypeOK, Record, Records
  <2>3. Log!Late!Write
    BY <2>1, <2>2 DEF Log!Late!Write, Log!Late!Spilled, Log!Late!Wrote, Log!Spilled, Log!Wrote, LogSink
  <2> QED
    BY <2>3 DEF Log!Late!Next, Log!Late!Keep
<1> QED
  BY <1>1, <1>2

LEMMA LateFlush ==
    ASSUME LogSink' = Log!Flushed(LogSink)
    PROVE  Log!Late!Next
<1>1. Log!Late!Flush
  BY DEF Log!Late!Flush, Log!Late!Flushed, Log!Flushed, LogSink
<1> QED
  BY <1>1 DEF Log!Late!Next, Log!Late!Keep

LEMMA LateSync ==
    ASSUME Base, LogSink' = [LogSink EXCEPT !.synced = LogSink.flushed]
    PROVE  Log!Late!Next
<1>1. LogSink.flushed \in LogSink.synced..LogSink.flushed
  BY LogShape
<1>2. Log!Late!WriteBack
  BY <1>1 DEF Log!Late!WriteBack, LogSink
<1> QED
  BY <1>2 DEF Log!Late!Next, Log!Late!Keep

LEMMA LateStop ==
    ASSUME Base, NEW m \in LogSink.synced..LogSink.flushed, LogSink' = Log!Survivors(LogSink, m)
    PROVE  Log!Late!Next
<1>1. m \in LogSink.synced..Len(LogSink.lines)
  BY LogShape
<1>2. Log!Late!Crash
  BY <1>1 DEF Log!Late!Crash, Log!Late!Survivors, Log!Survivors, LogSink
<1> QED
  BY <1>2 DEF Log!Late!Next

LEMMA LateStep == ASSUME Base, [Next]_vars PROVE Log!Late!Next \/ UNCHANGED LogSink
<1>1. UNCHANGED file => UNCHANGED LogSink
  BY DEF file, LogSink
<1>2. ASSUME NEW t \in Threads, Calls(t) PROVE UNCHANGED file
  BY <1>2 DEF Calls, CallAppend, CallDrain, SetLevel, Begin
<1>3. ASSUME NEW t \in Threads, Step(t) PROVE Log!Late!Next \/ UNCHANGED LogSink
  <2>1. CASE Gate(t) \/ Lock(t) \/ Unlock(t) \/ Fail(t)
    <3>1. UNCHANGED file
      BY <2>1 DEF Gate, Lock, Unlock, Fail, LockThrows, WriteFails, FlushFails, FdatasyncFails
    <3> QED
      BY <1>1, <3>1
  <2>2. CASE Write(t)
    <3>1. Put(t, 1) /\ 1 \in {1, 2} /\ 1 # 2
      BY <2>2 DEF Write
    <3> QED
      BY <3>1, LatePut
  <2>3. CASE WriteRest(t)
    <3>1. Len(stream) >= 1 /\ stream[Len(stream)] = [rec |-> Record(t), part |-> 1]
      BY <2>3 DEF WriteRest, Base, WriterOK
    <3>2. Put(t, 2) /\ 2 \in {1, 2}
      BY <2>3 DEF WriteRest
    <3> QED
      BY <3>1, <3>2, LatePut
  <2>4. CASE Flush(t)
    BY <2>4, SinkFlush, LateFlush DEF Flush
  <2>5. CASE Fdatasync(t)
    BY <2>5, SinkSync, LateSync DEF Fdatasync
  <2> QED
    BY <1>3, <2>1, <2>2, <2>3, <2>4, <2>5 DEF Step, Work
<1>4. CASE Destroy
  <2>1. CASE Kind = "file"
    BY <1>4, <2>1, SinkFlush, LateFlush DEF Destroy
  <2>2. CASE Kind # "file"
    BY <1>1, <1>4, <2>2 DEF Destroy, file
  <2> QED
    BY <2>1, <2>2
<1>5. osEnd \in diskEnd..osEnd
  BY DEF Base, TypeOK
<1>6. CASE DestroyFails
  BY <1>5, <1>6, SinkStop, LateStop DEF DestroyFails
<1>7. CASE Reopen
  BY <1>1, <1>7 DEF Reopen
<1>8. CASE Crash \/ PowerLoss
  <2>1. PICK n \in diskEnd..osEnd : Stop(n)
    BY <1>5, <1>8 DEF Crash, PowerLoss
  <2> QED
    BY <2>1, SinkStop, LateStop DEF Stop
<1>9. CASE UNCHANGED vars
  BY <1>1, <1>9 DEF vars, file
<1> QED
  BY <1>1, <1>2, <1>3, <1>4, <1>6, <1>7, <1>8, <1>9 DEF Next, Life, Rest

-----------------------------------------------------------------------------
(* A file on which none has                                                *)

(* Thread t alone moves.                                                   *)
Alone(t) ==
    \A u \in Threads \ {t} :
        pc'[u] = pc[u] /\ op'[u] = op[u] /\ lv'[u] = lv[u] /\ calls'[u] = calls[u]

LEMMA JobsAlone ==
    ASSUME NEW t \in Threads, Alone(t)
    PROVE  Jobs' = [Jobs EXCEPT ![t] = Job(t)']
<1>1. ASSUME NEW u \in Threads \ {t} PROVE Job(u)' = Job(u)
  BY DEF Alone, Job, Record
<1>2. Jobs = [u \in Threads |-> Job(u)] /\ Jobs' = [u \in Threads |-> Job(u)']
  BY DEF Jobs
<1> QED
  BY <1>1, <1>2

LEMMA JobsSame ==
    ASSUME \A u \in Threads : \/ pc'[u] = "idle" /\ pc[u] = "idle"
                              \/ /\ pc[u] # "idle" /\ pc'[u] # "idle" /\ Phase(pc'[u]) = Phase(pc[u])
                                 /\ op'[u] = op[u] /\ lv'[u] = lv[u] /\ calls'[u] = calls[u]
    PROVE  Jobs' = Jobs
<1>1. ASSUME NEW u \in Threads PROVE Job(u)' = Job(u)
  BY DEF Job, Record
<1> QED
  BY <1>1 DEF Jobs

(* Where the thread is, its job is.                                        *)
LEMMA JobIs ==
    ASSUME NEW t \in Threads
    PROVE  /\ pc[t] = "idle" => Log!At(t, "idle")
           /\ pc[t] # "idle" => /\ Log!At(t, Phase(pc[t]))
                               /\ Jobs[t].op = op[t] /\ Jobs[t].level = lv[t]
                               /\ Jobs[t].rec = Record(t)
<1>1. Jobs[t] = Job(t)
  BY DEF Jobs
<1> QED
  BY <1>1 DEF Log!At, Job

(* It goes on to the next phase of its call, or ends it.                   *)
LEMMA JobGoes ==
    ASSUME NEW t \in Threads, Alone(t), op'[t] = op[t], lv'[t] = lv[t], calls'[t] = calls[t],
           pc[t] # "idle", pc'[t] # "idle", NEW p, Phase(pc'[t]) = p
    PROVE  Log!Goto(t, p)
<1>2. Job(t)' = [phase |-> p, op |-> op[t], rec |-> Record(t), level |-> lv[t]]
  BY DEF Job, Record
<1>3. Jobs[t] = [phase |-> Phase(pc[t]), op |-> op[t], rec |-> Record(t), level |-> lv[t]]
  BY DEF Jobs, Job, Record
<1> DEFINE r == Record(t)
<1> HIDE DEF r
<1>4. [Jobs[t] EXCEPT !.phase = p] = [phase |-> p, op |-> op[t], rec |-> r, level |-> lv[t]]
  BY <1>3 DEF r
<1>5. Jobs' = [Jobs EXCEPT ![t] = [Jobs[t] EXCEPT !.phase = p]]
  BY <1>2, <1>4, JobsAlone DEF r
<1> QED
  BY <1>5 DEF Log!Goto, Log!Becomes

LEMMA JobEnds ==
    ASSUME NEW t \in Threads, Alone(t), pc'[t] = "idle"
    PROVE  Log!Becomes(t, Log!NoJob)
<1>1. Job(t)' = [phase |-> "idle"]
  BY DEF Job, Record
<1> QED
  BY <1>1, JobsAlone DEF Log!Becomes, Log!NoJob

LEMMA PhaseIs ==
    /\ Phase("gate") = "gate" /\ Phase("lock") = "enter"
    /\ Phase("write") = "write" /\ Phase("rest") = "write"
    /\ Phase("flush") = "flush" /\ Phase("fdatasync") = "sync" /\ Phase("unlock") = "return"
BY DEF Phase

LEMMA LevelsAre ==
    /\ Log!Level = Level /\ Log!DEBUG = DEBUG /\ Log!FATAL = FATAL
    /\ \A a, b : Log!Below(a, b) <=> Below(a, b)
BY DEF Log!Level, Log!DEBUG, Log!OFF, Log!FATAL, Log!Below, Level, DEBUG, OFF, FATAL, Below

LEMMA SinkSame == UNCHANGED file => UNCHANGED LogSink
BY DEF file, LogSink

LEMMA GoodCalls ==
    ASSUME Base, Base', NEW t \in Threads, Calls(t)
    PROVE  Log!Step(t)
<1>1. PICK o \in {"append", "flush", "sync"}, level \in Level, where \in {"idle", "gate", "lock"} :
         /\ Begin(t, o, level, where)
         /\ where # "idle" => mlevel' = mlevel
         /\ where = "idle" => mlevel' \in Level
         /\ where = "gate" => o = "append"
         /\ where = "lock" => o \in {"flush", "sync"}
  <2>1. DEBUG \in Level /\ Levels \subseteq Level
    BY AppenderAssumption DEF DEBUG, Level, OFF
  <2> QED
    BY <2>1 DEF Calls, CallAppend, CallDrain, SetLevel
<1>2. /\ open /\ pc[t] = "idle" /\ Alone(t) /\ pc'[t] = where
      /\ op'[t] = o /\ lv'[t] = level
      /\ UNCHANGED <<file, open, outages>>
  BY <1>1 DEF Begin, Alone, Goto, stops, Base, TypeOK
<1>3. Log!At(t, "idle") /\ UNCHANGED LogSink /\ Jobs' = [Jobs EXCEPT ![t] = Job(t)']
  BY <1>2, JobIs, JobsAlone, SinkSame
<1>4. CASE where = "idle"
  <2>1. Jobs' = Jobs
    <3>1. \A u \in Threads : u # t => pc'[u] = pc[u] /\ op'[u] = op[u] /\ lv'[u] = lv[u] /\ calls'[u] = calls[u]
      BY <1>2 DEF Alone
    <3> QED
      BY <1>2, <1>4, <3>1, JobsSame
  <2>2. Log!SetLevel(t)
    BY <1>1, <1>2, <1>3, <1>4, <2>1, LevelsAre DEF Log!SetLevel
  <2> QED
    BY <2>2 DEF Log!Step
<1>5. CASE where # "idle"
  <2>1. Record(t)' \in Records
    <3>1. calls'[t] \in 0..MaxCalls
      BY DEF Base, TypeOK
    <3> QED
      BY <3>1 DEF Record, Records
  <2>2. Job(t)' = [phase |-> Phase(where), op |-> o, rec |-> Record(t)', level |-> level]
    BY <1>2, <1>5 DEF Job, Record
  <2>3. Phase(where) = IF where = "gate" THEN "gate" ELSE "enter"
    BY <1>5, PhaseIs
  <2>4. Job(t)' \in Log!Call
    <3> DEFINE r == Record(t)'
    <3>1. r \in Records
      BY <2>1
    <3>2. Job(t)' = [phase |-> Phase(where), op |-> o, rec |-> r, level |-> level]
      BY <2>2
    <3> HIDE DEF r
    <3>3. CASE where = "gate"
      <4>1. Job(t)' = [phase |-> "gate", op |-> "append", rec |-> r, level |-> level]
        BY <1>1, <2>3, <3>2, <3>3
      <4> QED
        BY <3>1, <4>1, LevelsAre DEF Log!Call
    <3>4. CASE where = "lock"
      <4>1. Job(t)' = [phase |-> "enter", op |-> o, rec |-> r, level |-> level]
        BY <2>3, <3>2, <3>4
      <4>2. o \in {"flush", "sync"}
        BY <1>1, <3>4
      <4> QED
        BY <3>1, <4>1, <4>2, LevelsAre DEF Log!Call
    <3> QED
      BY <1>5, <3>3, <3>4
  <2>5. Jobs'[t] = Job(t)'
    BY <1>3 DEF Jobs
  <2>6. mlevel' = mlevel
    BY <1>1, <1>5
  <2>7. Log!Take(t)
    BY <1>2, <1>3, <2>4, <2>5, <2>6 DEF Log!Take, Log!Becomes
  <2> QED
    BY <2>7 DEF Log!Step
<1> QED
  BY <1>4, <1>5

LEMMA GoodStep ==
    ASSUME Base, Base', NEW t \in Threads, Step(t), ~failed'
    PROVE  Log!Step(t) \/ UNCHANGED <<LogSink, Jobs>>
<1>1. /\ UNCHANGED <<mlevel, open, op, lv, calls, outages>> /\ Alone(t) /\ pc[t] # "idle"
      /\ op'[t] = op[t] /\ lv'[t] = lv[t] /\ calls'[t] = calls[t]
  <2>1. /\ UNCHANGED <<mlevel, open, op, lv, calls, outages>> /\ pc[t] # "idle"
        /\ \A u \in Threads \ {t} : pc'[u] = pc[u]
    BY DEF Step, Work, Fail, Gate, Lock, LockThrows, Write, WriteRest, WriteFails, Flush, FlushFails,
       Fdatasync, FdatasyncFails, Unlock, Goto, stops, Base, TypeOK
  <2> QED
    BY <2>1 DEF Alone
<1>2. /\ Log!At(t, Phase(pc[t]))
      /\ Jobs[t].op = op[t] /\ Jobs[t].level = lv[t] /\ Jobs[t].rec = Record(t)
  BY <1>1, JobIs
<1>3. ASSUME pc'[t] # "idle", NEW p, Phase(pc'[t]) = p PROVE Log!Goto(t, p)
  BY <1>1, <1>3, JobGoes
<1>4. pc'[t] = "idle" => Log!Becomes(t, Log!NoJob)
  BY <1>1, JobEnds
<1>5. CASE Gate(t)
  <2>1. /\ pc[t] = "gate" /\ UNCHANGED file
        /\ pc'[t] = IF Below(lv[t], mlevel) THEN "idle" ELSE "lock"
    BY <1>5 DEF Gate, Goto, Base, TypeOK
  <2>2. Log!At(t, "gate") /\ UNCHANGED LogSink
    BY <1>2, <2>1, PhaseIs, SinkSame
  <2>3. IF Below(lv[t], mlevel) THEN Log!Becomes(t, Log!NoJob) ELSE Log!Goto(t, "enter")
    BY <1>3, <1>4, <2>1, PhaseIs
  <2>4. IF Log!Below(Jobs[t].level, mlevel) THEN Log!Becomes(t, Log!NoJob) ELSE Log!Goto(t, "enter")
    BY <1>2, <2>3, LevelsAre
  <2>5. Log!Gate(t)
    BY <1>1, <2>2, <2>4 DEF Log!Gate
  <2> QED
    BY <2>5 DEF Log!Step
<1>6. CASE Lock(t)
  <2>1. /\ pc[t] = "lock" /\ UNCHANGED file
        /\ pc'[t] = IF op[t] = "append" THEN "write" ELSE "flush"
    BY <1>6 DEF Lock, Goto, Base, TypeOK
  <2>2. Log!At(t, "enter") /\ UNCHANGED LogSink
    BY <1>2, <2>1, PhaseIs, SinkSame
  <2>3. Log!Goto(t, IF Jobs[t].op = "append" THEN "write" ELSE "flush")
    BY <1>2, <1>3, <2>1, PhaseIs
  <2>4. Log!Enter(t)
    BY <1>1, <2>2, <2>3 DEF Log!Enter
  <2> QED
    BY <2>4 DEF Log!Step
<1>7. CASE LockThrows(t)
  <2>1. pc[t] = "lock" /\ UNCHANGED file /\ pc'[t] = "idle" /\ MayFail
    BY <1>7 DEF LockThrows, Goto, Base, TypeOK
  <2>2. Log!At(t, "enter") /\ UNCHANGED LogSink
    BY <1>2, <2>1, PhaseIs, SinkSame
  <2>3. Log!Reject(t)
    BY <1>1, <1>4, <2>1, <2>2 DEF Log!Reject
  <2> QED
    BY <2>3 DEF Log!Step
<1>8. CASE Write(t)
  <2>1. pc[t] = "write" /\ Put(t, 1) /\ pc'[t] = "rest"
    BY <1>8 DEF Write, Goto, Base, TypeOK
  <2>2. PICK n \in LogSink.flushed..Len(LogSink.lines) : LogSink' = Log!Spilled(LogSink, n)
    <3>1. Put(t, 1) /\ 1 \in {1, 2} /\ 1 # 2
      BY <2>1
    <3> QED
      BY <3>1, SinkPut
  <2>3. Log!At(t, "write")
    BY <1>2, <2>1, PhaseIs
  <2>4. Jobs' = Jobs
    <3>1. Phase(pc'[t]) = Phase(pc[t]) /\ pc[t] # "idle" /\ pc'[t] # "idle"
      BY <2>1, PhaseIs
    <3>2. \A u \in Threads : u # t => pc'[u] = pc[u] /\ op'[u] = op[u] /\ lv'[u] = lv[u] /\ calls'[u] = calls[u]
      BY <1>1 DEF Alone
    <3>3. \A u \in Threads : u # t => Phase(pc'[u]) = Phase(pc[u])
      BY <3>2
    <3> QED
      BY <1>1, <3>1, <3>2, <3>3, JobsSame
  <2>5. Log!Spill(t)
    BY <1>1, <2>2, <2>3, <2>4 DEF Log!Spill
  <2> QED
    BY <2>5 DEF Log!Step
<1>9. CASE WriteRest(t)
  <2>1. /\ pc[t] = "rest" /\ Put(t, 2)
        /\ pc'[t] = IF lv[t] = FATAL THEN "flush" ELSE "unlock"
    BY <1>9 DEF WriteRest, AfterWrite, Goto, Base, TypeOK
  <2>2. Len(stream) >= 1 /\ stream[Len(stream)] = [rec |-> Record(t), part |-> 1]
    BY <2>1 DEF Base, WriterOK
  <2>3. PICK n \in LogSink.flushed..Len(LogSink.lines) + 1 :
           LogSink' = Log!Spilled(Log!Wrote(LogSink, Record(t), FALSE), n)
    BY <2>1, <2>2, SinkPut
  <2>4. Log!At(t, "write") /\ LogSink' = Log!Spilled(Log!Wrote(LogSink, Jobs[t].rec, FALSE), n)
    BY <1>2, <2>1, <2>3, PhaseIs
  <2>5. Log!Goto(t, IF Jobs[t].level = Log!FATAL THEN "flush" ELSE "return")
    BY <1>2, <1>3, <2>1, PhaseIs, LevelsAre
  <2>6. Log!Write(t)
    BY <1>1, <2>4, <2>5 DEF Log!Write
  <2> QED
    BY <2>6 DEF Log!Step
<1>10. CASE Flush(t)
  <2>1. /\ pc[t] = "flush" /\ LogSink' = Log!Flushed(LogSink)
        /\ pc'[t] = IF op[t] = "sync" /\ Kind = "file" THEN "fdatasync" ELSE "unlock"
    BY <1>10, SinkFlush DEF Flush, AfterFlush, Goto, Base, TypeOK
  <2>2. Log!At(t, "flush")
    BY <1>2, <2>1, PhaseIs
  <2>3. Log!Goto(t, IF Jobs[t].op = "sync" /\ Kind = "file" THEN "sync" ELSE "return")
    BY <1>2, <1>3, <2>1, PhaseIs
  <2>4. Log!Flush(t)
    BY <1>1, <2>1, <2>2, <2>3 DEF Log!Flush
  <2> QED
    BY <2>4 DEF Log!Step
<1>11. CASE Fdatasync(t)
  <2>1. /\ pc[t] = "fdatasync" /\ LogSink' = [LogSink EXCEPT !.synced = LogSink.flushed]
        /\ pc'[t] = "unlock"
    BY <1>11, SinkSync DEF Fdatasync, Goto, Base, TypeOK
  <2>2. Log!At(t, "sync") /\ Log!Goto(t, "return")
    BY <1>2, <1>3, <2>1, PhaseIs
  <2>3. Log!Sync(t)
    BY <1>1, <2>1, <2>2 DEF Log!Sync
  <2> QED
    BY <2>3 DEF Log!Step
<1>12. CASE Unlock(t)
  <2>1. pc[t] = "unlock" /\ UNCHANGED file /\ pc'[t] = "idle"
    BY <1>12 DEF Unlock, Goto, Base, TypeOK
  <2>2. Log!At(t, "return") /\ UNCHANGED LogSink
    BY <1>2, <2>1, PhaseIs, SinkSame
  <2>3. Log!Return(t)
    BY <1>1, <1>4, <2>1, <2>2 DEF Log!Return
  <2> QED
    BY <2>3 DEF Log!Step
<1>13. CASE WriteFails(t) \/ FlushFails(t) \/ FdatasyncFails(t)
  BY <1>13 DEF WriteFails, FlushFails, FdatasyncFails
<1> QED
  BY <1>5, <1>6, <1>7, <1>8, <1>9, <1>10, <1>11, <1>12, <1>13 DEF Step, Work, Fail

LEMMA GoodLife ==
    ASSUME Base, Base', Life, ~failed'
    PROVE  Log!Close \/ Log!Reopen \/ Log!Crash \/ Log!PowerLoss
<1>1. CASE Destroy
  <2>1. /\ open /\ ~open' /\ UNCHANGED <<mlevel, pc, op, lv, calls, outages>>
        /\ \A u \in Threads : pc[u] = "idle" /\ pc'[u] = "idle"
    BY <1>1 DEF Destroy, Quiet, stops
  <2>2. Jobs' = Jobs
    BY <2>1, JobsSame
  <2>3. Log!Quiet
    BY <2>1, JobIs DEF Log!Quiet
  <2>4. LogSink' = IF Kind = "file" THEN Log!Flushed(LogSink) ELSE LogSink
    <3>1. CASE Kind = "file"
      BY <1>1, <3>1, SinkFlush DEF Destroy
    <3>2. CASE Kind # "file"
      BY <1>1, <3>2, SinkSame DEF Destroy, file
    <3> QED
      BY <3>1, <3>2
  <2>5. open' = FALSE
    BY <1>1 DEF Destroy
  <2>6. Log!Close
    BY <2>1, <2>2, <2>3, <2>4, <2>5 DEF Log!Close
  <2> QED
    BY <2>6
<1>2. CASE DestroyFails
  BY <1>2 DEF DestroyFails
<1>3. CASE Reopen
  <2>1. /\ ~open /\ open' = TRUE /\ mlevel' = DEBUG /\ UNCHANGED LogSink
        /\ UNCHANGED <<pc, op, lv, calls, outages>>
    BY <1>3, SinkSame DEF Reopen, stops
  <2>2. Jobs' = Jobs
    BY <2>1, JobsSame
  <2>3. Log!Reopen
    BY <2>1, <2>2, LevelsAre DEF Log!Reopen
  <2> QED
    BY <2>3
<1>4. ASSUME NEW n, Stop(n), NEW m, LogSink' = Log!Survivors(LogSink, m) PROVE Log!Stop(m)
  <2>1. open' = FALSE /\ mlevel' = mlevel /\ \A u \in Threads : pc'[u] = "idle"
    BY <1>4 DEF Stop
  <2>2. ASSUME NEW u \in Threads PROVE Job(u)' = [phase |-> "idle"]
    BY <2>1 DEF Job, Record
  <2>3. Jobs' = [u \in Threads |-> [phase |-> "idle"]]
    BY <2>2 DEF Jobs
  <2> QED
    BY <1>4, <2>1, <2>3 DEF Log!Stop, Log!NoJob
<1>5. osEnd \in diskEnd..osEnd
  BY DEF Base, TypeOK
<1>6. CASE Crash
  <2>1. Stop(osEnd) /\ UNCHANGED outages
    BY <1>6 DEF Crash
  <2>2. LogSink' = Log!Survivors(LogSink, LogSink.flushed)
    BY <1>5, <2>1, SinkStop DEF Stop
  <2>3. Log!Stop(LogSink.flushed)
    BY <1>4, <2>1, <2>2
  <2> QED
    BY <2>1, <2>3 DEF Log!Crash
<1>7. CASE PowerLoss
  <2>1. PICK n \in diskEnd..osEnd : Stop(n)
    BY <1>7 DEF PowerLoss
  <2>2. PICK m \in LogSink.synced..LogSink.flushed : LogSink' = Log!Survivors(LogSink, m)
    BY <2>1, SinkStop DEF Stop
  <2>3. Log!Stop(m)
    BY <1>4, <2>1, <2>2
  <2>4. outages' = outages + 1
    BY <1>7 DEF PowerLoss
  <2> QED
    BY <2>2, <2>3, <2>4 DEF Log!PowerLoss
<1> QED
  BY <1>1, <1>2, <1>3, <1>6, <1>7 DEF Life

(* As long as no operation on the file has failed each step is one of the  *)
(* log, and afterwards one of a log that is late.                          *)
LEMMA LogStep == ASSUME Base, Base', [Next]_vars PROVE [Log!Next]_Log!vars
<1>1. CASE failed'
  <2>1. MayFail
    BY <1>1 DEF Base, TypeOK
  <2>2. Log!Late!Next \/ UNCHANGED LogSink
    BY LateStep
  <2> QED
    BY <1>1, <2>1, <2>2 DEF Log!Next, LogSink
<1>2. CASE ~failed'
  <2>1. UNCHANGED <<LogSink, Jobs, mlevel, open, outages, failed>> => UNCHANGED Log!vars
    BY DEF Log!vars
  <2>2. Log!Good /\ ~failed => Log!Next
    BY <1>2 DEF Log!Next
  <2>3. CASE UNCHANGED vars
    <3>1. UNCHANGED <<pc, op, lv, calls, mlevel, open, outages, failed>> /\ UNCHANGED file
      BY <2>3 DEF vars, file
    <3>2. Jobs' = Jobs
      BY <3>1, JobsSame
    <3> QED
      BY <2>1, <3>1, <3>2, SinkSame
  <2>4. ASSUME NEW t \in Threads, Calls(t) PROVE Log!Next
    <3>1. ~failed
      BY <1>2, <2>4 DEF Calls, CallAppend, CallDrain, SetLevel, Begin
    <3> QED
      BY <2>2, <2>4, <3>1, GoodCalls DEF Log!Good
  <2>5. ASSUME NEW t \in Threads, Step(t) PROVE [Log!Next]_Log!vars
    <3>1. ~failed /\ UNCHANGED <<mlevel, open, outages, failed>>
      BY <1>2, <2>5 DEF Step, Work, Fail, Gate, Lock, LockThrows, Write, WriteRest, WriteFails,
         Flush, FlushFails, Fdatasync, FdatasyncFails, Unlock, stops, Base, TypeOK
    <3> QED
      BY <1>2, <2>1, <2>2, <2>5, <3>1, GoodStep DEF Log!Good
  <2>6. CASE Life
    <3>1. ~failed
      BY <1>2, <2>6 DEF Life, Destroy, DestroyFails, Reopen, Crash, PowerLoss, Stop
    <3> QED
      BY <1>2, <2>2, <2>6, <3>1, GoodLife DEF Log!Good
  <2> QED
    BY <2>3, <2>4, <2>5, <2>6 DEF Next, Rest
<1> QED
  BY <1>1, <1>2

LEMMA LogInit == Init => Log!Init
<1> SUFFICES ASSUME Init PROVE Log!Init
  OBVIOUS
<1>1. stream = <<>> /\ osEnd = 0 /\ diskEnd = 0 /\ <<>> \in Seq(Chunk) /\ Len(<<>>) = 0
  BY DEF Init
<1>2. Lines(stream)[0] = <<>>
  BY <1>1, LinesAre DEF LinesTo
<1>3. LogSink = [lines |-> <<>>, flushed |-> 0, synced |-> 0]
  BY <1>1, <1>2 DEF LogSink
<1>4. Jobs = [t \in Threads |-> [phase |-> "idle"]]
  <2>1. ASSUME NEW t \in Threads PROVE Job(t) = [phase |-> "idle"]
    BY DEF Init, Job
  <2> QED
    BY <2>1 DEF Jobs
<1>5. mlevel = Log!DEBUG /\ open = TRUE /\ outages = 0 /\ failed = FALSE
  BY LevelsAre DEF Init
<1> QED
  BY <1>3, <1>4, <1>5 DEF Log!Init, Log!Empty, Log!NoJob

(* Chunks, mutex, stdio buffer and the life of the file are one log on     *)
(* which every call acts at one moment: for any number of threads, calls,  *)
(* crashes and power losses.                                               *)
THEOREM OneLog == Spec => AppendsToOneLog
<1>1. Base /\ Base' /\ [Next]_vars => [Log!Next]_Log!vars
  BY LogStep
<1>2. Base /\ PromiseOK => Base
  OBVIOUS
<1>3. Log!Spec <=> Log!Init /\ [][Log!Next]_Log!vars
  BY PTL DEF Log!Spec
<1> QED
  BY <1>1, <1>2, <1>3, LogInit, Invariance, PTL DEF Spec, AppendsToOneLog

=============================================================================
