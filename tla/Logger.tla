------------------------------- MODULE Logger -------------------------------
(***************************************************************************)
(* pans::Logger: threads that log through, drain and reconfigure shared    *)
(* loggers.                                                                *)
(*                                                                         *)
(* A log statement is two calls of the library with no lock between them:  *)
(* the macro asks shouldLog(), then the LogLine it built submits when it   *)
(* is destroyed.  Each reads the atomic level and looks at the appender    *)
(* list under a shared lock, and each falls back to the root logger, lock  *)
(* released, when the list is empty.  submit(), flush() and sync() walk    *)
(* the list with the shared lock held; the configuration calls replace the *)
(* list or the formatter with the lock exclusive.                          *)
(*                                                                         *)
(* An exclusive section is one step, guarded by the absence of readers:    *)
(* the fields it writes are touched only under the lock.  So is a shared   *)
(* section that only looks whether the list is empty.  An appender's       *)
(* operations are atomic here; module Appender shows that they may be.     *)
(***************************************************************************)
EXTENDS LogLevel, Sink, FiniteSets

CONSTANTS
    Threads, Loggers, Appenders, Formatters,
    None,           \* the null pointer
    Root,           \* Logger::Impl::m_root of every logger
    Levels,         \* the levels in use
    Default,        \* the formatter every logger is created with
    InitLists,      \* the lists, levels and thresholds that a program may have
    InitLevels,     \* set up before it starts its threads
    InitThresholds,
    Program,        \* the operations each thread calls
    MaxCalls,       \* bound: the calls of one thread
    MayFail         \* whether allocations and mutexes may throw

(* LoggerManager sets m_root once, before it publishes a logger, and leaves *)
(* the root logger's own m_root null.                                       *)
ASSUME RootAssumption ==
    /\ None \notin Loggers \cup Appenders \cup Formatters
    /\ Root \in [Loggers -> Loggers \cup {None}]
    /\ \A lg \in Loggers : Root[lg] # None => Root[Root[lg]] = None

ASSUME ParameterAssumption ==
    /\ Levels \subseteq Level
    /\ Default \in Formatters
    /\ InitLists \subseteq [Loggers -> Seq(Appenders)]
    /\ InitLevels \subseteq [Loggers -> Level]
    /\ InitThresholds \subseteq [Appenders -> Level]
    /\ MaxCalls \in Nat
    /\ MayFail \in BOOLEAN

VARIABLES
    level,          \* Logger::Impl::m_level
    formatter,      \* Logger::Impl::m_formatter
    appenders,      \* Logger::Impl::m_appenders
    readers,        \* the threads that hold Logger::Impl::m_mutex shared
    threshold,      \* Appender::Impl::m_level
    sink,           \* what each appender has been given
    pc, call, cur,  \* per thread: where it is, in which call, in which logger
    idx,            \* per thread: the position of the range-for over the list
    text,           \* per thread: the formatter that rendered the record
    calls,          \* per thread: calls made so far
    result,         \* ghost, per thread: how the call ended
    stable,         \* ghost: no configuration has changed since the call began
    seen,           \* ghost: the loggers that would have turned its record away
                    \* at some moment of the call, and why
    snap,           \* ghost: the list as it was when the call took the lock
    mark            \* ghost: the lengths of the sinks when the call began

config == <<level, formatter, appenders, threshold>>
ghosts == <<result, stable, seen, snap, mark>>
vars   == <<level, formatter, appenders, threshold, readers, sink,
            pc, call, cur, idx, text, calls, result, stable, seen, snap, mark>>

DrainOps  == {"flush", "sync"}
ConfigOps == {"addAppender", "removeAppender", "clearAppenders", "setFormatter"}
Ops       == {"log", "setLevel", "appenderSetLevel"} \cup DrainOps \cup ConfigOps

(* A record is named by the call that made it.                             *)
Records == Threads \X (0..MaxCalls)

Record(t) == <<t, calls[t]>>

Call == [op : Ops, logger : Loggers \cup {None}, level : Level,
         arg : Appenders \cup Formatters \cup {None}]

TakesArg(op, arg) ==
    \/ op \in {"addAppender", "removeAppender"} /\ arg \in Appenders
    \/ op = "setFormatter" /\ arg \in Formatters
    \/ op = "clearAppenders" /\ arg = None

Line == [rec : Records, level : Level, fmt : Formatters, via : Loggers]

Where == {"idle", "shouldLog", "probe", "submit", "enter", "format", "append",
          "write", "drain", "leave", "exclusive"}

(* Inside submit(), flush() or sync(), with the shared lock held.          *)
Inside == {"format", "append", "write", "drain", "leave"}

TypeOK ==
    /\ level \in [Loggers -> Level]
    /\ formatter \in [Loggers -> Formatters]
    /\ appenders \in [Loggers -> Seq(Appenders)]
    /\ threshold \in [Appenders -> Level]
    /\ readers \in [Loggers -> SUBSET Threads]
    /\ sink \in [Appenders -> [lines : Seq(Line), flushed : Nat, synced : Nat]]
    /\ pc \in [Threads -> Where]
    /\ call \in [Threads -> Call \cup {None}]
    /\ cur \in [Threads -> Loggers \cup {None}]
    /\ idx \in [Threads -> Nat]
    /\ text \in [Threads -> Formatters \cup {None}]
    /\ calls \in [Threads -> 0..MaxCalls]
    /\ result \in [Threads -> {"none", "ok", "filtered", "dropped", "nowhere",
                               "threw", "rejected"}]
    /\ stable \in [Threads -> BOOLEAN]
    /\ seen \in [Threads -> [high : SUBSET Loggers, empty : SUBSET Loggers]]
    /\ snap \in [Threads -> Seq(Appenders)]
    /\ mark \in [Threads -> [Appenders -> Nat]]

-----------------------------------------------------------------------------

Init ==
    /\ level \in InitLevels
    /\ formatter = [lg \in Loggers |-> Default]
    /\ appenders \in InitLists
    /\ threshold \in InitThresholds
    /\ readers = [lg \in Loggers |-> {}]
    /\ sink = [a \in Appenders |-> Empty]
    /\ pc = [t \in Threads |-> "idle"]
    /\ call = [t \in Threads |-> None]
    /\ cur = [t \in Threads |-> None]
    /\ idx = [t \in Threads |-> 0]
    /\ text = [t \in Threads |-> None]
    /\ calls = [t \in Threads |-> 0]
    /\ result = [t \in Threads |-> "none"]
    /\ stable = [t \in Threads |-> FALSE]
    /\ seen = [t \in Threads |-> [high |-> {}, empty |-> {}]]
    /\ snap = [t \in Threads |-> <<>>]
    /\ mark = [t \in Threads |-> [a \in Appenders |-> 0]]

(* A thread that is in no call of the library makes one.                   *)
Begin(t, c, where) ==
    /\ pc[t] = "idle"
    /\ c.op \in Program[t]
    /\ calls[t] < MaxCalls
    /\ calls'  = [calls EXCEPT ![t] = @ + 1]
    /\ call'   = [call EXCEPT ![t] = c]
    /\ cur'    = [cur EXCEPT ![t] = c.logger]
    /\ idx'    = [idx EXCEPT ![t] = 0]
    /\ text'   = [text EXCEPT ![t] = None]
    /\ pc'     = [pc EXCEPT ![t] = where]
    /\ snap'   = [snap EXCEPT ![t] = <<>>]
    /\ mark'   = [mark EXCEPT ![t] = [a \in Appenders |-> Len(sink[a].lines)]]

Goto(t, where) == pc' = [pc EXCEPT ![t] = where]

Return(t, how) ==
    /\ Goto(t, "idle")
    /\ result' = [result EXCEPT ![t] = how]

(* The loggers that turn a record of level lv away, and why.               *)
Refusing(lv) == [high  |-> {lg \in Loggers : Below(lv, level[lg])},
                 empty |-> {lg \in Loggers : appenders[lg] = <<>>}]

(* A configuration change reaches every call that is under way.            *)
Disturb ==
    /\ stable' = [t \in Threads |-> FALSE]
    /\ seen' = [t \in Threads |->
                   IF pc[t] # "idle" /\ call[t].op = "log"
                   THEN LET now == Refusing(call[t].level)'
                        IN  [high  |-> seen[t].high \cup now.high,
                             empty |-> seen[t].empty \cup now.empty]
                   ELSE seen[t]]

(* The operations that only start: the rest of the call takes more steps.  *)
Start(t, c, where) ==
    /\ Begin(t, c, where)
    /\ result' = [result EXCEPT ![t] = "none"]
    /\ stable' = [stable EXCEPT ![t] = TRUE]
    /\ seen' = [seen EXCEPT ![t] = Refusing(c.level)]
    /\ UNCHANGED <<config, readers, sink>>

(* PANS_LOG_LEVEL(logger, level) << ...                                    *)
CallLog(t) ==
    \E lg \in Loggers, lv \in Levels :
        Start(t, [op |-> "log", logger |-> lg, level |-> lv, arg |-> None], "shouldLog")

(* Logger::flush() and Logger::sync().                                     *)
CallDrain(t) ==
    \E lg \in Loggers, op \in DrainOps :
        Start(t, [op |-> op, logger |-> lg, level |-> DEBUG, arg |-> None], "enter")

(* The calls that take the lock of the logger exclusive.                   *)
CallConfig(t) ==
    \E lg \in Loggers, op \in ConfigOps, arg \in Appenders \cup Formatters \cup {None} :
        /\ TakesArg(op, arg)
        /\ Start(t, [op |-> op, logger |-> lg, level |-> DEBUG, arg |-> arg], "exclusive")

(* addAppender(nullptr) returns at its assertion, and setFormatter() with a *)
(* pattern that does not parse throws: both before the lock is taken.       *)
RejectedCall(t) ==
    \E lg \in Loggers, op \in {"addAppender", "setFormatter"} :
        /\ Begin(t, [op |-> op, logger |-> lg, level |-> DEBUG, arg |-> None], "idle")
        /\ result' = [result EXCEPT ![t] = "rejected"]
        /\ stable' = [stable EXCEPT ![t] = TRUE]
        /\ UNCHANGED <<config, readers, sink, seen>>

-----------------------------------------------------------------------------
(* Logger::Impl::shouldLog                                                 *)

ShouldLog(t) ==
    /\ pc[t] = "shouldLog"
    /\ IF Below(call[t].level, level[cur[t]])
       THEN Return(t, "filtered")
       ELSE Goto(t, "probe") /\ UNCHANGED result
    /\ UNCHANGED <<config, readers, sink, call, cur, idx, text, calls, stable, seen, snap, mark>>

(* The list is not empty: the macro goes on to the LogLine and its submit. *)
ProbeYes(t) ==
    /\ pc[t] = "probe"
    /\ appenders[cur[t]] # <<>>
    /\ Goto(t, "submit")
    /\ cur' = [cur EXCEPT ![t] = call[t].logger]
    /\ UNCHANGED <<config, readers, sink, call, idx, text, calls, ghosts>>

(* m_root != nullptr && m_root->shouldLog(level)                           *)
ProbeRoot(t) ==
    /\ pc[t] = "probe"
    /\ appenders[cur[t]] = <<>>
    /\ IF Root[cur[t]] = None
       THEN Return(t, "filtered") /\ UNCHANGED cur
       ELSE /\ Goto(t, "shouldLog")
            /\ cur' = [cur EXCEPT ![t] = Root[cur[t]]]
            /\ UNCHANGED result
    /\ UNCHANGED <<config, readers, sink, call, idx, text, calls, stable, seen, snap, mark>>

-----------------------------------------------------------------------------
(* Logger::Impl::submit, flush and sync                                    *)

SubmitLevel(t) ==
    /\ pc[t] = "submit"
    /\ IF Below(call[t].level, level[cur[t]])
       THEN Return(t, "dropped")
       ELSE Goto(t, "enter") /\ UNCHANGED result
    /\ UNCHANGED <<config, readers, sink, call, cur, idx, text, calls, stable, seen, snap, mark>>

(* The shared lock is taken and kept: there are appenders.                 *)
Enter(t) ==
    /\ pc[t] = "enter"
    /\ appenders[cur[t]] # <<>>
    /\ readers' = [readers EXCEPT ![cur[t]] = @ \cup {t}]
    /\ snap' = [snap EXCEPT ![t] = appenders[cur[t]]]
    /\ idx' = [idx EXCEPT ![t] = 1]
    /\ Goto(t, IF call[t].op = "log" THEN "format" ELSE "drain")
    /\ UNCHANGED <<config, sink, call, cur, text, calls, result, stable, seen, mark>>

(* Faulty: flush() and sync() stop at a logger with no appenders.          *)
FallBackForLogOnly(t) ==
    /\ pc[t] = "enter"
    /\ appenders[cur[t]] = <<>>
    /\ IF Root[cur[t]] = None \/ call[t].op # "log"
       THEN Return(t, "ok") /\ UNCHANGED cur
       ELSE /\ cur' = [cur EXCEPT ![t] = Root[cur[t]]]
            /\ Goto(t, "submit")
            /\ UNCHANGED result
    /\ UNCHANGED <<config, readers, sink, call, idx, text, calls, stable, seen, snap, mark>>

(* There are none: the lock is released and the root does all of it again, *)
(* the level test of submit() included.                                    *)
FallBack(t) ==
    /\ pc[t] = "enter"
    /\ appenders[cur[t]] = <<>>
    /\ IF Root[cur[t]] = None
       THEN Return(t, "nowhere") /\ UNCHANGED cur
       ELSE /\ cur' = [cur EXCEPT ![t] = Root[cur[t]]]
            /\ Goto(t, IF call[t].op = "log" THEN "submit" ELSE "enter")
            /\ UNCHANGED result
    /\ UNCHANGED <<config, readers, sink, call, idx, text, calls, stable, seen, snap, mark>>

(* The record is rendered once for all appenders.                          *)
Format(t) ==
    /\ pc[t] = "format"
    /\ text' = [text EXCEPT ![t] = formatter[cur[t]]]
    /\ Goto(t, "append")
    /\ UNCHANGED <<config, readers, sink, call, cur, idx, calls, ghosts>>

(* A long record did not fit on the heap: catch(...), nothing is appended. *)
FormatThrows(t) ==
    /\ MayFail
    /\ pc[t] = "format"
    /\ result' = [result EXCEPT ![t] = "threw"]
    /\ Goto(t, "leave")
    /\ UNCHANGED <<config, readers, sink, call, cur, idx, text, calls, stable, seen, snap, mark>>

(* The appender the range-for is at.                                       *)
Here(t) == appenders[cur[t]][idx[t]]
MoreButOne(t) == idx[t] < Len(appenders[cur[t]])       \* faulty: off by one
More(t) == idx[t] <= Len(appenders[cur[t]])
Advance(t) == idx' = [idx EXCEPT ![t] = @ + 1]

(* Faulty: a loop that skips its increment when the appender refuses.      *)
GateWithoutAdvance(t) ==
    /\ pc[t] = "append"
    /\ More(t)
    /\ Goto(t, IF Below(call[t].level, threshold[Here(t)]) THEN "append" ELSE "write")
    /\ UNCHANGED <<config, readers, sink, call, cur, idx, text, calls, ghosts>>

(* Appender::Impl::append: its level test, before its mutex is taken.      *)
Gate(t) ==
    /\ pc[t] = "append"
    /\ More(t)
    /\ IF Below(call[t].level, threshold[Here(t)])
       THEN Advance(t) /\ UNCHANGED pc
       ELSE Goto(t, "write") /\ UNCHANGED idx
    /\ UNCHANGED <<config, readers, sink, call, cur, text, calls, ghosts>>

Write(t) ==
    /\ pc[t] = "write"
    /\ sink' = [sink EXCEPT ![Here(t)] =
                    Wrote(@, [rec |-> Record(t), level |-> call[t].level,
                              fmt |-> text[t], via |-> cur[t]],
                          call[t].level = FATAL)]
    /\ Advance(t)
    /\ Goto(t, "append")
    /\ UNCHANGED <<config, readers, call, cur, text, calls, ghosts>>

(* Faulty: append does not catch, so that submit's catch(...) ends the walk. *)
WriteThrowsOut(t) ==
    /\ MayFail
    /\ pc[t] = "write"
    /\ result' = [result EXCEPT ![t] = "threw"]
    /\ Goto(t, "leave")
    /\ UNCHANGED <<config, readers, sink, call, cur, idx, text, calls, stable, seen, snap, mark>>

(* The mutex of the appender threw: catch(...) in append, the loop goes on. *)
WriteThrows(t) ==
    /\ MayFail
    /\ pc[t] = "write"
    /\ result' = [result EXCEPT ![t] = "threw"]
    /\ Advance(t)
    /\ Goto(t, "append")
    /\ UNCHANGED <<config, readers, sink, call, cur, text, calls, stable, seen, snap, mark>>

Drain(t) ==
    /\ pc[t] = "drain"
    /\ More(t)
    /\ sink' = [sink EXCEPT ![Here(t)] = IF call[t].op = "sync" THEN Synced(@) ELSE Flushed(@)]
    /\ Advance(t)
    /\ UNCHANGED <<config, readers, pc, call, cur, text, calls, ghosts>>

(* Here nobody catches: the exception leaves flush() or sync().            *)
DrainThrows(t) ==
    /\ MayFail
    /\ pc[t] = "drain"
    /\ More(t)
    /\ result' = [result EXCEPT ![t] = "threw"]
    /\ Goto(t, "leave")
    /\ UNCHANGED <<config, readers, sink, call, cur, idx, text, calls, stable, seen, snap, mark>>

(* Faulty: a record goes to the root too, as in loggers that are additive. *)
LeaveForRoot(t) ==
    /\ \/ pc[t] = "leave"
       \/ pc[t] \in {"append", "drain"} /\ ~More(t)
    /\ readers' = [readers EXCEPT ![cur[t]] = @ \ {t}]
    /\ IF call[t].op = "log" /\ Root[cur[t]] # None
       THEN /\ Goto(t, "submit")
            /\ cur' = [cur EXCEPT ![t] = Root[cur[t]]]
            /\ UNCHANGED result
       ELSE Return(t, IF result[t] = "threw" THEN "threw" ELSE "ok") /\ UNCHANGED cur
    /\ UNCHANGED <<config, sink, call, idx, text, calls, stable, seen, snap, mark>>

(* The shared_lock is destroyed, however the call ends.                    *)
Leave(t) ==
    /\ \/ pc[t] = "leave"
       \/ pc[t] \in {"append", "drain"} /\ ~More(t)
    /\ readers' = [readers EXCEPT ![cur[t]] = @ \ {t}]
    /\ Return(t, IF result[t] = "threw" THEN "threw" ELSE "ok")
    /\ UNCHANGED <<config, sink, call, cur, idx, text, calls, stable, seen, snap, mark>>

-----------------------------------------------------------------------------
(* Configuration                                                           *)

(* setLevel is an atomic store.                                            *)
SetLevel(t) ==
    \E lg \in Loggers, lv \in Levels :
        /\ Begin(t, [op |-> "setLevel", logger |-> lg, level |-> lv, arg |-> None], "idle")
        /\ level' = [level EXCEPT ![lg] = lv]
        /\ result' = [result EXCEPT ![t] = "ok"]
        /\ UNCHANGED <<formatter, appenders, threshold, readers, sink>>
        /\ Disturb

AppenderSetLevel(t) ==
    \E a \in Appenders, lv \in Levels :
        /\ Begin(t, [op |-> "appenderSetLevel", logger |-> None, level |-> lv, arg |-> a], "idle")
        /\ threshold' = [threshold EXCEPT ![a] = lv]
        /\ result' = [result EXCEPT ![t] = "ok"]
        /\ UNCHANGED <<level, formatter, appenders, readers, sink>>
        /\ Disturb

(* std::unique_lock<std::shared_mutex>: no reader is inside.               *)
Exclusive(lg) == readers[lg] = {}

Locked(t, op) == pc[t] = "exclusive" /\ call[t].op = op /\ Exclusive(cur[t])

Done(t) ==
    /\ Return(t, "ok")
    /\ UNCHANGED <<level, threshold, readers, sink, call, cur, idx, text, calls, snap, mark>>
    /\ Disturb

(* Faulty: push_back with no lock.                                         *)
AddAppenderUnlocked(t) ==
    /\ pc[t] = "exclusive" /\ call[t].op = "addAppender"
    /\ appenders' = [appenders EXCEPT ![cur[t]] = Append(@, call[t].arg)]
    /\ UNCHANGED formatter
    /\ Done(t)

AddAppender(t) ==
    /\ Locked(t, "addAppender")
    /\ appenders' = [appenders EXCEPT ![cur[t]] = Append(@, call[t].arg)]
    /\ UNCHANGED formatter
    /\ Done(t)

(* Faulty: std::remove, which leaves null pointers at the end.             *)
Removed(s, x) ==
    LET kept[i \in 0..Len(s)] ==
            IF i = 0 THEN <<>>
            ELSE IF s[i] = x THEN kept[i - 1] ELSE Append(kept[i - 1], s[i])
    IN  kept[Len(s)] \o [i \in 1..Len(s) - Len(kept[Len(s)]) |-> None]

(* std::erase takes out every occurrence.                                  *)
Erase(s, x) ==
    LET kept[i \in 0..Len(s)] ==
            IF i = 0 THEN <<>>
            ELSE IF s[i] = x THEN kept[i - 1] ELSE Append(kept[i - 1], s[i])
    IN  kept[Len(s)]

(* Faulty: the list changes with no lock.                                  *)
RemoveAppenderUnlocked(t) ==
    /\ pc[t] = "exclusive" /\ call[t].op = "removeAppender"
    /\ appenders' = [appenders EXCEPT ![cur[t]] = Erase(@, call[t].arg)]
    /\ UNCHANGED formatter
    /\ Done(t)

RemoveAppender(t) ==
    /\ Locked(t, "removeAppender")
    /\ appenders' = [appenders EXCEPT ![cur[t]] = Erase(@, call[t].arg)]
    /\ UNCHANGED formatter
    /\ Done(t)

ClearAppenders(t) ==
    /\ Locked(t, "clearAppenders")
    /\ appenders' = [appenders EXCEPT ![cur[t]] = <<>>]
    /\ UNCHANGED formatter
    /\ Done(t)

(* Faulty: the formatter changes with no lock.                             *)
SetFormatterUnlocked(t) ==
    /\ pc[t] = "exclusive" /\ call[t].op = "setFormatter"
    /\ formatter' = [formatter EXCEPT ![cur[t]] = call[t].arg]
    /\ UNCHANGED appenders
    /\ Done(t)

SetFormatter(t) ==
    /\ Locked(t, "setFormatter")
    /\ formatter' = [formatter EXCEPT ![cur[t]] = call[t].arg]
    /\ UNCHANGED appenders
    /\ Done(t)

-----------------------------------------------------------------------------

Calls(t) == CallLog(t) \/ CallDrain(t) \/ CallConfig(t) \/ RejectedCall(t)
            \/ SetLevel(t) \/ AppenderSetLevel(t)

Work(t) ==
    \/ ShouldLog(t) \/ ProbeYes(t) \/ ProbeRoot(t)
    \/ SubmitLevel(t) \/ Enter(t) \/ FallBack(t)
    \/ Format(t) \/ Gate(t) \/ Write(t) \/ Drain(t) \/ Leave(t)
    \/ AddAppender(t) \/ RemoveAppender(t) \/ ClearAppenders(t) \/ SetFormatter(t)

Throw(t) == FormatThrows(t) \/ WriteThrows(t) \/ DrainThrows(t)

Step(t) == Work(t) \/ Throw(t)

(* No call is under way, and none needs to be made.                        *)
Quiet == (\A t \in Threads : pc[t] = "idle") /\ UNCHANGED vars

Next == (\E t \in Threads : Calls(t) \/ Step(t)) \/ Quiet

Spec == Init /\ [][Next]_vars

(* A thread that is in a call is scheduled again; nothing has to throw.    *)
FairSpec == Spec /\ \A t \in Threads : WF_vars(Work(t))

-----------------------------------------------------------------------------
(* Properties                                                              *)

(* While a thread walks a list, it holds that logger's lock shared and the *)
(* list is the one it found: the range-for of submit, flush and sync never *)
(* runs over a vector that addAppender, removeAppender or clearAppenders   *)
(* has reallocated.  Nobody else is counted as a reader.                   *)
ListFrozen ==
    \A t \in Threads :
        /\ pc[t] \in Inside =>
             /\ t \in readers[cur[t]]
             /\ snap[t] = appenders[cur[t]]
             /\ idx[t] \in 1..Len(snap[t]) + 1
             /\ pc[t] = "write" => idx[t] <= Len(snap[t])
        /\ \A lg \in Loggers : t \in readers[lg] => pc[t] \in Inside /\ cur[t] = lg

(* What a call knows about itself: it is in a logger, the place it is at   *)
(* belongs to its operation, and the text a record was rendered to is that *)
(* of the formatter its logger still has (setFormatter waits for it too).  *)
CallOK ==
    \A t \in Threads : pc[t] # "idle" =>
        /\ call[t] \in Call
        /\ call[t].logger \in Loggers
        /\ cur[t] \in Loggers
        /\ pc[t] \in {"shouldLog", "probe", "submit", "format", "append", "write"} =>
             call[t].op = "log"
        /\ pc[t] = "drain" => call[t].op \in DrainOps
        /\ pc[t] = "enter" => call[t].op \in DrainOps \cup {"log"}
        /\ pc[t] = "exclusive" => TakesArg(call[t].op, call[t].arg)
        /\ pc[t] \in {"append", "write"} => text[t] = formatter[cur[t]]

Listed(lg) == {appenders[lg][i] : i \in 1..Len(appenders[lg])}

(* What a call has yet to reach of the list it started on.                 *)
Pending(t) == {snap[t][i] : i \in idx[t]..Len(snap[t])}

(* When removeAppender or clearAppenders takes an appender out of a logger, *)
(* no call is left half-way through the old list that would still write to *)
(* it, or flush it, after the removal has returned, however many log       *)
(* statements had already passed shouldLog.                                *)
NoLateWrite ==
    [][\A lg \in Loggers, t \in Threads :
          (pc[t] \in Inside \ {"leave"} /\ cur[t] = lg) =>
              Pending(t) \cap (Listed(lg) \ Listed(lg)') = {}]_vars

(* The verdict of the code on a statement, as one test of one state: the   *)
(* logger that will deliver it, if any.                                    *)
Passes(lg, lv) == ~Below(lv, level[lg])

Takers(lg, lv) ==
    {r \in Loggers :
        /\ Passes(lg, lv) /\ Passes(r, lv)
        /\ appenders[r] # <<>>
        /\ r = lg \/ (appenders[lg] = <<>> /\ r = Root[lg])}

Copies(lg, a) == Cardinality({i \in 1..Len(appenders[lg]) : appenders[lg][i] = a})

Copied(rec, a) ==
    Cardinality({i \in 1..Len(sink[a].lines) : sink[a].lines[i].rec = rec})

(* A log statement during which nobody changes the configuration behaves   *)
(* like a single test and a single write: it puts one copy of the record   *)
(* into an appender for each time the delivering logger lists it, if the   *)
(* appender's level admits it, and none anywhere else, whatever the other  *)
(* threads log, flush or sync in between; so shouldLog and submit agree,   *)
(* and a record is neither lost between them nor sent to the root as well. *)
QuietDelivery ==
    \A t \in Threads :
        (pc[t] = "idle" /\ stable[t] /\ call[t].op = "log" /\ result[t] # "threw") =>
            LET takers == Takers(call[t].logger, call[t].level) IN
            /\ result[t] = IF takers = {} THEN "filtered" ELSE "ok"
            /\ \A a \in Appenders :
                 Copied(Record(t), a) =
                     IF takers = {} \/ Below(call[t].level, threshold[a])
                     THEN 0
                     ELSE Copies(CHOOSE lg \in takers : TRUE, a)

(* The loggers that a record has gone through.                             *)
Via(rec) ==
    UNION {{sink[a].lines[i].via : i \in {j \in 1..Len(sink[a].lines) :
                                              sink[a].lines[j].rec = rec}} : a \in Appenders}

(* shouldLog and submit decide in several steps, with no lock between      *)
(* them, and the level and the list may change at each.  Still no          *)
(* statement is lost unless, at some moment of it, a logger it asked was   *)
(* set to turn it away: its own by its level, or its own by an empty list  *)
(* and the root by either (or there is no root).  It goes to the root only *)
(* if its own logger had no appenders at some moment, and never to both.   *)
VerdictHeld ==
    \A t \in Threads :
        (pc[t] = "idle" /\ call[t] # None /\ call[t].op = "log") =>
            LET own == call[t].logger IN
            /\ \A lg \in Via(Record(t)) :
                 /\ Via(Record(t)) = {lg}
                 /\ lg = own \/ (lg = Root[own] /\ own \in seen[t].empty)
            /\ result[t] \in {"filtered", "dropped", "nowhere"} =>
                 /\ Via(Record(t)) = {}
                 /\ \/ own \in seen[t].high
                    \/ /\ own \in seen[t].empty
                       /\ Root[own] \in {None} \cup seen[t].high \cup seen[t].empty

(* When flush() or sync() returns, every record that was in the appenders  *)
(* of its logger, or of the root in its place, when it was called has left *)
(* the process, for sync() to the device.  The appenders are those listed  *)
(* when the lock was taken, and the logger's own list (or the root's) if   *)
(* the configuration did not change during the call.                       *)
DrainCovers ==
    \A t \in Threads :
        (pc[t] = "idle" /\ call[t] # None /\ call[t].op \in DrainOps /\ result[t] = "ok") =>
            /\ \A i \in 1..Len(snap[t]) :
                 /\ sink[snap[t][i]].flushed >= mark[t][snap[t][i]]
                 /\ call[t].op = "sync" => sink[snap[t][i]].synced >= mark[t][snap[t][i]]
            /\ stable[t] =>
                 LET lg == call[t].logger
                 IN  snap[t] = appenders[IF appenders[lg] = <<>> THEN Root[lg] ELSE lg]

(* The calls work from copies taken in one step (module Delivery): the job *)
(* of a thread is read off the live configuration, so a change that could  *)
(* reach a call under way would be a step Delivery does not have.          *)
Job(t) ==
    IF pc[t] \in Inside \ {"leave"}
    THEN [op |-> call[t].op, level |-> call[t].level, via |-> cur[t],
          fmt |-> formatter[cur[t]], list |-> appenders[cur[t]], pos |-> idx[t],
          stage |-> pc[t]]
    ELSE [stage |-> "none"]

Course(t) ==
    [nr |-> calls[t], open |-> pc[t] \in {"shouldLog", "probe", "submit", "enter"},
     threw |-> result[t] = "threw"]

D == INSTANCE Delivery WITH
        lists <- appenders, forms <- formatter,
        job <- [t \in Threads |-> Job(t)], course <- [t \in Threads |-> Course(t)]

(* Every trace of the loggers is a trace of Delivery: a call takes one     *)
(* list once, an exception of one appender's mutex costs that appender's   *)
(* copy of the record and no other's, and only a call that an exception is *)
(* reported for leaves an appender of its list unvisited.                  *)
Delivers == D!Spec

(* Every call returns: a walk always ends, and gives up the lock that the  *)
(* configuration calls wait for.                                           *)
CallsReturn == \A t \in Threads : pc[t] # "idle" ~> pc[t] = "idle"

=============================================================================
