------------------------------ MODULE Delivery ------------------------------
(***************************************************************************)
(* What logger.cc promises whoever logs, flushes or syncs, with no lock.   *)
(*                                                                         *)
(* A call takes, in one step, a copy of one logger's appender list and of  *)
(* its formatter.  From then on it works from the copies alone: it visits  *)
(* the listed appenders once each and in order, and no configuration call  *)
(* reaches it.  Module Logger has no copies: it walks the live list, and   *)
(* refines this because its lock keeps the list still.                     *)
(***************************************************************************)
EXTENDS LogLevel, Sink

CONSTANTS Threads, Loggers, Appenders, Formatters, MayFail

VARIABLES
    lists, forms,       \* per logger: its appenders and its formatter
    threshold,          \* per appender: its level
    sink,               \* per appender: what it has been given
    course,             \* per thread: the number of its call, whether that may
                        \* still take a list, and whether anything threw in it
    job                 \* per thread: the copies its call works from, or NoJob

NoJob == [stage |-> "none"]

vars == <<lists, forms, threshold, sink, course, job>>

Init ==
    /\ lists \in [Loggers -> Seq(Appenders)]
    /\ forms \in [Loggers -> Formatters]
    /\ threshold \in [Appenders -> Level]
    /\ sink = [a \in Appenders |-> Empty]
    /\ course = [t \in Threads |-> [nr |-> 0, open |-> FALSE, threw |-> FALSE]]
    /\ job = [t \in Threads |-> NoJob]

(* A thread that has finished a call makes another, which will take a list *)
(* or not; this one may be the one that sets an appender's threshold.      *)
NewCall(t) ==
    /\ job[t] = NoJob /\ ~course[t].open
    /\ \E open \in BOOLEAN :
           course' = [course EXCEPT ![t] = [nr |-> @.nr + 1, open |-> open, threw |-> FALSE]]
    /\ threshold' \in [Appenders -> Level]
    /\ UNCHANGED <<lists, forms, sink, job>>

(* A call is still the same one.                                           *)
Went(c, open, threw) == [nr |-> c.nr, open |-> open, threw |-> threw]

Closed(t) == course[t].open /\ course' = [course EXCEPT ![t] = Went(@, FALSE, @.threw)]

(* No logger takes the call.                                               *)
Pass(t) ==
    /\ Closed(t)
    /\ UNCHANGED <<lists, forms, threshold, sink, job>>

(* The call starts on logger lg; which one that is, VerdictHeld is about.  *)
Take(t, op, lv, lg) ==
    /\ Closed(t)
    /\ lists[lg] # <<>>
    /\ job' = [job EXCEPT ![t] =
                  [op |-> op, level |-> lv, via |-> lg, fmt |-> forms[lg], list |-> lists[lg],
                   pos |-> 1, stage |-> IF op = "log" THEN "format" ELSE "drain"]]
    /\ UNCHANGED <<lists, forms, threshold, sink>>

(* A call keeps its copies and moves along the list.                       *)
Moved(j, pos, stage) ==
    [op |-> j.op, level |-> j.level, via |-> j.via, fmt |-> j.fmt, list |-> j.list,
     pos |-> pos, stage |-> stage]

(* The record is rendered, once and before any appender is offered it.     *)
Render(t) ==
    /\ job[t].stage = "format"
    /\ job' = [job EXCEPT ![t] = Moved(@, @.pos, "append")]
    /\ UNCHANGED <<lists, forms, threshold, sink, course>>

(* The call is at an appender of its list.                                 *)
At(t, a, stage) ==
    /\ job[t].stage = stage
    /\ job[t].pos \in 1..Len(job[t].list)
    /\ a = job[t].list[job[t].pos]

Onward(t, stage) == job' = [job EXCEPT ![t] = Moved(@, @.pos + 1, stage)]

(* The appender's threshold decides once, before the record is written ... *)
Admit(t, a) ==
    /\ At(t, a, "append")
    /\ ~Below(job[t].level, threshold[a])
    /\ job' = [job EXCEPT ![t] = Moved(@, @.pos, "write")]
    /\ UNCHANGED <<lists, forms, threshold, sink, course>>

(* ... or turned away.                                                     *)
Refuse(t, a) ==
    /\ At(t, a, "append")
    /\ Below(job[t].level, threshold[a])
    /\ Onward(t, "append")
    /\ UNCHANGED <<lists, forms, threshold, sink, course>>

Deliver(t, a) ==
    /\ At(t, a, "write")
    /\ sink' = [sink EXCEPT ![a] =
                    Wrote(@, [rec |-> <<t, course[t].nr>>, level |-> job[t].level,
                              fmt |-> job[t].fmt, via |-> job[t].via],
                          job[t].level = FATAL)]
    /\ Onward(t, "append")
    /\ UNCHANGED <<lists, forms, threshold, course>>

DrainOne(t, a) ==
    /\ At(t, a, "drain")
    /\ sink' = [sink EXCEPT ![a] = IF job[t].op = "sync" THEN Synced(@) ELSE Flushed(@)]
    /\ Onward(t, "drain")
    /\ UNCHANGED <<lists, forms, threshold, course>>

(* Every listed appender has had its turn.                                 *)
Finish(t) ==
    /\ job[t].stage \in {"append", "drain"}
    /\ job[t].pos > Len(job[t].list)
    /\ job' = [job EXCEPT ![t] = NoJob]
    /\ UNCHANGED <<lists, forms, threshold, sink, course>>

Threw(t) == MayFail /\ course' = [course EXCEPT ![t] = Went(@, @.open, TRUE)]

(* The mutex of one appender threw under the record: that one misses it.   *)
Miss(t, a) ==
    /\ Threw(t)
    /\ At(t, a, "write")
    /\ Onward(t, "append")
    /\ UNCHANGED <<lists, forms, threshold, sink>>

(* The record could not be rendered: no appender gets it.  Or the mutex of *)
(* one threw under flush() or sync(): that one and the rest are left.      *)
GiveUp(t) ==
    /\ Threw(t)
    /\ job[t].stage = "format" \/ \E a \in Appenders : At(t, a, "drain")
    /\ job' = [job EXCEPT ![t] = NoJob]
    /\ UNCHANGED <<lists, forms, threshold, sink>>

(* Configuration changes whenever it likes.                                *)
Reconfigure ==
    /\ lists' \in [Loggers -> Seq(Appenders)]
    /\ forms' \in [Loggers -> Formatters]
    /\ threshold' \in [Appenders -> Level]
    /\ UNCHANGED <<sink, course, job>>

Next ==
    \/ Reconfigure
    \/ \E t \in Threads :
        \/ NewCall(t) \/ Pass(t) \/ Render(t) \/ Finish(t) \/ GiveUp(t)
        \/ \E op \in {"log", "flush", "sync"}, lv \in Level, lg \in Loggers :
               Take(t, op, lv, lg)
        \/ \E a \in Appenders : Admit(t, a) \/ Refuse(t, a) \/ Deliver(t, a)
                                \/ DrainOne(t, a) \/ Miss(t, a)

Spec == Init /\ [][Next]_vars

=============================================================================
