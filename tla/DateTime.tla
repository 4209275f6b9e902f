------------------------------ MODULE DateTime ------------------------------
(***************************************************************************)
(* DateTimeFormatItem::format: the date of a record, converted once per    *)
(* second and thread.                                                      *)
(*                                                                         *)
(* The two statics of format() are thread_local but shared by all items.   *)
(* A record carries the second in which its LogLine was built, and records *)
(* are not formatted in that order: a statement in an argument of another  *)
(* is built later and submitted first, and clocks are set back.  strftime  *)
(* has twenty bytes; when the date does not fit it says so, and what it    *)
(* leaves in them is unspecified.  A failed ASSERT_RETNONE2 returns, as it *)
(* does in builds with NDEBUG; in others it ends the program.              *)
(*                                                                         *)
(* The names of this module are other than those of Pattern, the rest of   *)
(* the formatter, so that one module can extend both.                      *)
(***************************************************************************)
EXTENDS Naturals

CONSTANTS
    Threads,
    Formats,        \* m_format of the items in the program
    Uses,           \* per thread: the formats of the items it gets to
    Seconds,        \* the seconds of the records, since the epoch
    Fits,           \* the pairs of a format and a second that fit
    LocaltimeMayFail \* whether localtime_r may fail

ASSUME DateTimeAssumption ==
    /\ Uses \in [Threads -> (SUBSET Formats) \ {{}}]
    /\ Seconds \subseteq Nat /\ Seconds # {}
    /\ Fits \subseteq Formats \X Seconds
    /\ LocaltimeMayFail \in BOOLEAN

VARIABLES
    last_second,    \* static thread_local
    cached,         \* static thread_local cached_date_time: a date, or none
    pc, item, second, \* per thread: where it is, the item, the record's second
    appended        \* ghost, per thread: the last date appended, and for what

dateVars == <<last_second, cached, pc, item, second, appended>>

(* What twenty bytes may hold: the date of a second in a format, or else   *)
(* (nothing, at the start).                                                *)
Dates == Formats \X Seconds
Other == <<>>

DateTypeOK ==
    /\ last_second \in [Threads -> Seconds \cup {0}]
    /\ cached \in [Threads -> Dates \cup {Other}]
    /\ pc \in [Threads -> {"idle", "compare", "convert", "store", "append"}]
    /\ item \in [Threads -> Formats]
    /\ second \in [Threads -> Seconds]
    /\ appended \in [Threads -> {Other} \cup [text : Dates \cup {Other}, for : Dates]]

DateInit ==
    /\ last_second = [t \in Threads |-> 0]
    /\ cached = [t \in Threads |-> Other]
    /\ pc = [t \in Threads |-> "idle"]
    /\ item = [t \in Threads |-> CHOOSE f \in Uses[t] : TRUE]
    /\ second = [t \in Threads |-> CHOOSE s \in Seconds : TRUE]
    /\ appended = [t \in Threads |-> Other]

Shared(t) == CHOOSE u \in Threads : TRUE     \* faulty: static, not thread_local

(* The copy of the statics that a thread uses: thread_local is its own.    *)
Own(t) == t

Goto(t, where) == pc' = [pc EXCEPT ![t] = where]

FormatDate(t) ==
    /\ pc[t] = "idle"
    /\ \E f \in Uses[t] : item' = [item EXCEPT ![t] = f]
    /\ \E s \in Seconds : second' = [second EXCEPT ![t] = s]
    /\ Goto(t, "compare")
    /\ UNCHANGED <<last_second, cached, appended>>

Compare(t) ==
    /\ pc[t] = "compare"
    /\ Goto(t, IF second[t] # last_second[Own(t)] THEN "convert" ELSE "append")
    /\ UNCHANGED <<last_second, cached, item, second, appended>>

(* Faulty: the second is stored before it has been converted.              *)
LocaltimeFailsLate(t) ==
    /\ LocaltimeMayFail
    /\ pc[t] = "convert"
    /\ last_second' = [last_second EXCEPT ![Own(t)] = second[t]]
    /\ Goto(t, "idle")
    /\ UNCHANGED <<cached, item, second, appended>>

(* No tm for this second: nothing is appended.                             *)
LocaltimeFails(t) ==
    /\ LocaltimeMayFail
    /\ pc[t] = "convert"
    /\ Goto(t, "idle")
    /\ UNCHANGED <<last_second, cached, item, second, appended>>

Strftime(t) ==
    /\ pc[t] = "convert"
    /\ <<item[t], second[t]>> \in Fits
    /\ cached' = [cached EXCEPT ![Own(t)] = <<item[t], second[t]>>]
    /\ Goto(t, "store")
    /\ UNCHANGED <<last_second, item, second, appended>>

(* Too long: nothing is appended, and the bytes hold who knows what.       *)
StrftimeFails(t) ==
    /\ pc[t] = "convert"
    /\ <<item[t], second[t]>> \notin Fits
    /\ cached' = [cached EXCEPT ![Own(t)] = Other]
    /\ Goto(t, "idle")
    /\ UNCHANGED <<last_second, item, second, appended>>

Store(t) ==
    /\ pc[t] = "store"
    /\ last_second' = [last_second EXCEPT ![Own(t)] = second[t]]
    /\ Goto(t, "append")
    /\ UNCHANGED <<cached, item, second, appended>>

AppendDate(t) ==
    /\ pc[t] = "append"
    /\ appended' = [appended EXCEPT ![t] = [text |-> cached[Own(t)], for |-> <<item[t], second[t]>>]]
    /\ Goto(t, "idle")
    /\ UNCHANGED <<last_second, cached, item, second>>

DateNext == \E t \in Threads :
    \/ FormatDate(t) \/ Compare(t) \/ LocaltimeFails(t) \/ Strftime(t) \/ StrftimeFails(t)
    \/ Store(t) \/ AppendDate(t)

DateSpec == DateInit /\ [][DateNext]_dateVars

-----------------------------------------------------------------------------
(* Properties                                                              *)

(* t gets to one format only, as the code asks for, and its dates fit.     *)
OneFormat(t) == \E f \in Formats : Uses[t] = {f} /\ \A s \in Seconds : <<f, s>> \in Fits

(* A thread that uses one format, which fits, gives every record the date  *)
(* of its own second: reusing what was converted before never shows, in    *)
(* whatever order the records come and whatever formats other threads use. *)
(* The one exception is the first second of the epoch, which the empty     *)
(* cache passes for: its record may get no date.                           *)
DateIsOwn ==
    \A t \in Threads :
        OneFormat(t) /\ appended[t] # Other =>
            \/ appended[t].text = appended[t].for
            \/ appended[t].for[2] = 0 /\ appended[t].text = Other

(* What the comment of the class says: within one second the date is the   *)
(* same, so that what was converted for the second can be used again.      *)
ReuseIsExact ==
    \A t \in Threads :
        (\E f \in Formats : Uses[t] = {f}) /\ appended[t] # Other => appended[t].text = appended[t].for

(* Even where formats are mixed and some dates do not fit, no record gets  *)
(* a date converted for another second: it is of its own second, or what a *)
(* strftime that failed has left, or the empty one of the start.           *)
SecondIsOwn ==
    \A t \in Threads :
        appended[t] # Other => \/ appended[t].text = Other
                               \/ appended[t].text[2] = appended[t].for[2]

=============================================================================
