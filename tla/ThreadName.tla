----------------------------- MODULE ThreadName -----------------------------
(***************************************************************************)
(* The name of a thread: SetThreadName and GetThreadName with their        *)
(* thread_local copy, the name that the system keeps, and the log          *)
(* statement that takes a string_view of the copy when its LogLine is      *)
(* built and reads it when it is submitted.                                *)
(*                                                                         *)
(* Linux keeps fifteen bytes, which a new thread inherits; Windows keeps a *)
(* wide string, which a new thread does not have.  A failed assertion goes *)
(* on, as it does in builds with NDEBUG.                                   *)
(***************************************************************************)
EXTENDS Utf8, Unicode

CONSTANTS
    Threads, Main,  \* Main is there from the start
    Worlds,         \* the platform, the names the program gives to threads,
                    \*   the native names they get from others; as bounds,
                    \*   the threads it has and the calls of all of them
    MayFail         \* whether the system's calls may fail

LastUnit == 65535       \* of two bytes

(* What a system can have for a name: a C string of up to fifteen bytes,   *)
(* or one of wide units.                                                   *)
Native(platform) ==
    IF platform = "linux" THEN {s \in Seq(1..255) : Len(s) <= 15} ELSE Seq(1..LastUnit)

ASSUME ThreadNameAssumption ==
    /\ \A w \in Worlds :
           /\ w.platform \in {"linux", "windows"}
           /\ \A name \in w.names : name \in Seq(0..255) /\ name # <<>>
           /\ \A name \in w.foreign : name \in Native(w.platform)
           /\ Main \in w.threads /\ w.threads \subseteq Threads /\ w.calls \in Nat
    /\ MayFail \in BOOLEAN

VARIABLES
    world,
    alive,          \* the threads there are
    native,         \* per thread: the name the system has (bytes, or units)
    t_thread_name,  \* thread_local
    copied,         \* the threads in which it is initialised
    pc,             \* per thread: in a log statement, or not
    stale,          \* per thread: its LogLine's view is no longer valid
    record,         \* per thread: the name in its last record, and for what
    calls,
    asked,          \* ghost, per thread: the name the system was to have, in
                    \*   its own units: bytes or, as Unicode has it, wide ones
    source,         \* ghost, per thread: asked, when the copy was made of that
    unanswered,     \* ghost, per thread: the system failed when it was made
    viewed,         \* ghost, per thread: the name when its LogLine was built
    renamed         \* ghost, per thread: its last statement has renamed it

vars == <<world, alive, native, t_thread_name, copied, pc, stale, record, calls,
          asked, source, unanswered, viewed, renamed>>

DEFAULT_THREAD_NAME == <<85, 78, 75, 78, 79, 87, 78>>

Freed == <<-1>>     \* what a view of freed memory reads: no name at all
NoRecord == <<>>
GivenHere == <<-1>> \* source of a name that the program has given

TypeOK ==
    /\ world \in Worlds
    /\ alive \subseteq Threads
    /\ native \in [Threads -> Native(world.platform)]
    /\ t_thread_name \in [Threads -> Seq(0..255)]
    /\ copied \subseteq alive
    /\ pc \in [Threads -> {"idle", "statement"}]
    /\ stale \in [Threads -> BOOLEAN]
    /\ calls \in 0..world.calls

Init ==
    /\ world \in Worlds
    /\ alive = {Main}
    /\ native \in {[t \in Threads |-> IF t = Main THEN name ELSE <<>>] :
                      name \in IF world.platform = "linux" THEN world.foreign ELSE {<<>>}}
    /\ t_thread_name = [t \in Threads |-> <<>>]
    /\ copied = {}
    /\ pc = [t \in Threads |-> "idle"]
    /\ stale = [t \in Threads |-> FALSE]
    /\ record = [t \in Threads |-> NoRecord]
    /\ calls = 0
    /\ asked = native
    /\ source = asked
    /\ unanswered = [t \in Threads |-> FALSE]
    /\ viewed = [t \in Threads |-> <<>>]
    /\ renamed = [t \in Threads |-> FALSE]

Shared(t) == Main                            \* faulty: static, not thread_local

(* The copy of t_thread_name that a thread has.                            *)
Own(t) == t

Linux == world.platform = "linux"

(* GetNativeThreadName, where the system answers.                          *)
NativeName(t) == IF Linux THEN native[t] ELSE WStringToString(native[t], 2)

(* What the system answers, and whether it fails instead.                  *)
Answers(t) ==
    {[name |-> NativeName(t), failed |-> FALSE]}
    \cup IF MayFail THEN {[name |-> <<>>, failed |-> TRUE]} ELSE {}

(* C strings end at the first NUL.                                         *)
CString(text) ==
    LET i == SelectInSeq(text, LAMBDA unit : unit = 0)
    IN  IF i = 0 THEN text ELSE SubSeq(text, 1, i - 1)

(* Faulty: pthread_setname_np refuses a longer name.                       *)
GivenUncut(t, name) ==
    IF Linux THEN IF Len(name) > 15 THEN native[t] ELSE CString(name)
    ELSE LET wide == StringToWString(name, 2)
         IN  IF wide = <<>> THEN native[t] ELSE CString(wide)

(* SetNativeThreadName: the name the system then has.                      *)
Given(t, name) ==
    IF Linux THEN CString(SubSeq(name, 1, IF Len(name) < 15 THEN Len(name) ELSE 15))
    ELSE LET wide == StringToWString(name, 2)
         IN  IF wide = <<>> THEN native[t] ELSE CString(wide)

(* What the system is asked to call the thread: on Windows the wide string *)
(* that is the name in UTF-16, if the name is well-formed.                 *)
Asked(t, name) ==
    IF Linux THEN {name}
    ELSE IF Readings(name) = {} THEN {asked[t]}
    ELSE {Wide(values, 2) : values \in Readings(name)}

Count == calls < world.calls /\ calls' = calls + 1

(* A thread's first use of t_thread_name comes after its initialiser, which *)
(* may run then or at any time before.                                     *)
Initialise(t) ==
    /\ t \in alive \ copied
    /\ copied' = copied \cup {t}
    /\ \E answer \in Answers(t) :
           /\ t_thread_name' = [t_thread_name EXCEPT ![Own(t)] = answer.name]
           /\ unanswered' = [unanswered EXCEPT ![t] = answer.failed]
    /\ source' = [source EXCEPT ![t] = asked[t]]
    /\ UNCHANGED <<world, alive, native, pc, stale, record, calls, asked, viewed, renamed>>

(* The copy that t uses gets a value; a view of the old one is not valid   *)
(* any more.                                                               *)
Assign(t, name) ==
    /\ t \in copied
    /\ t_thread_name' = [t_thread_name EXCEPT ![Own(t)] = name]
    /\ stale' = [u \in Threads |-> stale[u] \/ (pc[u] = "statement" /\ Own(u) = Own(t))]
    /\ renamed' = [renamed EXCEPT ![t] = @ \/ pc[t] = "statement"]

SetThreadName(t, name) ==
    /\ Count
    /\ Assign(t, name)
    /\ source' = [source EXCEPT ![t] = GivenHere]
    /\ \/ /\ native' = [native EXCEPT ![t] = Given(t, name)]
          /\ \E last \in Asked(t, name) : asked' = [asked EXCEPT ![t] = last]
       \/ MayFail /\ UNCHANGED <<native, asked>>
    /\ UNCHANGED <<world, alive, copied, pc, record, unanswered, viewed>>

(* SetThreadName(""): "you passed empty thread name".                      *)
SetThreadNameEmpty(t) ==
    /\ Count
    /\ \E answer \in Answers(t) :
           /\ Assign(t, IF answer.name = <<>> THEN DEFAULT_THREAD_NAME ELSE answer.name)
           /\ unanswered' = [unanswered EXCEPT ![t] = answer.failed]
    /\ source' = [source EXCEPT ![t] = asked[t]]
    /\ UNCHANGED <<world, alive, native, copied, pc, record, asked, viewed>>

(* A new thread.                                                           *)
Spawn(t, u) ==
    /\ t \in alive /\ u \in world.threads \ alive
    /\ alive' = alive \cup {u}
    /\ native' = [native EXCEPT ![u] = IF Linux THEN native[t] ELSE <<>>]
    /\ asked' = [asked EXCEPT ![u] = IF Linux THEN asked[t] ELSE <<>>]
    /\ UNCHANGED <<world, t_thread_name, copied, pc, stale, record, calls,
                   source, unanswered, viewed, renamed>>

(* Another thread, a library or a debugger names the thread for the system *)
(* only.                                                                   *)
NamedByOthers(t, name) ==
    /\ t \in alive
    /\ Count
    /\ native' = [native EXCEPT ![t] = name]
    /\ asked' = [asked EXCEPT ![t] = name]
    /\ UNCHANGED <<world, alive, t_thread_name, copied, pc, stale, record,
                   source, unanswered, viewed, renamed>>

(* LogLine::Impl: the view of the name is taken.                           *)
BeginStatement(t) ==
    /\ t \in copied
    /\ pc[t] = "idle"
    /\ pc' = [pc EXCEPT ![t] = "statement"]
    /\ viewed' = [viewed EXCEPT ![t] = t_thread_name[Own(t)]]
    /\ UNCHANGED <<world, alive, native, t_thread_name, copied, stale, record, calls,
                   asked, source, unanswered, renamed>>

(* getRecord: the view is read, and the LogLine ends.                      *)
Submit(t) ==
    /\ pc[t] = "statement"
    /\ pc' = [pc EXCEPT ![t] = "idle"]
    /\ record' = [record EXCEPT ![t] =
           [text |-> IF stale[t] THEN Freed ELSE t_thread_name[Own(t)],
            for  |-> viewed[t], renamed |-> renamed[t]]]
    /\ stale' = [stale EXCEPT ![t] = FALSE]
    /\ viewed' = [viewed EXCEPT ![t] = <<>>]
    /\ renamed' = [renamed EXCEPT ![t] = FALSE]
    /\ UNCHANGED <<world, alive, native, t_thread_name, copied, calls, asked, source, unanswered>>

Next ==
    \E t \in Threads :
        \/ Initialise(t)
        \/ \E name \in world.names : SetThreadName(t, name)
        \/ SetThreadNameEmpty(t)
        \/ \E u \in Threads : Spawn(t, u)
        \/ \E name \in world.foreign : NamedByOthers(t, name)
        \/ BeginStatement(t)
        \/ Submit(t)

Spec == Init /\ [][Next]_vars

-----------------------------------------------------------------------------
(* Properties                                                              *)

(* A record has the name that its thread had when the statement began:     *)
(* what other threads set, or threads started in the statement, does not   *)
(* show.  The one case in which it may have anything is a statement that   *)
(* renames its own thread, in an argument: the view is of what was.        *)
NameIsOwn ==
    \A t \in Threads :
        record[t] # NoRecord /\ ~record[t].renamed => record[t].text = record[t].for

(* What SetThreadName("") and the initialiser of a thread's copy find is   *)
(* what the system was last asked to call the thread, by whomever, up to a *)
(* NUL: on Linux those bytes or the first fifteen of them, on Windows the  *)
(* text whose wide string, as Unicode has it, is that.  Only if there is   *)
(* none, if a lone surrogate makes it no text, or if the system failed in  *)
(* this very call, there is no name.                                       *)
RestoresName ==
    \A t \in copied :
        source[t] # GivenHere =>
            LET name == t_thread_name[t]
                last == CString(source[t])
            IN  \/ Linux /\ (name = last \/ (Len(name) = 15 /\ IsStrictPrefix(name, last)))
                \/ ~Linux /\ \E values \in Readings(name) : Wide(values, 2) = last
                \/ /\ name \in {<<>>, DEFAULT_THREAD_NAME}
                   /\ last = <<>> \/ unanswered[t] \/ (~Linux /\ ~WideWellFormed(last, 2))

(* The conversion to wide strings, for both widths of wchar_t, on every    *)
(* name given on Windows: what the Unicode standard calls well-formed      *)
(* gives the standard's wide string and comes back from it, all else gives *)
(* nothing.                                                                *)
WideConversionAgrees ==
    ~Linux => \A t \in copied, width \in {2, 4} :
        LET text == t_thread_name[t]
            wide == StringToWString(text, width)
            said == Readings(text)
        IN  IF said = {} THEN wide = <<>>
            ELSE /\ \A values \in said : wide = Wide(values, width)
                 /\ WStringToString(wide, width) = text

(* The conversion from them, on every native name as either kind of wide   *)
(* string: a well-formed one gives a text that leads back to it, one with  *)
(* a lone surrogate gives nothing.                                         *)
NarrowConversionAgrees ==
    ~Linux => \A t \in alive, width \in {2, 4} :
        LET text == WStringToString(native[t], width)
        IN  IF WideWellFormed(native[t], width)
            THEN StringToWString(text, width) = native[t]
            ELSE text = <<>>

=============================================================================
