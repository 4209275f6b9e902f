------------------------------ MODULE LogLine ------------------------------
(***************************************************************************)
(* The message of a log statement: LogLine and LogPrintf, and the          *)
(* InlineBuffer under them.                                                *)
(*                                                                         *)
(* PANS_LOG_x(logger) << a << b builds a LogLine, inserts a and b and      *)
(* submits the record when the LogLine is destroyed.  An argument may be   *)
(* the call of a function that logs in its turn, so one thread may have    *)
(* several LogLines open: a stack.  An argument that throws destroys the   *)
(* LogLine and submits what is there, which is a Close like any other.     *)
(* LogPrintf has its arguments before it builds its LogLine; it formats    *)
(* into an array of fixed size first, and again when that was too small.   *)
(*                                                                         *)
(* A LogLine is of one thread: one thread is all there is here.            *)
(***************************************************************************)
EXTENDS Naturals, Sequences

CONSTANTS
    Byte, NUL,
    Inline,         \* LOG_MESSAGE_INLINE_CAPACITY
    Scratch,        \* PRINTF_FORMAT_INLINE_CAPACITY
    Pieces,         \* what a program inserts, a piece at a time
    Texts,          \* what the printf formats expand to
    NullFormat,     \* "<null-format>"
    FormatError,    \* "<format-error>"
    MaxDepth,       \* bound: LogLines open at a time
    MaxLines,       \* bound: LogLines built
    MaxText,        \* bound: bytes inserted in one LogLine
    MayFail         \* whether allocations and vsnprintf may fail

ASSUME LogLineAssumption ==
    /\ NUL \in Byte
    /\ Inline \in Nat \ {0} /\ Scratch \in Nat \ {0}
    /\ Pieces \subseteq Seq(Byte) /\ Texts \subseteq Seq(Byte)
    /\ NullFormat \in Seq(Byte) /\ FormatError \in Seq(Byte)
    /\ MaxDepth \in Nat /\ MaxLines \in Nat /\ MaxText \in Nat
    /\ MayFail \in BOOLEAN

VARIABLES
    open,           \* the LogLines that exist, the innermost last
    submitted       \* the records submitted

vars == <<open, submitted>>

-----------------------------------------------------------------------------
(* InlineBuffer.  An empty vector is one that was never used.              *)

Buffer == [inline : [1..Inline -> Byte], overflow : Seq(Byte), size : Nat]

EmptyBuffer == [inline |-> [i \in 1..Inline |-> NUL], overflow |-> <<>>, size |-> 0]

View(b) == SubSeq(IF b.overflow = <<>> THEN b.inline ELSE b.overflow, 1, b.size)

FitsBefore(b, data) == b.overflow = <<>> /\ b.size <= Inline            \* faulty
FitsLoosely(b, data) == b.overflow = <<>> /\ b.size + Len(data) < Inline \* faulty
FitsInline(b, data) == b.overflow = <<>> /\ b.size + Len(data) <= Inline

(* memcpy writes where it is told to, in the array or behind it.           *)
Copied(b, data) ==
    [inline   |-> [i \in DOMAIN b.inline \cup (b.size + 1..b.size + Len(data)) |->
                      IF i > b.size /\ i <= b.size + Len(data)
                      THEN data[i - b.size] ELSE b.inline[i]],
     overflow |-> b.overflow,
     size     |-> b.size + Len(data)]

(* Faulty: what is in the array stays there.                               *)
SpilledAlone(b, data) ==
    [inline |-> b.inline, overflow |-> b.overflow \o data, size |-> Len(b.overflow \o data)]

(* The first piece that does not fit takes what is in the array with it.   *)
Spilled(b, data) ==
    LET old == IF b.overflow = <<>> THEN SubSeq(b.inline, 1, b.size) ELSE b.overflow
    IN  [inline |-> b.inline, overflow |-> old \o data, size |-> Len(old \o data)]

Appended(b, data) ==
    IF data = <<>> THEN b ELSE IF FitsInline(b, data) THEN Copied(b, data) ELSE Spilled(b, data)

(* reserve() comes before either insert(), so that an append that throws   *)
(* has changed nothing; only one that goes to the vector can throw.        *)
CanThrow(b, data) == MayFail /\ data # <<>> /\ ~FitsInline(b, data)

-----------------------------------------------------------------------------
(* LogLine                                                                 *)

(* The ghosts: what the statement asked for, where its pieces end, and     *)
(* whether any of it was lost to a failure.                                *)
Lines == [form : {"stream", "printf"}, buffer : Buffer, bad : BOOLEAN,
          wanted : Seq(Byte), edges : SUBSET Nat, lost : BOOLEAN]

Submissions == [message : Seq(Byte), wanted : Seq(Byte), edges : SUBSET Nat, lost : BOOLEAN]

TypeOK == open \in Seq(Lines) /\ submitted \in Seq(Submissions)

Init == open = <<>> /\ submitted = <<>>

Top == open[Len(open)]

(* The insertion of data in line: ostream catches what append throws, sets *)
(* badbit, and refuses every later insertion.                              *)
Insertions(line, data) ==
    LET asked(b, bad, lost) ==
            [form |-> line.form, buffer |-> b, bad |-> bad, wanted |-> line.wanted \o data,
             edges |-> line.edges \cup {Len(line.wanted \o data)}, lost |-> lost]
    IN  IF line.bad
        THEN {asked(line.buffer, TRUE, TRUE)}
        ELSE {asked(Appended(line.buffer, data), FALSE, line.lost)}
             \cup (IF CanThrow(line.buffer, data)
                   THEN {asked(line.buffer, TRUE, TRUE)} ELSE {})

NewLine(form) ==
    [form |-> form, buffer |-> EmptyBuffer, bad |-> FALSE,
     wanted |-> <<>>, edges |-> {0}, lost |-> FALSE]

(* The records submitted and the LogLines open stand for those built.      *)
MayOpen ==
    /\ Len(open) < MaxDepth
    /\ Len(open) + Len(submitted) < MaxLines

(* ~LogLine: the record is a view of the buffer.                           *)
Recorded(line) == [message |-> View(line.buffer), wanted |-> line.wanted,
                   edges |-> line.edges, lost |-> line.lost]

(* The macro, after shouldLog() said yes.                                  *)
OpenLine ==
    /\ MayOpen
    /\ open' = Append(open, NewLine("stream"))
    /\ UNCHANGED submitted

Insert ==
    /\ open # <<>>
    /\ \E piece \in Pieces :
          /\ Len(Top.wanted) + Len(piece) <= MaxText
          /\ \E line \in Insertions(Top, piece) : open' = [open EXCEPT ![Len(open)] = line]
    /\ UNCHANGED submitted

(* A null const char*, which ostream answers with badbit.                  *)
InsertNull ==
    /\ open # <<>>
    /\ ~Top.bad
    /\ open' = [open EXCEPT ![Len(open)] =
                   [form |-> Top.form, buffer |-> Top.buffer, bad |-> TRUE,
                    wanted |-> Top.wanted, edges |-> Top.edges, lost |-> Top.lost]]
    /\ UNCHANGED submitted

Close ==
    /\ open # <<>>
    /\ submitted' = Append(submitted, Recorded(Top))
    /\ open' = SubSeq(open, 1, Len(open) - 1)

-----------------------------------------------------------------------------
(* LogPrintf: its LogLine is built, filled and destroyed in one call       *)

Printed(line) == submitted' = Append(submitted, Recorded(line)) /\ UNCHANGED open

(* What vsnprintf leaves in an array of the given size.                    *)
Vsnprintf(text, size) ==
    [i \in 1..size |-> IF i < size /\ i <= Len(text) THEN text[i] ELSE NUL]

(* What LogPrintf inserts: what the array holds, if that was enough, else  *)
(* what a vector of the right size holds.                                  *)
Expanded(text) ==
    IF Len(text) < Scratch
    THEN SubSeq(Vsnprintf(text, Scratch), 1, Len(text))
    ELSE SubSeq(Vsnprintf(text, Len(text) + 1), 1, Len(text))

(* LogPrintf with the text wanted, when data is what it inserts.           *)
Printf(text, data) ==
    \E line \in Insertions(NewLine("printf"), data) :
        Printed([form |-> line.form, buffer |-> line.buffer, bad |-> line.bad,
                 wanted |-> text, edges |-> {0, Len(text)}, lost |-> line.lost])

PrintfText == MayOpen /\ \E text \in Texts : Printf(text, Expanded(text))

(* A null format, or a vsnprintf that fails, the first or the second time. *)
PrintfNull  == MayOpen /\ Printf(NullFormat, NullFormat)
PrintfError == MayFail /\ MayOpen /\ Printf(FormatError, FormatError)

(* No memory for the vector: bad_alloc leaves LogPrintf, and its LogLine   *)
(* submits a message with nothing in it.                                   *)
PrintfThrows ==
    /\ MayFail
    /\ MayOpen
    /\ \E text \in Texts :
          /\ Len(text) >= Scratch
          /\ Printed([form |-> "printf", buffer |-> EmptyBuffer, bad |-> FALSE,
                      wanted |-> text, edges |-> {0, Len(text)}, lost |-> TRUE])

Stopped == open = <<>> /\ Len(submitted) = MaxLines /\ UNCHANGED vars

Next ==
    \/ OpenLine \/ Insert \/ InsertNull \/ Close
    \/ PrintfText \/ PrintfNull \/ PrintfError \/ PrintfThrows
    \/ Stopped

Spec == Init /\ [][Next]_vars

-----------------------------------------------------------------------------
(* Properties                                                              *)

(* The text is the beginning of what was wanted, cut nowhere but between   *)
(* two pieces, and all of it unless something failed.                      *)
Whole(message, line) ==
    /\ Len(message) \in line.edges
    /\ Len(message) <= Len(line.wanted)
    /\ message = SubSeq(line.wanted, 1, Len(message))
    /\ ~line.lost => message = line.wanted

(* However a message crosses from the array to the heap, whichever of its  *)
(* allocations fail and whatever is logged while its arguments are         *)
(* computed, a buffer and a submitted message hold what their own          *)
(* statement inserted: a statement that fails loses whole pieces from its  *)
(* end, and printf never cuts a text to the size of its array.             *)
MessagesWhole ==
    /\ \A i \in 1..Len(open) : Whole(View(open[i].buffer), open[i])
    /\ \A i \in 1..Len(submitted) : Whole(submitted[i].message, submitted[i])

(* A short message stays on the stack and only a long one takes memory     *)
(* from the heap, as buffer.h says; the size is right in both.             *)
HeapOnlyWhenLong ==
    \A i \in 1..Len(open) :
        LET b == open[i].buffer
        IN  IF b.overflow = <<>> THEN b.size <= Inline
            ELSE b.size > Inline /\ b.size = Len(b.overflow)

=============================================================================
