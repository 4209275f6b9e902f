------------------------------ MODULE Pattern ------------------------------
(***************************************************************************)
(* The formatter: Formatter::parse, which turns a pattern into items in    *)
(* one pass, and Formatter::format, which lets each item append its field  *)
(* of a record.                                                            *)
(*                                                                         *)
(* A character is a member of Alphabet.  An item is its directive, or      *)
(* "literal", with the text it was made with; "null" is the pointer that   *)
(* CreateFormatItem returns for a directive it does not know.  What an     *)
(* item appends is named by the item.                                      *)
(***************************************************************************)
EXTENDS Integers, Sequences, FiniteSets

CONSTANTS
    Alphabet,       \* the characters of patterns
    Patterns,       \* the patterns given to the constructor
    MaxRecords,     \* bound: records formatted
    MayFail         \* whether a conversion or an allocation may fail

ASSUME PatternAssumption ==
    /\ Patterns \subseteq Seq(Alphabet)
    /\ MaxRecords \in Nat
    /\ MayFail \in BOOLEAN

VARIABLES
    pattern,        \* m_pattern
    index,          \* the character to read next, from 1
    literal,        \* the literal text read since the last item
    items,          \* m_items
    code,           \* what parse() returned
    at,             \* the item that format() is at; 0 outside format()
    output,         \* what the items appended for the record, in order
    records,        \* records formatted so far
    threw           \* ghost: the last format() was left by an exception

scan == <<pattern, index, literal, items, code>>
line == <<at, output, records, threw>>
vars == <<pattern, index, literal, items, code, at, output, records, threw>>

Percent == "%"
Open    == "{"
Close   == "}"

(* GetFormatItemFactories(): who ignores its configuration, and who not.   *)
Simple     == {"m", "p", "r", "c", "t", "n", "u", "f", "l", "T", "F", "N"}
Configured == {"d"}
Directives == Simple \cup Configured

DefaultFormat == <<"%Y-%m-%d %H:%M:%S">>

(* What parse() returns, and Parsing while it runs.                        *)
Parsing == 1
Accepted == 0
Incomplete == -1
BadBrace == -2
NullItem == -3

Item == [item : Directives \cup {"literal", "null"}, text : Seq(Alphabet) \cup {DefaultFormat}]

TypeOK ==
    /\ pattern \in Seq(Alphabet)
    /\ index \in 1..Len(pattern) + 1
    /\ literal \in Seq(Alphabet)
    /\ items \in Seq(Item)
    /\ code \in {Parsing, Accepted, Incomplete, BadBrace, NullItem}
    /\ at \in 0..Len(items) + 1
    /\ output \in Seq(Item)
    /\ records \in 0..MaxRecords
    /\ threw \in BOOLEAN

Init ==
    /\ pattern \in Patterns
    /\ index = 1 /\ literal = <<>> /\ items = <<>> /\ code = Parsing
    /\ at = 0 /\ output = <<>> /\ records = 0 /\ threw = FALSE

-----------------------------------------------------------------------------
(* Formatter::parse                                                        *)

Literal(text) == [item |-> "literal", text |-> text]

(* Faulty: an empty literal becomes an item too.                           *)
WithEmptyLiteral(list, text) == Append(list, Literal(text))

(* addLiteral()                                                            *)
WithLiteral(list, text) == IF text = <<>> THEN list ELSE Append(list, Literal(text))

CreateFormatItem(directive, format) ==
    [item |-> IF directive \in Directives THEN directive ELSE "null",
     text |-> IF directive \notin Configured THEN <<>>
              ELSE IF format = <<>> THEN DefaultFormat ELSE format]

Reading(i) == code = Parsing /\ i <= Len(pattern)

Char ==
    /\ Reading(index)
    /\ pattern[index] # Percent
    /\ literal' = Append(literal, pattern[index])
    /\ index' = index + 1
    /\ UNCHANGED <<pattern, items, code, line>>

(* A percent sign is the last character.                                   *)
Ends ==
    /\ Reading(index)
    /\ pattern[index] = Percent
    /\ index = Len(pattern)
    /\ code' = Incomplete
    /\ UNCHANGED <<pattern, index, literal, items, line>>

Escape ==
    /\ Reading(index + 1)
    /\ pattern[index] = Percent
    /\ pattern[index + 1] = Percent
    /\ literal' = Append(literal, Percent)
    /\ index' = index + 2
    /\ UNCHANGED <<pattern, items, code, line>>

AtDirective ==
    /\ Reading(index + 1)
    /\ pattern[index] = Percent
    /\ pattern[index + 1] # Percent

Braced(i) == i + 2 <= Len(pattern) /\ pattern[i + 2] = Open

Directive ==
    /\ AtDirective
    /\ ~Braced(index)
    /\ items' = Append(WithLiteral(items, literal), CreateFormatItem(pattern[index + 1], <<>>))
    /\ literal' = <<>>
    /\ index' = index + 2
    /\ UNCHANGED <<pattern, code, line>>

(* find('}', from)                                                         *)
ClosedAt(from, j) ==
    /\ j \in from..Len(pattern)
    /\ pattern[j] = Close
    /\ \A k \in from..j - 1 : pattern[k] # Close

(* Faulty: the next round starts inside of the configuration.              *)
ConfiguredReread ==
    /\ AtDirective
    /\ Braced(index)
    /\ \E j \in index + 4..Len(pattern) :
        /\ ClosedAt(index + 3, j)
        /\ items' = Append(WithLiteral(items, literal),
                           CreateFormatItem(pattern[index + 1], SubSeq(pattern, index + 3, j - 1)))
    /\ literal' = <<>>
    /\ index' = index + 2
    /\ UNCHANGED <<pattern, code, line>>

(* Faulty: the loop's own ++index is forgotten, and a brace is skipped twice. *)
ConfiguredOvershoots ==
    /\ AtDirective
    /\ Braced(index)
    /\ \E j \in index + 4..Len(pattern) :
        /\ ClosedAt(index + 3, j)
        /\ items' = Append(WithLiteral(items, literal),
                           CreateFormatItem(pattern[index + 1], SubSeq(pattern, index + 3, j - 1)))
        /\ index' = j + 2
    /\ literal' = <<>>
    /\ UNCHANGED <<pattern, code, line>>

ConfiguredDirective ==
    /\ AtDirective
    /\ Braced(index)
    /\ \E j \in index + 4..Len(pattern) :
        /\ ClosedAt(index + 3, j)
        /\ items' = Append(WithLiteral(items, literal),
                           CreateFormatItem(pattern[index + 1], SubSeq(pattern, index + 3, j - 1)))
        /\ index' = j + 1
    /\ literal' = <<>>
    /\ UNCHANGED <<pattern, code, line>>

(* No closing brace, or nothing before it: the literal is an item already. *)
BraceFails ==
    /\ AtDirective
    /\ Braced(index)
    /\ \A j \in index + 4..Len(pattern) : ~ClosedAt(index + 3, j)
    /\ items' = WithLiteral(items, literal)
    /\ literal' = <<>>
    /\ code' = BadBrace
    /\ UNCHANGED <<pattern, index, line>>

HasNull(list) == \E k \in 1..Len(list) : list[k].item = "null"

(* The last literal, and the search for null items.                        *)
End ==
    /\ code = Parsing /\ index = Len(pattern) + 1
    /\ items' = WithLiteral(items, literal)
    /\ literal' = <<>>
    /\ code' = IF HasNull(items') THEN NullItem ELSE Accepted
    /\ UNCHANGED <<pattern, index, line>>

Parse == Char \/ Ends \/ Escape \/ Directive \/ ConfiguredDirective \/ BraceFails \/ End

-----------------------------------------------------------------------------
(* Formatter::format, of a formatter whose constructor did not throw       *)

StartFormat ==
    /\ code = Accepted /\ at = 0
    /\ records < MaxRecords
    /\ records' = records + 1
    /\ at' = 1 /\ output' = <<>> /\ threw' = FALSE
    /\ UNCHANGED scan

Formatting == at \in 1..Len(items)

ItemAppends ==
    /\ Formatting
    /\ output' = Append(output, items[at])
    /\ at' = at + 1
    /\ UNCHANGED <<scan, records, threw>>

(* Faulty: the line is started again, as often as it takes.                *)
DateRestarts ==
    /\ MayFail
    /\ Formatting /\ items[at].item \in Configured
    /\ at' = 1 /\ output' = <<>>
    /\ UNCHANGED <<scan, records, threw>>

(* Faulty: what fails in one item ends the line.                           *)
DateEnds ==
    /\ MayFail
    /\ Formatting /\ items[at].item \in Configured
    /\ at' = Len(items) + 1
    /\ UNCHANGED <<scan, output, records, threw>>

(* localtime_r or strftime failed: the item returns, the others go on.     *)
DateFails ==
    /\ MayFail
    /\ Formatting /\ items[at].item \in Configured
    /\ at' = at + 1
    /\ UNCHANGED <<scan, output, records, threw>>

(* The buffer could not grow.                                              *)
AppendThrows ==
    /\ MayFail
    /\ Formatting
    /\ at' = 0 /\ threw' = TRUE
    /\ UNCHANGED <<scan, output, records>>

FormatReturns ==
    /\ at = Len(items) + 1
    /\ at' = 0
    /\ UNCHANGED <<scan, output, records, threw>>

Format == ItemAppends \/ DateFails \/ FormatReturns

(* Nothing is left to do: the constructor threw, or there is no record.    *)
Over ==
    /\ code # Parsing /\ at = 0
    /\ code = Accepted => records = MaxRecords
    /\ UNCHANGED vars

Next == Parse \/ StartFormat \/ Format \/ AppendThrows \/ Over

Spec == Init /\ [][Next]_vars

FairSpec == Spec /\ WF_vars(Parse) /\ WF_vars(Format)

-----------------------------------------------------------------------------
(* A reference reading of a pattern, which does not scan: the pattern is   *)
(* cut into tokens, and cuts is the set of the positions where one starts, *)
(* with the position behind the pattern.                                   *)

Token(i, j) ==
    \/ pattern[i] # Percent /\ j = i + 1
    \/ i + 1 <= Len(pattern) /\ pattern[i] = Percent /\
         \/ pattern[i + 1] = Percent /\ j = i + 2
         \/ pattern[i + 1] # Percent /\ ~Braced(i) /\ j = i + 2
         \/ pattern[i + 1] # Percent /\ Braced(i) /\ j > i + 4 /\ ClosedAt(i + 3, j - 1)

IsDirective(i) == pattern[i] = Percent /\ pattern[i + 1] # Percent

(* cuts splits what is before n into tokens.                               *)
Splits(cuts, n) ==
    /\ cuts \subseteq 1..n /\ 1 \in cuts /\ n \in cuts
    /\ \A i \in cuts : i < n =>
         \E j \in cuts : Token(i, j) /\ \A k \in cuts : k <= i \/ k >= j

Known(cuts, n) ==
    \A i \in cuts : (i < n /\ IsDirective(i)) => pattern[i + 1] \in Directives

Readable(cuts) == Splits(cuts, Len(pattern) + 1) /\ Known(cuts, Len(pattern) + 1)

ItemOf(i, j) ==
    IF IsDirective(i) THEN CreateFormatItem(pattern[i + 1], SubSeq(pattern, i + 3, j - 2))
    ELSE Literal(<<pattern[i]>>)

(* The items of a reading, each character of a literal on its own.         *)
ItemsOf(cuts) ==
    LET n == Cardinality(cuts) - 1
        start == [k \in 1..n + 1 |-> CHOOSE i \in cuts : Cardinality({c \in cuts : c < i}) = k - 1]
    IN  [k \in 1..n |-> ItemOf(start[k], start[k + 1])]

Apart(list) ==
    LET split[k \in 0..Len(list)] ==
            IF k = 0 THEN <<>>
            ELSE split[k - 1] \o
                 IF list[k].item = "literal"
                 THEN [c \in 1..Len(list[k].text) |-> Literal(<<list[k].text[c]>>)]
                 ELSE <<list[k]>>
    IN  split[Len(list)]

(* Whatever stands where in a pattern (escapes next to directives, braces  *)
(* outside of a directive, a brace or a percent sign in a configuration),  *)
(* the constructor throws exactly when the pattern has no reading, and a   *)
(* formatter that exists has the items of the reading, in order.           *)
ReadsPattern ==
    (code # Parsing /\ at = 0) =>
        IF code = Accepted
        THEN \E cuts \in SUBSET (1..Len(pattern) + 1) :
                Readable(cuts) /\ ItemsOf(cuts) = Apart(items)
        ELSE ~ \E cuts \in SUBSET (1..Len(pattern) + 1) : Readable(cuts)

Merged(list) ==
    /\ \A k \in 1..Len(list) : list[k].item = "literal" => list[k].text # <<>>
    /\ \A k \in 1..Len(list) - 1 : list[k].item = "literal" => list[k + 1].item # "literal"

(* addLiteral: at every moment of the scan, text runs are whole.  No item  *)
(* is an empty literal, and no two literals are neighbours.                *)
LiteralsMerged == Merged(items)

(* A date that cannot be converted costs the line its date and nothing     *)
(* else: unless an exception ends it, a line has every other item of the   *)
(* pattern, in the order of the pattern.                                   *)
OnlyDatesMissing ==
    (code = Accepted /\ at = 0 /\ records > 0 /\ ~threw) =>
        \E kept \in SUBSET (1..Len(items)) :
            /\ \A k \in 1..Len(items) : items[k].item \notin Configured => k \in kept
            /\ output = [n \in 1..Cardinality(kept) |->
                            items[CHOOSE k \in kept : Cardinality({c \in kept : c < k}) = n - 1]]

(* parse() and format() come to their ends on every pattern.               *)
Terminates ==
    /\ <>(code # Parsing)
    /\ at # 0 ~> at = 0

=============================================================================
