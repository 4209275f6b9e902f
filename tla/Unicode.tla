------------------------------ MODULE Unicode -------------------------------
(***************************************************************************)
(* What the Unicode standard says of UTF-8 and UTF-16, as the reference    *)
(* for the conversions of module Utf8: tables 3-5, 3-6 and 3-7.  Nothing   *)
(* here is taken from the program.                                         *)
(***************************************************************************)
EXTENDS Integers, SequencesExt

Trailing == 128..191

(* Table 3-7, well-formed byte sequences.                                  *)
WellFormedSequences ==
    {<<0..127>>,
     <<194..223, Trailing>>,
     <<{224}, 160..191, Trailing>>,
     <<225..236, Trailing, Trailing>>,
     <<{237}, 128..159, Trailing>>,
     <<238..239, Trailing, Trailing>>,
     <<{240}, 144..191, Trailing, Trailing>>,
     <<241..243, Trailing, Trailing, Trailing>>,
     <<{244}, 128..143, Trailing, Trailing>>}

IsCharacter(s) ==
    \E row \in WellFormedSequences : Len(row) = Len(s) /\ \A i \in DOMAIN s : s[i] \in row[i]

(* Table 3-6, the bits of the scalar value in order.                       *)
ScalarValue(s) ==
    CASE Len(s) = 1 -> s[1]
      [] Len(s) = 2 -> (s[1] - 192) * 64 + (s[2] - 128)
      [] Len(s) = 3 -> (s[1] - 224) * 4096 + (s[2] - 128) * 64 + (s[3] - 128)
      [] OTHER      -> (s[1] - 240) * 262144 + (s[2] - 128) * 4096 + (s[3] - 128) * 64 + (s[4] - 128)

(* The ways in which a text falls into characters, as scalar values: one   *)
(* if it is well-formed, none if it is not.                                *)
Readings(text) ==
    LET from[i \in 1..Len(text) + 1] ==
            IF i > Len(text) THEN {<<>>}
            ELSE UNION {{<<ScalarValue(SubSeq(text, i, j))>> \o rest : rest \in from[j + 1]} :
                           j \in {k \in i..Len(text) : k < i + 4 /\ IsCharacter(SubSeq(text, i, k))}}
    IN  from[1]

(* Table 3-5, and UTF-32.                                                  *)
Encoded(value, width) ==
    IF width = 2 /\ value >= 65536
    THEN <<(value - 65536) \div 1024 + 55296, ((value - 65536) % 1024) + 56320>>
    ELSE <<value>>

Wide(values, width) == FlattenSeq([i \in DOMAIN values |-> Encoded(values[i], width)])

LastCodePoint == 1114111

(* Every surrogate is half of a pair, and there are none in UTF-32.        *)
WideWellFormed(text, width) ==
    \A i \in DOMAIN text :
        /\ text[i] \in 0..LastCodePoint
        /\ text[i] \in 55296..56319 => width = 2 /\ i < Len(text) /\ text[i + 1] \in 56320..57343
        /\ text[i] \in 56320..57343 => width = 2 /\ i > 1 /\ text[i - 1] \in 55296..56319

=============================================================================
