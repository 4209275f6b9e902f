-------------------------------- MODULE Utf8 --------------------------------
(***************************************************************************)
(* StringUtils: UTF-8 to wide strings and back.  A text is a sequence of   *)
(* bytes, or of wide units; width is sizeof(wchar_t), which is 2 (UTF-16)  *)
(* on Windows and 4 (UTF-32) on Linux.  Shifts and masks are divisions and *)
(* remainders by powers of two.  What cannot be converted fails an         *)
(* assertion; where that does not end the program the result is empty.     *)
(***************************************************************************)
EXTENDS Integers, Sequences

MAX_UNICODE_CODE_POINT == 1114111                \* 0x10FFFF

IsHighSurrogate(value) == value \in 55296..56319 \* 0xD800..0xDBFF
IsLowSurrogate(value)  == value \in 56320..57343 \* 0xDC00..0xDFFF

(* The bytes of a code point: six bits in each that follows the first.     *)
Follow(value) == 128 + (value % 64)

AppendUtf8Short(c) ==                            \* faulty: three bytes at most
    IF c <= 127 THEN <<c>>
    ELSE IF c <= 2047 THEN <<192 + c \div 64, Follow(c)>>
    ELSE <<224 + c \div 4096, Follow(c \div 64), Follow(c)>>

AppendUtf8(c) ==
    IF c <= 127 THEN <<c>>
    ELSE IF c <= 2047 THEN <<192 + c \div 64, Follow(c)>>
    ELSE IF c <= 65535 THEN <<224 + c \div 4096, Follow(c \div 64), Follow(c)>>
    ELSE <<240 + c \div 262144, Follow(c \div 4096), Follow(c \div 64), Follow(c)>>

(* What a first byte says: its own bits, the least code point it may begin *)
(* and how many bytes follow it; four of them is none at all.              *)
First(byte) ==
    IF byte <= 127 THEN [bits |-> byte, least |-> 0, follow |-> 0]
    ELSE IF byte \in 194..223 THEN [bits |-> byte % 32, least |-> 128, follow |-> 1]
    ELSE IF byte \in 224..239 THEN [bits |-> byte % 16, least |-> 2048, follow |-> 2]
    ELSE IF byte \in 240..244 THEN [bits |-> byte % 8, least |-> 65536, follow |-> 3]
    ELSE [bits |-> 0, least |-> 0, follow |-> 4]

Shifted(bits, byte) == bits * 64 + (byte % 64)

CodePointAt(text, i) ==
    LET f == First(text[i]) IN
    IF f.follow = 0 THEN f.bits
    ELSE IF f.follow = 1 THEN Shifted(f.bits, text[i + 1])
    ELSE IF f.follow = 2 THEN Shifted(Shifted(f.bits, text[i + 1]), text[i + 2])
    ELSE Shifted(Shifted(Shifted(f.bits, text[i + 1]), text[i + 2]), text[i + 3])

(* Faulty: the surrogates and the limit are not looked at.                 *)
DecodesLoosely(text, i) ==
    LET f == First(text[i]) IN
    /\ f.follow < 4
    /\ i + f.follow <= Len(text)
    /\ \A k \in 1..f.follow : text[i + k] \div 64 = 2
    /\ CodePointAt(text, i) >= f.least

(* Whether there is a code point at i.                                     *)
DecodesAt(text, i) ==
    LET f == First(text[i])
        c == CodePointAt(text, i)
    IN  /\ f.follow < 4
        /\ i + f.follow <= Len(text)
        /\ \A k \in 1..f.follow : text[i + k] \div 64 = 2
        /\ f.least <= c /\ c <= MAX_UNICODE_CODE_POINT
        /\ ~IsHighSurrogate(c) /\ ~IsLowSurrogate(c)

(* DecodeUtf8CodePoint: the code point at i, if there is one, and where    *)
(* the next one begins.                                                    *)
DecodeUtf8CodePoint(text, i) ==
    IF DecodesAt(text, i)
    THEN [ok |-> TRUE, code_point |-> CodePointAt(text, i), next |-> i + First(text[i]).follow + 1]
    ELSE [ok |-> FALSE, code_point |-> 0, next |-> Len(text) + 1]

(* The wide units of a code point.                                         *)
Units(c, width) ==
    IF width = 2 /\ c > 65535
    THEN <<55296 + (c - 65536) \div 1024, 56320 + ((c - 65536) % 1024)>>
    ELSE <<c>>

(* The conversion of what is left from an offset on, and whether it can be *)
(* converted.                                                              *)
Failed       == [ok |-> FALSE, text |-> <<>>]
Ahead(s, r)  == IF r.ok THEN [ok |-> TRUE, text |-> s \o r.text] ELSE Failed

StringToWString(text, width) ==
    LET rest[i \in 1..Len(text) + 1] ==
            IF i > Len(text) THEN [ok |-> TRUE, text |-> <<>>]
            ELSE LET d == DecodeUtf8CodePoint(text, i) IN
                 IF d.ok THEN Ahead(Units(d.code_point, width), rest[d.next]) ELSE Failed
    IN  rest[1].text

(* Two units that are one code point, which one, and a unit that is one.   *)
Pair(text, i) == IsHighSurrogate(text[i]) /\ i < Len(text) /\ IsLowSurrogate(text[i + 1])
Joined(high, low) == 65536 + (high - 55296) * 1024 + (low - 56320)

Single(text, i) == /\ ~IsHighSurrogate(text[i]) /\ ~IsLowSurrogate(text[i])
                  /\ text[i] <= MAX_UNICODE_CODE_POINT

(* Faulty: whatever follows a high surrogate is taken for a low one.       *)
WideCodePointUnpaired(text, i, width) ==
    LET c == text[i]
        pair == width = 2 /\ IsHighSurrogate(c) /\ i < Len(text)
    IN  [ok |-> c <= MAX_UNICODE_CODE_POINT,
         code_point |-> IF pair THEN Joined(c, text[i + 1]) ELSE c,
         units |-> IF pair THEN 2 ELSE 1]

(* The code point that begins at unit i of a wide text, if there is one,   *)
(* and how many units it has.                                              *)
WideCodePoint(text, i, width) ==
    IF width = 2 /\ Pair(text, i)
    THEN [ok |-> TRUE, units |-> 2, code_point |-> Joined(text[i], text[i + 1])]
    ELSE IF Single(text, i) THEN [ok |-> TRUE, units |-> 1, code_point |-> text[i]]
    ELSE [ok |-> FALSE, units |-> 1, code_point |-> 0]

WStringToString(text, width) ==
    LET rest[i \in 1..Len(text) + 1] ==
            IF i > Len(text) THEN [ok |-> TRUE, text |-> <<>>]
            ELSE LET d == WideCodePoint(text, i, width) IN
                 IF d.ok THEN Ahead(AppendUtf8(d.code_point), rest[i + d.units]) ELSE Failed
    IN  rest[1].text

=============================================================================
